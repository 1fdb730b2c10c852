---------------------------- MODULE FrontProofs ----------------------------
(***************************************************************************)
(* Proofs about the source loader and the lexer, for every file system:    *)
(* neither looks beyond the byte behind a text, and no loop of them turns  *)
(* without reading.                                                        *)
(***************************************************************************)
EXTENDS Front, SequenceTheorems, WellFoundedInduction, TLAPS

-----------------------------------------------------------------------------
(* Where the loops over characters end.                                    *)

Char == STRING \ {End}

Less == {ss \in Nat \X Nat : ss[1] < ss[2]}

LEMMA LessWellFounded == IsWellFoundedOn(Less, Nat)
BY NatLessThanWellFounded, Zenon DEF OpToRel, Less

LEMMA SmallestIndex ==
    ASSUME NEW T, T \subseteq Nat, T # {}
    PROVE  \E x \in T : \A y \in T : x <= y
<1>1. PICK x \in T : \A y \in T : ~ (<<y, x>> \in Less)
    BY WFMin, LessWellFounded
<1>2. \A y \in T : y \in Nat /\ x \in Nat
    BY <1>1
<1>3. \A y \in T : ~(y < x)
    BY <1>1, <1>2 DEF Less
<1> QED
    BY <1>1, <1>2, <1>3

\* c is the first character from i on that is not in a class.
FirstOutside(t, i, class, j) ==
    /\ \A k \in i..(j - 1) : (IF k < Len(t) THEN t[k + 1] ELSE End) \in class
    /\ ~((IF j < Len(t) THEN t[j + 1] ELSE End) \in class)

\* There is one, at the end of the text at the latest.
LEMMA FirstOutsideExists ==
    ASSUME NEW t, Len(t) \in Nat, NEW class, End \notin class, NEW i \in 0..Len(t)
    PROVE  /\ \E j \in i..(Len(t) + 1) : FirstOutside(t, i, class, j)
           /\ \A j \in i..(Len(t) + 1) : FirstOutside(t, i, class, j) => j <= Len(t)
<1> DEFINE T == {j \in i..Len(t) : (IF j < Len(t) THEN t[j + 1] ELSE End) \notin class}
<1>1. T \subseteq Nat /\ Len(t) \in T
    OBVIOUS
<1>2. PICK j \in T : \A k \in T : j <= k
    BY <1>1, SmallestIndex
<1>3. FirstOutside(t, i, class, j) /\ j \in i..(Len(t) + 1)
    <2>1. /\ j \in i..Len(t) /\ Len(t) \in Nat
          /\ ~((IF j < Len(t) THEN t[j + 1] ELSE End) \in class)
        BY <1>2
    <2>2. ASSUME NEW k \in i..(j - 1)
          PROVE  (IF k < Len(t) THEN t[k + 1] ELSE End) \in class
        <3>1. k \in i..Len(t) /\ ~(j <= k)
            BY <2>1
        <3>2. k \notin T
            BY <1>2, <3>1
        <3> QED
            BY <3>1, <3>2
    <2> QED
        BY <2>1, <2>2 DEF FirstOutside
<1>4. ASSUME NEW k \in i..(Len(t) + 1), FirstOutside(t, i, class, k)
      PROVE  k <= Len(t)
    BY <1>4 DEF FirstOutside
<1> QED
    BY <1>3, <1>4

LEMMA FirstOutsideChosen ==
    ASSUME NEW t, Len(t) \in Nat, NEW class, End \notin class, NEW i \in 0..Len(t),
           NEW x, x = CHOOSE j \in i..(Len(t) + 1) : FirstOutside(t, i, class, j)
    PROVE  x \in i..Len(t) /\ x \in Nat
<1>1. x \in i..(Len(t) + 1) /\ FirstOutside(t, i, class, x)
    BY FirstOutsideExists
<1> QED
    BY <1>1, FirstOutsideExists

LEMMA SkipBounds ==
    ASSUME source \in Seq(Char), NEW i \in 0..Len(source)
    PROVE  L!Skip(i) \in i..Len(source)
<1>1. PICK white : white = {" ", L!NL}
    OBVIOUS
<1>2. End \notin white /\ Len(source) \in Nat
    <2>1. Len(source) \in Nat
        OBVIOUS
    <2>2. End # L!NL /\ End # " "
        BY DEF End, L!NL
    <2> QED
        BY <1>1, <2>1, <2>2
<1>3. L!Skip(i) = CHOOSE j \in i..(Len(source) + 1) : FirstOutside(source, i, white, j)
    BY <1>1, Zenon DEF L!Skip, L!After, L!At, L!is_whitespace, FirstOutside, End, L!End
<1> QED
    BY <1>2, <1>3, FirstOutsideChosen

LEMMA WordEndBounds ==
    ASSUME source \in Seq(Char), source_idx \in 0..(Len(source) - 1)
    PROVE  L!WordEnd \in (source_idx + 1)..Len(source)
<1>1. PICK alnum, i : /\ alnum = {"0", "1", "a", "b", "d", "n", "x", "y", "X", "A"} \cup L!Runs
                      /\ i = source_idx + 1
    OBVIOUS
<1>2. End \notin alnum /\ Len(source) \in Nat /\ i \in 0..Len(source)
    BY <1>1 DEF End, L!Runs
<1>3. L!WordEnd = CHOOSE j \in i..(Len(source) + 1) : FirstOutside(source, i, alnum, j)
    BY <1>1, Zenon DEF L!WordEnd, L!After, L!At, L!is_alnum, FirstOutside, End, L!End
<1> QED
    BY <1>1, <1>2, <1>3, FirstOutsideChosen

LEMMA NumberEndBounds ==
    ASSUME source \in Seq(Char), source_idx \in 0..(Len(source) - 1)
    PROVE  L!After(source, source_idx + 1, L!is_hex) \in (source_idx + 1)..Len(source)
<1>1. PICK hex, i : hex = {"0", "1", "a", "b", "d", "x", "A"} /\ i = source_idx + 1
    OBVIOUS
<1>2. End \notin hex /\ Len(source) \in Nat /\ i \in 0..Len(source)
    BY <1>1 DEF End
<1>3. L!After(source, source_idx + 1, L!is_hex)
          = CHOOSE j \in i..(Len(source) + 1) : FirstOutside(source, i, hex, j)
    BY <1>1, Zenon DEF L!After, L!At, L!is_hex, FirstOutside, End, L!End
<1> QED
    BY <1>1, <1>2, <1>3, FirstOutsideChosen

\* The line that is read next is not empty, and ends within its file.
LEMMA LineBounds ==
    ASSUME S!Text \in Seq(Char), S!Top.pos \in 0..(Len(S!Text) - 1)
    PROVE  S!LineEnd \in (S!Top.pos + 1)..Len(S!Text)
<1>0. PICK t, i : t = S!Text /\ i = S!Top.pos
    OBVIOUS
<1>. t \in Seq(Char) /\ i \in 0..(Len(t) - 1)
    BY <1>0
<1> DEFINE c(k) == IF k < Len(t) THEN t[k + 1] ELSE S!End
           T == {j \in i..Len(t) : c(j) \in {S!NL, S!End}}
           First(j) == /\ \A k \in i..(j - 1) : c(k) \notin {S!NL, S!End}
                       /\ ~(c(j) \notin {S!NL, S!End})
<1>1. T \subseteq Nat /\ Len(t) \in T
    OBVIOUS
<1>2. PICK x \in T : \A k \in T : x <= k
    BY <1>1, SmallestIndex
<1>3. x \in i..Len(t) /\ Len(t) \in Nat /\ c(x) \in {S!NL, S!End}
    BY <1>2
<1>4. First(x)
    <2>1. ASSUME NEW k \in i..(x - 1)
          PROVE  c(k) \notin {S!NL, S!End}
        <3>1. k \in i..Len(t) /\ ~(x <= k)
            BY <1>3
        <3>2. k \notin T
            BY <1>2, <3>1
        <3> QED
            BY <3>1, <3>2
    <2> QED
        BY <1>3, <2>1
<1>5. PICK j : j = CHOOSE k \in i..(Len(t) + 1) : First(k)
    OBVIOUS
<1>6. j \in i..(Len(t) + 1) /\ First(j)
    <2>1. x \in i..(Len(t) + 1)
        BY <1>3
    <2> HIDE DEF First
    <2> QED
        BY <1>4, <1>5, <2>1
<1>7. \A k \in 0..(Len(t) - 1) : t[k + 1] # S!End
    BY DEF Char, End, S!End
<1>8. j <= Len(t)
    <2>1. c(Len(t)) = S!End
        OBVIOUS
    <2> QED
        BY <1>6, <2>1
<1>9. S!LineEnd = IF c(j) = S!NL THEN j + 1 ELSE j
    <2>1. S!LineEnd = LET k == S!After(t, i, LAMBDA d : d \notin {S!NL, S!End})
                      IN IF S!At(t, k) = S!NL THEN k + 1 ELSE k
        BY <1>0, Zenon DEF S!LineEnd
    <2>2. j = S!After(t, i, LAMBDA d : d \notin {S!NL, S!End})
        BY <1>5, Zenon DEF S!After, S!At
    <2> QED
        BY <2>1, <2>2 DEF S!At
<1>10. c(j) = S!NL => j < Len(t)
    BY <1>8 DEF S!NL, S!End
<1>11. c(j) # S!NL => j > i
    <2> SUFFICES ASSUME c(j) # S!NL, j = i PROVE FALSE
        BY <1>6
    <2>1. c(i) = S!End
        BY <1>6
    <2> QED
        BY <1>7, <2>1
<1> QED
    BY <1>0, <1>3, <1>6, <1>8, <1>9, <1>10, <1>11

-----------------------------------------------------------------------------
(* The invariant.                                                          *)

Text == Seq(STRING)

Tokens ==
    {"t_sof", "t_define", "t_include", "t_numeric", "punctuation", "t_string", "t_char", "t_eof",
     "keyword", "t_identifier"}

Accepted == Tokens \ {"t_sof", "t_define", "t_include", "t_eof"}

Controls ==
    {"initialize", "token", "include", "ifdef", "skip", "comment", "string", "parser"}
        \cup L!Final

IsParsing(p) ==
    \/ p \in {<<"statement">>, <<"define name">>}
    \/ \E n \in Text : p = <<"define value", n>>
    \/ \E n, v \in Text : p = <<"add alias", n, v>>

\* What s_load keeps: the activations are in their files, and only while it
\* runs is the lexer not.
Loading ==
    /\ \A p \in DOMAIN files : files[p] \in Seq(Char)
    /\ open \in Seq([path : DOMAIN files, pos : Nat]) /\ Len(open) <= MaxOpen
    /\ \A i \in 1..Len(open) : open[i].pos <= Len(files[open[i].path])
    /\ loading \in {"running", "loaded", "crash"}
    /\ loading = "running" => Len(open) > 0
    /\ loading # "loaded" => pc = "initialize"
    /\ source \in Seq(Char)

\* What the lexer and the parser keep.
Lexing ==
    /\ source_idx \in 0..Len(source) /\ pc \in Controls
    /\ special \in BOOLEAN /\ token_string \in Text /\ next_token \in Tokens
    /\ aliases \in Seq([alias : Text, value : Text]) /\ IsParsing(parsing)
    /\ out \in Seq([token : Accepted, text : Text])
    /\ pc = "parser" => next_token # "t_sof"
    /\ pc = "initialize" => source_idx = 0

LEMMA CharsText ==
    ASSUME NEW s \in Seq(Char)
    PROVE  s \in Text /\ Len(s) \in Nat
<1>1. Char \subseteq STRING
    BY DEF Char
<1> QED
    <2>1. s \in Text
        BY <1>1, SeqMonotonic, Zenon DEF Text
    <2>2. Len(s) \in Nat
        BY LenProperties
    <2> QED
        BY <2>1, <2>2

LEMMA Typed ==
    ASSUME Loading, Lexing
    PROVE  TypeOK
<1>1. source \in Text
    BY CharsText DEF Loading
<1>2. \A i \in 1..Len(open) : open[i] \in [path : DOMAIN files, pos : Nat]
    BY ElementOfSeq DEF Loading
<1>3. \A i \in 1..Len(open) : /\ open[i].path \in DOMAIN files
                               /\ open[i].pos \in 0..Len(files[open[i].path])
    <2> SUFFICES ASSUME NEW i \in 1..Len(open)
                 PROVE  /\ open[i].path \in DOMAIN files
                        /\ open[i].pos \in 0..Len(files[open[i].path])
        OBVIOUS
    <2>1. open[i].path \in DOMAIN files /\ open[i].pos \in Nat
        BY <1>2
    <2>2. open[i].pos <= Len(files[open[i].path]) /\ Len(files[open[i].path]) \in Nat
        BY <2>1, CharsText DEF Loading
    <2> QED
        BY <2>1, <2>2
<1>4. parsing[1] \in {"statement", "define name", "define value", "add alias"}
    <2>0. CASE parsing = <<"statement">>
        BY <2>0
    <2>1. CASE parsing = <<"define name">>
        BY <2>1
    <2>2. ASSUME NEW n \in Text, parsing = <<"define value", n>>
          PROVE  parsing[1] = "define value"
        BY <2>2
    <2>3. ASSUME NEW n \in Text, NEW v \in Text, parsing = <<"add alias", n, v>>
          PROVE  parsing[1] = "add alias"
        BY <2>3
    <2>4. \/ parsing \in {<<"statement">>, <<"define name">>}
          \/ \E n \in Text : parsing = <<"define value", n>>
          \/ \E n, v \in Text : parsing = <<"add alias", n, v>>
        BY Zenon DEF Lexing, IsParsing
    <2> QED
        BY <2>0, <2>1, <2>2, <2>3, <2>4
<1>5. \A i \in 1..Len(out) : out[i].token \notin {"t_sof", "t_define", "t_include", "t_eof"}
    <2>1. \A i \in 1..Len(out) : out[i] \in [token : Accepted, text : Text]
        BY ElementOfSeq DEF Lexing
    <2> QED
        BY <2>1 DEF Accepted
<1> QED
    BY <1>1, <1>3, <1>4, <1>5 DEF Loading, Lexing, TypeOK, Text, Tokens, Controls

-----------------------------------------------------------------------------
(* What is left to do.                                                     *)

LEMMA StageValues ==
    ASSUME Lexing
    PROVE  /\ Stage \in 0..7
           /\ Stage = 0 <=> pc \in L!Final
           /\ pc = "initialize" => Stage = 7
           /\ pc = "token" => Stage = 4
           /\ pc = "string" => Stage = 3
           /\ pc = "parser" => Stage = (IF next_token = "t_eof" THEN 1 ELSE 5)
                                       + (IF parsing[1] = "add alias" THEN 1 ELSE 0)
<1>1. pc \in Controls
    BY DEF Lexing
<1>2. pc \in L!Final => Stage = 0
    BY Zenon DEF Stage, L!Final
<1>3. pc = "parser" => Stage = (IF next_token = "t_eof" THEN 1 ELSE 5)
                               + (IF parsing[1] = "add alias" THEN 1 ELSE 0)
    BY Zenon DEF Stage, L!Final
<1>4. /\ pc = "initialize" => Stage = 7
      /\ pc = "token" => Stage = 4
      /\ pc = "string" => Stage = 3
      /\ pc \in {"include", "ifdef", "skip", "comment"} => Stage = 1
    BY Zenon DEF Stage, L!Final
<1>5. pc = "parser" => Stage \in 1..7
    <2>1. PICK a, b : /\ a = IF next_token = "t_eof" THEN 1 ELSE 5
                      /\ b = IF parsing[1] = "add alias" THEN 1 ELSE 0
        OBVIOUS
    <2>2. a \in {1, 5} /\ b \in {0, 1}
        BY <2>1
    <2>3. pc = "parser" => Stage = a + b
        BY <1>3, <2>1
    <2> QED
        BY <2>2, <2>3
<1>6. pc \notin L!Final /\ pc # "parser" => Stage \in 1..7
    BY <1>1, <1>4 DEF Controls
<1>7. Stage \in 0..7 /\ (Stage = 0 <=> pc \in L!Final)
    BY <1>2, <1>5, <1>6 DEF L!Final
<1> QED
    BY <1>3, <1>4, <1>7

LEMMA StageAlways ==
    Lexing =>
        /\ Stage \in 0..7
        /\ Stage = 0 <=> pc \in L!Final
        /\ pc = "initialize" => Stage = 7
        /\ pc = "token" => Stage = 4
        /\ pc = "string" => Stage = 3
        /\ pc = "parser" => Stage = (IF next_token = "t_eof" THEN 1 ELSE 5)
                                    + (IF parsing[1] = "add alias" THEN 1 ELSE 0)
BY StageValues

LEMMA StageNext ==
    ASSUME Lexing'
    PROVE  /\ Stage' \in 0..7
           /\ Stage' = 0 <=> pc' \in L!Final
           /\ pc' = "initialize" => Stage' = 7
           /\ pc' = "token" => Stage' = 4
           /\ pc' = "string" => Stage' = 3
           /\ pc' = "parser" => Stage' = (IF next_token' = "t_eof" THEN 1 ELSE 5)
                                         + (IF parsing'[1] = "add alias" THEN 1 ELSE 0)
<1>1. (Lexing =>
        /\ Stage \in 0..7
        /\ Stage = 0 <=> pc \in L!Final
        /\ pc = "initialize" => Stage = 7
        /\ pc = "token" => Stage = 4
        /\ pc = "string" => Stage = 3
        /\ pc = "parser" => Stage = (IF next_token = "t_eof" THEN 1 ELSE 5)
                                    + (IF parsing[1] = "add alias" THEN 1 ELSE 0))'
    BY StageAlways, PTL
<1> QED
    BY <1>1 DEF L!Final

\* One step of the lexer or the parser.
Step == Lexing' /\ Remaining' < Remaining /\ Remaining' >= 0

\* It reads, or has less to do where it is.
LEMMA LessLeft ==
    ASSUME source \in Seq(Char), Lexing, Lexing', UNCHANGED source,
           \/ source_idx' > source_idx /\ pc \notin L!Final
           \/ source_idx' = source_idx /\ Stage' < Stage
    PROVE  Step
<1>1. Stage \in 0..7 /\ Stage' \in 0..7 /\ (pc \notin L!Final => Stage > 0)
    <2>1. Stage \in 0..7 /\ (Stage = 0 <=> pc \in L!Final)
        BY StageValues
    <2>2. Stage' \in 0..7
        BY StageNext
    <2> QED
        BY <2>1, <2>2
<1>2. Len(source) \in Nat /\ source_idx \in 0..Len(source) /\ source_idx' \in 0..Len(source)
    BY DEF Lexing
<1>3. Remaining = 8 * (Len(source) - source_idx) + Stage
    BY DEF Remaining
<1>4. Remaining' = 8 * (Len(source) - source_idx') + Stage'
    BY DEF Remaining
<1> QED
    BY <1>1, <1>2, <1>3, <1>4 DEF Step

-----------------------------------------------------------------------------
(* How a step of the lexer ends.                                           *)

Reading ==
    /\ source \in Seq(Char) /\ Lexing /\ pc \notin L!Final
    /\ UNCHANGED <<source, aliases, parsing, out>> /\ special' \in BOOLEAN

LEMMA Returned ==
    ASSUME Reading, NEW token \in Tokens \ {"t_sof"}, NEW text \in Text,
           NEW idx \in (source_idx + 1)..Len(source), L!Return(token, text, idx)
    PROVE  Step
<1>1. Lexing'
    BY DEF Reading, Lexing, L!Return, Controls
<1>2. source_idx' > source_idx
    BY DEF Reading, Lexing, L!Return
<1> QED
    BY <1>1, <1>2, LessLeft DEF Reading

LEMMA Repeated ==
    ASSUME Reading, NEW idx \in (source_idx + 1)..Len(source), L!Again(idx)
    PROVE  Step
<1>1. << >> \in Text
    BY DEF Text
<1>2. Lexing'
    BY <1>1 DEF Reading, Lexing, L!Again, Controls
<1>3. source_idx' > source_idx
    BY DEF Reading, Lexing, L!Again
<1> QED
    BY <1>2, <1>3, LessLeft DEF Reading

LEMMA Went ==
    ASSUME Reading, NEW idx \in (source_idx + 1)..Len(source), token_string' \in Text,
           NEW control \in {"include", "ifdef", "skip", "comment", "string"},
           L!Goto(control, idx)
    PROVE  Step
<1>1. Lexing'
    BY DEF Reading, Lexing, L!Goto, Controls
<1>2. source_idx' > source_idx
    BY DEF Reading, Lexing, L!Goto
<1> QED
    BY <1>1, <1>2, LessLeft DEF Reading

LEMMA Stopped ==
    ASSUME source \in Seq(Char), Lexing, pc \notin L!Final,
           UNCHANGED <<source, aliases, parsing, out>>, special' \in BOOLEAN,
           NEW result \in L!Final, L!Stop(result)
    PROVE  Step
<1>1. Lexing'
    BY DEF Lexing, L!Stop, Controls, L!Final
<1>2. source_idx' = source_idx /\ pc' \in L!Final
    BY DEF L!Stop
<1>3. Stage' < Stage
    <2>1. Stage \in 0..7 /\ (Stage = 0 <=> pc \in L!Final)
        BY StageValues
    <2>2. Stage' = 0
        BY <1>1, <1>2, StageNext
    <2> QED
        BY <2>1, <2>2
<1> QED
    BY <1>1, <1>2, <1>3, LessLeft

\* What has been read is a text.
LEMMA PartOfText ==
    ASSUME NEW s \in Seq(Char), NEW m \in Nat \ {0}, NEW n \in 0..Len(s)
    PROVE  SubSeq(s, m, n) \in Text
<1>1. \A i \in m..n : s[i] \in STRING
    BY ElementOfSeq DEF Char
<1> QED
    <2>1. m \in Int /\ n \in Int
        OBVIOUS
    <2> QED
        BY <1>1, <2>1, SubSeqProperties, Zenon DEF Text

LEMMA TextAppended ==
    ASSUME NEW t \in Text, NEW c \in STRING
    PROVE  Append(t, c) \in Text
BY AppendProperties DEF Text

\* A character that is not the end of the text stands in it.
LEMMA InText ==
    ASSUME source \in Seq(Char), NEW i \in Nat, L!At(source, i) # L!End
    PROVE  i < Len(source) /\ L!At(source, i) = source[i + 1] /\ L!At(source, i) \in STRING
<1>1. Len(source) \in Nat /\ i < Len(source) /\ L!At(source, i) = source[i + 1]
    BY DEF L!At
<1>2. source[i + 1] \in Char
    BY <1>1, ElementOfSeq
<1> QED
    BY <1>1, <1>2 DEF Char

LEMMA AtString ==
    ASSUME source \in Seq(Char), NEW i \in Nat
    PROVE  L!At(source, i) \in STRING
<1>1. CASE L!At(source, i) = L!End
    BY <1>1, CharactersAssumption DEF L!End, End
<1>2. CASE L!At(source, i) # L!End
    BY <1>2, InText
<1> QED
    BY <1>1, <1>2

-----------------------------------------------------------------------------
(* Directives.                                                             *)

\* What holds as the lexer begins or goes on.
Lexer == source \in Seq(Char) /\ Lexing

LEMMA DirectiveRead ==
    ASSUME Lexer, NEW name, L!Directive(name)
    PROVE  /\ Reading
           /\ L!WordEnd \in (source_idx + 1)..Len(source)
           /\ L!Skip(L!WordEnd) \in (source_idx + 1)..Len(source)
<1>1. source_idx \in Nat /\ L!At(source, source_idx) # L!End
    BY DEF Lexer, Lexing, L!Directive, L!next_char, L!End
<1>2. source_idx \in 0..(Len(source) - 1) /\ Len(source) \in Nat
    BY <1>1, InText, CharsText DEF Lexer
<1>3. L!WordEnd \in (source_idx + 1)..Len(source)
    BY <1>2, WordEndBounds DEF Lexer
<1>4. L!WordEnd \in 0..Len(source)
    BY <1>2, <1>3
<1>5. L!Skip(L!WordEnd) \in L!WordEnd..Len(source)
    BY <1>4, SkipBounds DEF Lexer
<1>6. Reading
    BY DEF Reading, Lexer, Lexing, L!Directive, L!InToken, L!LexerOnly, L!UnchangedParser, L!Final
<1> QED
    BY <1>2, <1>3, <1>5, <1>6

LEMMA EmptyText == << >> \in Text
BY DEF Text

LEMMA DirectiveIncludeStep ==
    ASSUME Lexer, L!DirectiveInclude
    PROVE  Step
<1>1. PICK name : L!Directive(name)
    BY DEF L!DirectiveInclude
<1>2. PICK idx : idx = L!Skip(L!WordEnd)
    OBVIOUS
<1>3. PICK control : control = "include"
    OBVIOUS
<1>4. Reading /\ idx \in (source_idx + 1)..Len(source)
    BY <1>1, <1>2, DirectiveRead
<1>5. token_string' \in Text /\ L!Goto(control, idx)
    BY <1>2, <1>3, EmptyText DEF L!DirectiveInclude
<1> QED
    BY <1>3, <1>4, <1>5, Went

LEMMA DirectiveIfdefStep ==
    ASSUME Lexer, L!DirectiveIfdef
    PROVE  Step
<1>1. PICK name : L!Directive(name)
    BY DEF L!DirectiveIfdef
<1>2. PICK idx : idx = L!Skip(L!WordEnd)
    OBVIOUS
<1>3. PICK control : control = "ifdef"
    OBVIOUS
<1>4. Reading /\ idx \in (source_idx + 1)..Len(source)
    BY <1>1, <1>2, DirectiveRead
<1>5. token_string' \in Text /\ L!Goto(control, idx)
    BY <1>2, <1>3, EmptyText DEF L!DirectiveIfdef
<1> QED
    BY <1>3, <1>4, <1>5, Went

LEMMA DirectiveDefineStep ==
    ASSUME Lexer, L!DirectiveDefine
    PROVE  Step
<1>1. PICK name : L!Directive(name)
    BY DEF L!DirectiveDefine
<1>2. PICK idx : idx = L!Skip(L!WordEnd)
    OBVIOUS
<1>3. PICK token, text : token = "t_define" /\ text = <<"#", "define">>
    OBVIOUS
<1>4. Reading /\ idx \in (source_idx + 1)..Len(source)
    BY <1>1, <1>2, DirectiveRead
<1>5. token \in Tokens \ {"t_sof"} /\ text \in Text
    <2>1. "#" \in STRING /\ "define" \in STRING
        BY CharactersAssumption
    <2> QED
        BY <1>3, <2>1 DEF Tokens, Text
<1>6. L!Return(token, text, idx)
    BY <1>2, <1>3 DEF L!DirectiveDefine
<1> QED
    BY <1>4, <1>5, <1>6, Returned

LEMMA DirectiveEndifStep ==
    ASSUME Lexer, L!DirectiveEndif
    PROVE  Step
<1>1. PICK name : L!Directive(name)
    BY DEF L!DirectiveEndif
<1>2. PICK idx : idx = L!Skip(L!WordEnd)
    OBVIOUS
<1>3. Reading /\ idx \in (source_idx + 1)..Len(source)
    BY <1>1, <1>2, DirectiveRead
<1>4. L!Again(idx)
    BY <1>2 DEF L!DirectiveEndif
<1> QED
    BY <1>3, <1>4, Repeated

\* A step that leaves what the parser has, at a place where the lexer reads.
LEMMA ReadingHere ==
    ASSUME Lexer, L!LexerOnly,
           pc \in {"token", "include", "ifdef", "skip", "comment", "string"}
    PROVE  Reading
BY DEF Reading, Lexer, Lexing, L!LexerOnly, L!UnchangedParser, L!Final

LEMMA StoppedHere ==
    ASSUME Reading, NEW result \in L!Final, L!Stop(result)
    PROVE  Step
BY Stopped DEF Reading

LEMMA DirectiveUnknownStep ==
    ASSUME Lexer, L!DirectiveUnknown
    PROVE  Step
<1>1. Reading
    BY ReadingHere DEF L!DirectiveUnknown, L!InToken
<1>2. PICK result : result = "error"
    OBVIOUS
<1>3. result \in L!Final /\ L!Stop(result)
    BY <1>2 DEF L!DirectiveUnknown, L!Final
<1> QED
    BY <1>1, <1>3, StoppedHere

\* Where the character at i stands in the text, so does the index behind it,
\* and that of what is not white from there on.
LEMMA NextIndex ==
    ASSUME Lexer, NEW i \in Nat, source_idx <= i, L!At(source, i) # L!End
    PROVE  /\ i + 1 \in (source_idx + 1)..Len(source)
           /\ L!Skip(i + 1) \in (source_idx + 1)..Len(source)
<1>1. i < Len(source) /\ Len(source) \in Nat /\ source_idx \in Nat
    BY InText, CharsText DEF Lexer, Lexing
<1>2. PICK j \in 0..Len(source) : j = i + 1
    BY <1>1
<1>3. L!Skip(j) \in j..Len(source)
    BY SkipBounds DEF Lexer
<1> QED
    BY <1>1, <1>2, <1>3

LEMMA TokenAppended ==
    ASSUME Lexer
    PROVE  Append(token_string, L!next_char) \in Text
<1>1. source_idx \in Nat /\ token_string \in Text
    BY DEF Lexer, Lexing
<1>2. L!next_char \in STRING
    BY <1>1, AtString DEF Lexer, L!next_char
<1> QED
    BY <1>1, <1>2, TextAppended

\* What the three loops over a line have in common: they end at the end of the
\* text, go on with the next character, or finish with the line.
LEMMA LineRead ==
    ASSUME Lexer, L!LexerOnly, pc \in {"include", "ifdef", "skip"}
    PROVE  /\ Reading
           /\ L!Stop("overrun") => Step
           /\ L!next_char # L!End =>
                  /\ source_idx + 1 \in (source_idx + 1)..Len(source)
                  /\ L!Skip(source_idx + 1) \in (source_idx + 1)..Len(source)
           /\ Append(token_string, L!next_char) \in Text
<1>1. Reading
    BY ReadingHere
<1>2. L!Stop("overrun") => Step
    <2>1. PICK result : result = "overrun"
        OBVIOUS
    <2> QED
        BY <1>1, <2>1, StoppedHere DEF L!Final
<1>3. source_idx \in Nat
    BY DEF Lexer, Lexing
<1> QED
    BY <1>1, <1>2, <1>3, NextIndex, TokenAppended DEF L!next_char

LEMMA IncludeLineStep ==
    ASSUME Lexer, L!IncludeLine
    PROVE  Step
<1>1. pc = "include" /\ L!LexerOnly
    BY DEF L!IncludeLine
<1>2. CASE L!next_char = L!End
    BY <1>1, <1>2, LineRead DEF L!IncludeLine
<1>3. CASE L!next_char # L!End
    <2>1. PICK j, k, text, token, control :
              /\ j = source_idx + 1 /\ k = L!Skip(j)
              /\ text = Append(token_string, L!next_char)
              /\ token = "t_include" /\ control = "include"
        OBVIOUS
    <2>2. /\ Reading /\ j \in (source_idx + 1)..Len(source)
          /\ k \in (source_idx + 1)..Len(source) /\ text \in Text
        BY <1>1, <1>3, <2>1, LineRead
    <2>3. \/ L!Return(token, text, k)
          \/ token_string' = text /\ L!Goto(control, j)
        BY <1>3, <2>1 DEF L!IncludeLine
    <2>4. CASE L!Return(token, text, k)
        <3>1. token \in Tokens \ {"t_sof"}
            BY <2>1 DEF Tokens
        <3> QED
            BY <2>2, <2>4, <3>1, Returned
    <2>5. CASE token_string' = text /\ L!Goto(control, j)
        <3>1. control \in {"include", "ifdef", "skip", "comment", "string"}
            BY <2>1
        <3> QED
            BY <2>2, <2>5, <3>1, Went
    <2> QED
        BY <2>3, <2>4, <2>5
<1> QED
    BY <1>2, <1>3

LEMMA IfdefNameStep ==
    ASSUME Lexer, L!IfdefName
    PROVE  Step
<1>1. pc = "ifdef" /\ L!LexerOnly
    BY DEF L!IfdefName
<1>2. CASE L!next_char = L!End
    BY <1>1, <1>2, LineRead DEF L!IfdefName
<1>3. CASE L!next_char # L!End
    <2>1. PICK j, k, text, ifdef, skip :
              /\ j = source_idx + 1 /\ k = L!Skip(j)
              /\ text = Append(token_string, L!next_char)
              /\ ifdef = "ifdef" /\ skip = "skip"
        OBVIOUS
    <2>2. /\ Reading /\ j \in (source_idx + 1)..Len(source)
          /\ k \in (source_idx + 1)..Len(source) /\ text \in Text
        BY <1>1, <1>3, <2>1, LineRead
    <2>3. \/ token_string' = text /\ L!Goto(ifdef, j)
          \/ L!Again(k)
          \/ token_string' = <<>> /\ L!Goto(skip, k)
        BY <1>3, <2>1 DEF L!IfdefName
    <2>4. {ifdef, skip} \subseteq {"include", "ifdef", "skip", "comment", "string"}
        BY <2>1
    <2>5. CASE token_string' = text /\ L!Goto(ifdef, j)
        BY <2>2, <2>4, <2>5, Went
    <2>6. CASE L!Again(k)
        BY <2>2, <2>6, Repeated
    <2>7. CASE token_string' = <<>> /\ L!Goto(skip, k)
        BY <2>2, <2>4, <2>7, EmptyText, Went
    <2> QED
        BY <2>3, <2>5, <2>6, <2>7
<1> QED
    BY <1>2, <1>3

LEMMA SkipLineStep ==
    ASSUME Lexer, L!SkipLine
    PROVE  Step
<1>1. pc = "skip" /\ L!LexerOnly
    BY DEF L!SkipLine
<1>2. CASE L!next_char = L!End
    BY <1>1, <1>2, LineRead DEF L!SkipLine
<1>3. CASE L!next_char # L!End
    <2>1. PICK j, k, text, skip :
              /\ j = source_idx + 1 /\ k = L!Skip(j)
              /\ text = Append(token_string, L!next_char) /\ skip = "skip"
        OBVIOUS
    <2>2. /\ Reading /\ j \in (source_idx + 1)..Len(source)
          /\ k \in (source_idx + 1)..Len(source) /\ text \in Text
        BY <1>1, <1>3, <2>1, LineRead
    <2>3. \/ token_string' = text /\ L!Goto(skip, j)
          \/ L!Again(k)
          \/ token_string' = <<>> /\ L!Goto(skip, k)
        BY <1>3, <2>1 DEF L!SkipLine
    <2>4. skip \in {"include", "ifdef", "skip", "comment", "string"}
        BY <2>1
    <2>5. CASE token_string' = text /\ L!Goto(skip, j)
        BY <2>2, <2>4, <2>5, Went
    <2>6. CASE L!Again(k)
        BY <2>2, <2>6, Repeated
    <2>7. CASE token_string' = <<>> /\ L!Goto(skip, k)
        BY <2>2, <2>4, <2>7, EmptyText, Went
    <2> QED
        BY <2>3, <2>5, <2>6, <2>7
<1> QED
    BY <1>2, <1>3

-----------------------------------------------------------------------------
(* Comments.                                                               *)

LEMMA StartCommentStep ==
    ASSUME Lexer, L!StartComment
    PROVE  Step
<1>1. Reading /\ source_idx \in Nat /\ L!At(source, source_idx) # L!End
    <2>1. Reading
        BY ReadingHere DEF L!StartComment, L!InToken
    <2> QED
        BY <2>1 DEF L!StartComment, Lexer, Lexing, L!next_char, L!End
<1>2. PICK control, result, j :
          /\ control = "comment" /\ result = "error" /\ j = source_idx + 1
    OBVIOUS
<1>3. \/ L!Goto(control, j) /\ UNCHANGED token_string
      \/ L!Stop(result)
    BY <1>2 DEF L!StartComment
<1>4. CASE L!Goto(control, j) /\ UNCHANGED token_string
    <2>1. j \in (source_idx + 1)..Len(source)
        BY <1>1, <1>2, NextIndex
    <2>2. token_string' \in Text /\ control \in {"include", "ifdef", "skip", "comment", "string"}
        BY <1>2, <1>4 DEF Lexer, Lexing
    <2> QED
        BY <1>1, <1>4, <2>1, <2>2, Went
<1>5. CASE L!Stop(result)
    <2>1. result \in L!Final
        BY <1>2 DEF L!Final
    <2> QED
        BY <1>1, <1>5, <2>1, StoppedHere
<1> QED
    BY <1>3, <1>4, <1>5

LEMMA CommentStep ==
    ASSUME Lexer, L!Comment
    PROVE  Step
<1>1. Reading /\ source_idx \in Nat
    <2>1. Reading
        BY ReadingHere DEF L!Comment
    <2> QED
        BY <2>1 DEF Lexer, Lexing
<1>2. PICK control, result, k :
          /\ control = "comment" /\ result = "error" /\ k = L!CommentNext
    OBVIOUS
<1>3. k \in {source_idx + 1, source_idx + 2}
    BY <1>1, <1>2 DEF L!CommentNext
<1>4. \/ L!At(source, k) = "/" /\ L!Again(L!Skip(k + 1))
      \/ L!Stop(result)
      \/ L!At(source, k) # L!End /\ L!Goto(control, k) /\ UNCHANGED token_string
    BY <1>2 DEF L!Comment
<1>5. CASE L!At(source, k) = "/" /\ L!Again(L!Skip(k + 1))
    <2>1. PICK idx : idx = L!Skip(k + 1)
        OBVIOUS
    <2>2. idx \in (source_idx + 1)..Len(source)
        <3>1. k \in Nat /\ source_idx <= k /\ L!At(source, k) # L!End
            BY <1>1, <1>3, <1>5 DEF L!End
        <3> QED
            BY <2>1, <3>1, NextIndex
    <2> QED
        BY <1>1, <1>5, <2>1, <2>2, Repeated
<1>6. CASE L!Stop(result)
    <2>1. result \in L!Final
        BY <1>2 DEF L!Final
    <2> QED
        BY <1>1, <1>6, <2>1, StoppedHere
<1>7. CASE L!At(source, k) # L!End /\ L!Goto(control, k) /\ UNCHANGED token_string
    <2>1. k \in (source_idx + 1)..Len(source)
        <3>1. k \in Nat /\ k >= source_idx + 1
            BY <1>1, <1>3
        <3>2. k < Len(source) /\ Len(source) \in Nat
            BY <1>7, <3>1, InText, CharsText DEF Lexer
        <3> QED
            BY <1>1, <3>1, <3>2
    <2>2. token_string' \in Text /\ control \in {"include", "ifdef", "skip", "comment", "string"}
        BY <1>2, <1>7 DEF Lexer, Lexing
    <2> QED
        BY <1>1, <1>7, <2>1, <2>2, Went
<1> QED
    BY <1>4, <1>5, <1>6, <1>7

-----------------------------------------------------------------------------
(* Tokens.                                                                 *)

\* The token is what stands between here and j, and what is white is skipped.
LEMMA TokenTaken ==
    ASSUME Reading, NEW token \in Tokens \ {"t_sof"},
           NEW j \in (source_idx + 1)..Len(source),
           L!Return(token, L!Taken(j), L!Skip(j))
    PROVE  Step
<1>1. Len(source) \in Nat /\ source_idx \in Nat
    BY CharsText DEF Reading, Lexing
<1>2. PICK m : m = source_idx + 1
    OBVIOUS
<1>3. m \in Nat \ {0} /\ j \in 0..Len(source)
    BY <1>1, <1>2
<1>4. SubSeq(source, m, j) \in Text
    BY <1>3, PartOfText DEF Reading
<1>5. PICK text, idx : text = L!Taken(j) /\ idx = L!Skip(j)
    OBVIOUS
<1>6. text \in Text
    BY <1>2, <1>4, <1>5 DEF L!Taken
<1>7. idx \in j..Len(source)
    BY <1>3, <1>5, SkipBounds DEF Reading
<1>8. idx \in (source_idx + 1)..Len(source)
    BY <1>1, <1>7
<1> QED
    BY <1>5, <1>6, <1>8, Returned

\* The first character of a token stands in the text.
LEMMA TokenHere ==
    ASSUME Lexer, L!InToken, L!LexerOnly, L!next_char # L!End
    PROVE  /\ Reading
           /\ source_idx \in 0..(Len(source) - 1) /\ Len(source) \in Nat
<1>1. Reading
    BY ReadingHere DEF L!InToken
<1>2. source_idx \in Nat
    BY DEF Lexer, Lexing
<1>3. source_idx < Len(source) /\ Len(source) \in Nat
    BY <1>2, InText, CharsText DEF Lexer, L!next_char
<1> QED
    BY <1>1, <1>2, <1>3

LEMMA NumericStep ==
    ASSUME Lexer, L!Numeric
    PROVE  Step
<1>1. L!InToken /\ L!LexerOnly /\ L!next_char # L!End
    BY DEF L!Numeric, L!is_digit, L!End
<1>2. /\ Reading
      /\ source_idx \in 0..(Len(source) - 1) /\ Len(source) \in Nat
    BY <1>1, TokenHere
<1>3. PICK j, token : j = L!After(source, source_idx + 1, L!is_hex) /\ token = "t_numeric"
    OBVIOUS
<1>4. j \in (source_idx + 1)..Len(source)
    BY <1>2, <1>3, NumberEndBounds DEF Lexer
<1>5. L!Return(token, L!Taken(j), L!Skip(j))
    BY <1>3 DEF L!Numeric
<1>6. token \in Tokens \ {"t_sof"}
    BY <1>3 DEF Tokens
<1> QED
    BY <1>2, <1>4, <1>5, <1>6, TokenTaken

\* The end of the text is never the second character of a token.
LEMMA SecondNotEnd ==
    \A c \in DOMAIN L!Second : c # L!End /\ L!End \notin L!Second[c]
<1> SUFFICES ASSUME NEW c \in DOMAIN L!Second
             PROVE  c # L!End /\ L!End \notin L!Second[c]
    OBVIOUS
<1>1. c # L!End
    BY DEF L!Second, L!End
<1>2. L!Second[c] = CASE c \in {"&", "|", "-", "+"} ->
                             {c, "="} \cup (IF c = "-" THEN {">"} ELSE {})
                      [] c \in {"<", ">"} -> {c, "="}
                      [] c \in {"!", "="} -> {"="}
                      [] OTHER -> {}
    BY DEF L!Second
<1>3. L!Second[c] \subseteq {c, "=", ">"}
    BY <1>2
<1> QED
    BY <1>1, <1>3 DEF L!End

LEMMA PunctuationStep ==
    ASSUME Lexer, L!Punctuation
    PROVE  Step
<1>1. L!InToken /\ L!LexerOnly /\ L!next_char # L!End
    BY SecondNotEnd DEF L!Punctuation
<1>2. /\ Reading
      /\ source_idx \in 0..(Len(source) - 1) /\ Len(source) \in Nat
    BY <1>1, TokenHere
<1>3. PICK n, token : /\ n = IF L!At(source, source_idx + 1) \in L!Second[L!next_char] THEN 2 ELSE 1
                      /\ token = "punctuation"
    OBVIOUS
<1>4. PICK j : j = source_idx + n
    OBVIOUS
<1>5. j \in (source_idx + 1)..Len(source)
    <2>1. CASE L!At(source, source_idx + 1) \in L!Second[L!next_char]
        <3>1. L!At(source, source_idx + 1) # L!End
            BY <2>1, SecondNotEnd DEF L!Punctuation
        <3>2. PICK i \in Nat : i = source_idx + 1
            BY <1>2
        <3>3. i < Len(source)
            BY <3>1, <3>2, InText DEF Lexer
        <3> QED
            BY <1>2, <1>3, <1>4, <2>1, <3>2, <3>3
    <2>2. CASE L!At(source, source_idx + 1) \notin L!Second[L!next_char]
        BY <1>2, <1>3, <1>4, <2>2
    <2> QED
        BY <2>1, <2>2
<1>6. L!Return(token, L!Taken(j), L!Skip(j))
    BY <1>3, <1>4 DEF L!Punctuation, L!ReadSkip
<1>7. token \in Tokens \ {"t_sof"}
    BY <1>3 DEF Tokens
<1> QED
    BY <1>2, <1>5, <1>6, <1>7, TokenTaken

LEMMA DotsStep ==
    ASSUME Lexer, L!Dots
    PROVE  Step
<1>1. L!InToken /\ L!LexerOnly /\ L!next_char # L!End
    BY DEF L!Dots, L!End
<1>2. /\ Reading
      /\ source_idx \in 0..(Len(source) - 1) /\ Len(source) \in Nat
    BY <1>1, TokenHere
<1>3. PICK token, result : token = "punctuation" /\ result = "error"
    OBVIOUS
<1>4. token \in Tokens \ {"t_sof"} /\ result \in L!Final
    BY <1>3 DEF Tokens, L!Final
<1>5. PICK i, one, three : i = source_idx + 2 /\ one = source_idx + 1 /\ three = source_idx + 3
    OBVIOUS
<1>6. \/ L!Return(token, L!Taken(one), L!Skip(one))
      \/ L!At(source, i) = "." /\ L!Return(token, L!Taken(three), L!Skip(three))
      \/ L!Stop(result)
    BY <1>3, <1>5 DEF L!Dots, L!ReadSkip
<1>7. CASE L!Return(token, L!Taken(one), L!Skip(one))
    <2>1. one \in (source_idx + 1)..Len(source)
        BY <1>2, <1>5
    <2> QED
        BY <1>2, <1>4, <1>7, <2>1, TokenTaken
<1>8. CASE L!At(source, i) = "." /\ L!Return(token, L!Taken(three), L!Skip(three))
    <2>1. i < Len(source)
        BY <1>2, <1>5, <1>8, InText DEF Lexer, L!End
    <2>2. three \in (source_idx + 1)..Len(source)
        BY <1>2, <1>5, <2>1
    <2> QED
        BY <1>2, <1>4, <1>8, <2>2, TokenTaken
<1>9. CASE L!Stop(result)
    BY <1>2, <1>4, <1>9, StoppedHere
<1> QED
    BY <1>6, <1>7, <1>8, <1>9

LEMMA UnrecognizedStep ==
    ASSUME Lexer, L!Unrecognized
    PROVE  Step
<1>1. Reading
    BY ReadingHere DEF L!Unrecognized, L!InToken
<1>2. PICK result : result = "error"
    OBVIOUS
<1>3. result \in L!Final /\ L!Stop(result)
    BY <1>2 DEF L!Unrecognized, L!Final
<1> QED
    BY <1>1, <1>3, StoppedHere

LEMMA WordStep ==
    ASSUME Lexer, L!Word
    PROVE  Step
<1>1. L!InToken /\ L!LexerOnly /\ L!next_char # L!End
    BY DEF L!Word, L!is_alnum, L!Runs, L!End
<1>2. /\ Reading
      /\ source_idx \in 0..(Len(source) - 1) /\ Len(source) \in Nat
    BY <1>1, TokenHere
<1>3. PICK j, keyword, identifier, numeric :
          /\ j = L!WordEnd /\ keyword = "keyword" /\ identifier = "t_identifier"
          /\ numeric = "t_numeric"
    OBVIOUS
<1>4. j \in (source_idx + 1)..Len(source)
    BY <1>2, <1>3, WordEndBounds DEF Lexer
<1>5. {keyword, identifier, numeric} \subseteq Tokens \ {"t_sof"}
    BY <1>3 DEF Tokens
<1>6. PICK found : found = {i \in 1..Len(aliases) : aliases[i].alias = L!Taken(j)}
    OBVIOUS
<1>7. PICK first : first = CHOOSE i \in found : \A k \in found : i <= k
    OBVIOUS
<1>8. \/ L!Return(keyword, L!Taken(j), L!Skip(j))
      \/ L!Return(identifier, L!Taken(j), L!Skip(j))
      \/ found # {} /\ L!Return(numeric, aliases[first].value, L!Skip(j))
    BY <1>3, <1>6, <1>7 DEF L!Word
<1>9. CASE found # {} /\ L!Return(numeric, aliases[first].value, L!Skip(j))
    <2>1. aliases \in Seq([alias : Text, value : Text])
        BY DEF Lexer, Lexing
    <2>2. found \subseteq Nat
        BY <1>6
    <2>3. \E i \in found : \A k \in found : i <= k
        BY <1>9, <2>2, SmallestIndex
    <2>4. first \in found
        BY <1>7, <2>3
    <2>5. aliases[first] \in [alias : Text, value : Text]
        BY <1>6, <2>1, <2>4, ElementOfSeq
    <2>6. PICK text, idx : text = aliases[first].value /\ idx = L!Skip(j)
        OBVIOUS
    <2>7. text \in Text
        BY <2>5, <2>6
    <2>8. j \in 0..Len(source)
        BY <1>2, <1>4
    <2>9. idx \in j..Len(source)
        BY <2>6, <2>8, SkipBounds DEF Lexer
    <2>10. idx \in (source_idx + 1)..Len(source)
        BY <1>2, <1>4, <2>9
    <2> QED
        BY <1>2, <1>5, <1>9, <2>6, <2>7, <2>10, Returned
<1> QED
    BY <1>2, <1>4, <1>5, <1>8, <1>9, TokenTaken

\* The string and the character literal mean a character.
LEMMA EscapesString == \A c \in DOMAIN L!Escapes : c # L!End /\ L!Escapes[c] \in STRING
<1> SUFFICES ASSUME NEW c \in DOMAIN L!Escapes
             PROVE  c # L!End /\ L!Escapes[c] \in STRING
    OBVIOUS
<1>1. c \in {"n", "\"", "r", "'", "t", "\\"}
    BY DEF L!Escapes
<1>2. L!Escapes[c] = CASE c = "n" -> L!NL [] c = "r" -> "\r" [] c = "t" -> "\t" [] OTHER -> c
    BY DEF L!Escapes
<1>3. {L!NL, "\r", "\t", "\"", "'", "\\"} \subseteq STRING
    BY CharactersAssumption DEF L!NL, NL
<1>4. L!Escapes[c] \in {L!NL, "\r", "\t", "\"", "'", "\\"}
    BY <1>1, <1>2
<1> QED
    BY <1>1, <1>3, <1>4 DEF L!End

LEMMA StartStringStep ==
    ASSUME Lexer, L!StartString
    PROVE  Step
<1>1. /\ pc = "token" /\ pc' = "string" /\ source_idx' = source_idx /\ token_string' = << >>
      /\ special' = FALSE /\ UNCHANGED <<next_token, source, aliases, parsing, out>>
    BY DEF L!StartString, L!InToken, L!Goto, L!UnchangedParser
<1>2. Lexing'
    BY <1>1, EmptyText DEF Lexer, Lexing, Controls
<1>3. Stage' < Stage
    <2>1. Stage = 4
        BY <1>1, StageValues DEF Lexer
    <2>2. Stage' = 3
        BY <1>1, <1>2, StageNext
    <2> QED
        BY <2>1, <2>2
<1> QED
    BY <1>1, <1>2, <1>3, LessLeft DEF Lexer

LEMMA StringStep ==
    ASSUME Lexer, L!String
    PROVE  Step
<1>1. PICK c, n, escaped, i :
          /\ c = L!At(source, source_idx + 1) /\ n = Len(token_string) /\ i = source_idx + 1
          /\ escaped = (n > 0 /\ token_string[n] = "\\")
    OBVIOUS
<1>2. Reading
    BY DEF L!String, Reading, Lexer, Lexing, L!UnchangedParser, L!Final
<1>3. source_idx \in Nat /\ token_string \in Text /\ n \in Nat /\ i \in Nat
    BY <1>1 DEF Lexer, Lexing, Text
<1>4. PICK token, error, overrun, control, idx :
          /\ token = "t_string" /\ error = "error" /\ overrun = "overrun" /\ control = "string"
          /\ idx = L!Skip(source_idx + 2)
    OBVIOUS
<1>5. \/ c = "\"" /\ L!Return(token, token_string, idx)
      \/ L!Stop(error)
      \/ L!Stop(overrun)
      \/ /\ escaped => c \in DOMAIN L!Escapes
         /\ c # L!End
         /\ token_string' = IF escaped THEN [token_string EXCEPT ![n] = L!Escapes[c]]
                            ELSE Append(token_string, c)
         /\ L!Goto(control, i)
    BY <1>1, <1>4 DEF L!String, L!Closes, L!ReadSkip
<1>6. CASE c = "\"" /\ L!Return(token, token_string, idx)
    <2>1. L!At(source, i) # L!End /\ source_idx <= i
        <3>1. c # L!End
            BY <1>6 DEF L!End
        <3>2. source_idx <= i
            BY <1>1, <1>3
        <3> QED
            BY <1>1, <3>1, <3>2
    <2>2. i + 1 = source_idx + 2
        BY <1>1, <1>3
    <2>3. idx \in (source_idx + 1)..Len(source)
        BY <1>3, <1>4, <2>1, <2>2, NextIndex
    <2>4. token \in Tokens \ {"t_sof"}
        BY <1>4 DEF Tokens
    <2> QED
        BY <1>2, <1>3, <1>6, <2>3, <2>4, Returned
<1>7. CASE L!Stop(error)
    <2>1. error \in L!Final
        BY <1>4 DEF L!Final
    <2> QED
        BY <1>2, <1>7, <2>1, StoppedHere
<1>8. CASE L!Stop(overrun)
    <2>1. overrun \in L!Final
        BY <1>4 DEF L!Final
    <2> QED
        BY <1>2, <1>8, <2>1, StoppedHere
<1>9. CASE /\ escaped => c \in DOMAIN L!Escapes
           /\ c # L!End
           /\ token_string' = IF escaped THEN [token_string EXCEPT ![n] = L!Escapes[c]]
                              ELSE Append(token_string, c)
           /\ L!Goto(control, i)
    <2>1. c \in STRING /\ i \in (source_idx + 1)..Len(source)
        <3>1. i < Len(source) /\ Len(source) \in Nat
            BY <1>1, <1>3, <1>9, InText, CharsText DEF Lexer
        <3>2. c \in STRING
            BY <1>1, <1>3, AtString DEF Lexer
        <3> QED
            BY <1>1, <1>3, <3>1, <3>2
    <2>2. token_string' \in Text
        <3>1. CASE escaped
            <4>1. PICK d \in STRING : d = L!Escapes[c]
                BY <1>9, <3>1, EscapesString
            <4>2. n \in 1..Len(token_string)
                <5>1. n > 0
                    BY <1>1, <3>1, Zenon
                <5> QED
                    BY <1>1, <1>3, <5>1
            <4>3. [token_string EXCEPT ![n] = d] \in Text
                BY <1>3, <4>2, ExceptSeq DEF Text
            <4> QED
                BY <1>9, <3>1, <4>1, <4>3
        <3>2. CASE ~escaped
            BY <1>3, <1>9, <2>1, <3>2, TextAppended
        <3> QED
            BY <3>1, <3>2
    <2>3. control \in {"include", "ifdef", "skip", "comment", "string"}
        BY <1>4
    <2> QED
        BY <1>2, <1>9, <2>1, <2>2, <2>3, Went
<1> QED
    BY <1>5, <1>6, <1>7, <1>8, <1>9

LEMMA CharStep ==
    ASSUME Lexer, L!Char
    PROVE  Step
<1>1. Reading /\ source_idx \in Nat
    <2>1. Reading
        BY ReadingHere DEF L!Char, L!InToken
    <2> QED
        BY <2>1 DEF Lexer, Lexing
<1>2. PICK slash, at, c, token, error :
          /\ slash = (L!At(source, source_idx + 1) = "\\")
          /\ at = IF slash THEN source_idx + 2 ELSE source_idx + 1
          /\ c = L!At(source, at) /\ token = "t_char" /\ error = "error"
    OBVIOUS
<1>3. at \in {source_idx + 1, source_idx + 2}
    BY <1>2
<1>4. PICK text, idx : text = << IF slash THEN L!Escapes[c] ELSE c >> /\ idx = L!Skip(at + 2)
    OBVIOUS
<1>5. \/ L!Stop(error)
      \/ /\ slash => c \in DOMAIN L!Escapes
         /\ L!At(source, at + 1) = "'"
         /\ L!Return(token, text, idx)
    BY <1>2, <1>4 DEF L!Char
<1>6. CASE L!Stop(error)
    <2>1. error \in L!Final
        BY <1>2 DEF L!Final
    <2> QED
        BY <1>1, <1>6, <2>1, StoppedHere
<1>7. CASE /\ slash => c \in DOMAIN L!Escapes
           /\ L!At(source, at + 1) = "'"
           /\ L!Return(token, text, idx)
    <2>1. PICK i \in Nat : i = at + 1
        BY <1>1, <1>3
    <2>2. source_idx <= i /\ i + 1 = at + 2
        BY <1>1, <1>3, <2>1
    <2>3. idx \in (source_idx + 1)..Len(source)
        <3>1. L!At(source, i) # L!End
            BY <1>7, <2>1 DEF L!End
        <3> QED
            BY <1>4, <2>2, <3>1, NextIndex
    <2>4. text \in Text
        <3>1. PICK d : d = IF slash THEN L!Escapes[c] ELSE c
            OBVIOUS
        <3>2. at \in Nat
            BY <1>1, <1>3
        <3>3. c \in STRING
            BY <1>2, <3>2, AtString DEF Lexer
        <3>4. d \in STRING
            BY <1>7, <3>1, <3>3, EscapesString
        <3> QED
            BY <1>4, <3>1, <3>4 DEF Text
    <2>5. token \in Tokens \ {"t_sof"}
        BY <1>2 DEF Tokens
    <2> QED
        BY <1>1, <1>7, <2>3, <2>4, <2>5, Returned
<1> QED
    BY <1>5, <1>6, <1>7

\* The end of the text is read again and again, but only once as a token.
LEMMA EofStep ==
    ASSUME Lexer, L!Eof
    PROVE  Step
<1>1. /\ pc = "token" /\ pc' = "parser" /\ source_idx' = source_idx /\ token_string' = << >>
      /\ next_token' = "t_eof" /\ UNCHANGED <<special, source, aliases, parsing, out>>
    BY DEF L!Eof, L!InToken, L!Return, L!LexerOnly, L!UnchangedParser
<1>2. Lexing'
    BY <1>1, EmptyText DEF Lexer, Lexing, Controls, Tokens
<1>3. Stage' < Stage
    <2>1. Stage = 4
        BY <1>1, StageValues DEF Lexer
    <2>2. PICK a : a = IF parsing[1] = "add alias" THEN 1 ELSE 0
        OBVIOUS
    <2>3. a \in {0, 1}
        BY <2>2
    <2>4. Stage' = (IF next_token' = "t_eof" THEN 1 ELSE 5)
                   + (IF parsing'[1] = "add alias" THEN 1 ELSE 0)
        BY <1>1, <1>2, StageNext
    <2>5. Stage' = 1 + a
        BY <1>1, <2>2, <2>4
    <2> QED
        BY <2>1, <2>3, <2>5
<1> QED
    BY <1>1, <1>2, <1>3, LessLeft DEF Lexer

LEMMA InitializeStep ==
    ASSUME Lexer, L!Initialize
    PROVE  Step
<1>1. /\ pc = "initialize" /\ pc' = "token" /\ source_idx' = source_idx /\ token_string' = << >>
      /\ UNCHANGED <<next_token, special, source, aliases, parsing, out>>
    BY DEF L!Initialize, L!Again, L!LexerOnly, L!UnchangedParser, Lexer, Lexing
<1>2. Lexing'
    BY <1>1, EmptyText DEF Lexer, Lexing, Controls
<1>3. Stage' < Stage
    <2>1. Stage = 7
        BY <1>1, StageValues DEF Lexer
    <2>2. Stage' = 4
        BY <1>1, <1>2, StageNext
    <2> QED
        BY <2>1, <2>2
<1> QED
    BY <1>1, <1>2, <1>3, LessLeft DEF Lexer

-----------------------------------------------------------------------------
(* The parser.                                                             *)

LEMMA AcceptStep ==
    ASSUME Lexer, pc = "parser", next_token # "t_eof", NEW control, L!Accept(control),
           IsParsing(control), aliases' \in Seq([alias : Text, value : Text]),
           out' \in Seq([token : Accepted, text : Text])
    PROVE  Step
<1>1. /\ pc' = "token" /\ source_idx' = source_idx /\ token_string' = << >>
      /\ parsing' = control /\ UNCHANGED <<next_token, special, source>>
    BY DEF L!Accept, L!Again
<1>2. Lexing'
    BY <1>1, EmptyText DEF Lexer, Lexing, Controls, IsParsing
<1>3. Stage' < Stage
    <2>1. PICK a : a = IF parsing[1] = "add alias" THEN 1 ELSE 0
        OBVIOUS
    <2>2. a \in {0, 1}
        BY <2>1
    <2>3. Stage = (IF next_token = "t_eof" THEN 1 ELSE 5)
                  + (IF parsing[1] = "add alias" THEN 1 ELSE 0)
        BY StageValues DEF Lexer
    <2>4. Stage = 5 + a
        BY <2>1, <2>3
    <2>5. Stage' = 4
        BY <1>1, <1>2, StageNext
    <2> QED
        BY <2>2, <2>4, <2>5
<1> QED
    BY <1>1, <1>2, <1>3, LessLeft DEF Lexer

LEMMA AcceptDefineStep ==
    ASSUME Lexer, L!AcceptDefine
    PROVE  Step
<1>1. PICK control : control = <<"define name">>
    OBVIOUS
<1>2. IsParsing(control)
    BY <1>1 DEF IsParsing
<1>3. /\ L!Accept(control) /\ pc = "parser" /\ next_token # "t_eof"
      /\ UNCHANGED <<aliases, out>>
    BY <1>1 DEF L!AcceptDefine, L!Parsing
<1> QED
    BY <1>2, <1>3, AcceptStep DEF Lexer, Lexing

LEMMA AcceptIncludeStep ==
    ASSUME Lexer, L!AcceptInclude
    PROVE  Step
<1>1. PICK control : control = L!Statement
    OBVIOUS
<1>2. IsParsing(control)
    BY <1>1 DEF IsParsing, L!Statement
<1>3. /\ L!Accept(control) /\ pc = "parser" /\ next_token # "t_eof"
      /\ UNCHANGED <<aliases, out>>
    BY <1>1 DEF L!AcceptInclude, L!Parsing
<1> QED
    BY <1>2, <1>3, AcceptStep DEF Lexer, Lexing

LEMMA AcceptTokenStep ==
    ASSUME Lexer, L!AcceptToken
    PROVE  Step
<1>1. PICK control, t : /\ control = L!Statement
                        /\ t = [token |-> next_token, text |-> token_string]
    OBVIOUS
<1>2. IsParsing(control)
    BY <1>1 DEF IsParsing, L!Statement
<1>3. /\ L!Accept(control) /\ pc = "parser"
      /\ next_token \notin {"t_define", "t_include", "t_eof"}
      /\ out' = Append(out, t) /\ UNCHANGED aliases
    BY <1>1 DEF L!AcceptToken, L!Parsing
<1>4. t \in [token : Accepted, text : Text]
    BY <1>1, <1>3 DEF Lexer, Lexing, Accepted
<1>5. out' \in Seq([token : Accepted, text : Text])
    BY <1>3, <1>4, AppendProperties DEF Lexer, Lexing
<1> QED
    BY <1>2, <1>3, <1>5, AcceptStep DEF Lexer, Lexing

LEMMA ErrorStep ==
    ASSUME Lexer, pc = "parser", NEW result \in L!Final, L!Stop(result),
           UNCHANGED <<source, special, aliases, parsing, out>>
    PROVE  Step
<1>1. pc \notin L!Final /\ special' \in BOOLEAN
    BY DEF L!Final, Lexer, Lexing
<1> QED
    BY <1>1, Stopped DEF Lexer

LEMMA DefineNameStep ==
    ASSUME Lexer, L!DefineName
    PROVE  Step
<1>1. PICK control, error : control = <<"define value", token_string>> /\ error = "error"
    OBVIOUS
<1>2. pc = "parser" /\ UNCHANGED <<aliases, out>>
    BY DEF L!DefineName, L!Parsing
<1>3. CASE next_token = "t_identifier"
    <2>1. L!Accept(control)
        BY <1>1, <1>3 DEF L!DefineName
    <2>2. IsParsing(control)
        BY <1>1 DEF IsParsing, Lexer, Lexing
    <2> QED
        BY <1>2, <1>3, <2>1, <2>2, AcceptStep DEF Lexer, Lexing
<1>4. CASE next_token # "t_identifier"
    <2>1. L!Stop(error) /\ UNCHANGED <<source, special, parsing>>
        BY <1>1, <1>4 DEF L!DefineName, L!SyntaxError
    <2>2. error \in L!Final
        BY <1>1 DEF L!Final
    <2> QED
        BY <1>2, <2>1, <2>2, ErrorStep
<1> QED
    BY <1>3, <1>4

\* What the parser is reading tells what it has read of the directive.
LEMMA ParsingKept ==
    ASSUME IsParsing(parsing)
    PROVE  /\ parsing[1] = "define value" => parsing[2] \in Text
           /\ parsing[1] = "add alias" => parsing[2] \in Text /\ parsing[3] \in Text
<1>1. CASE parsing \in {<<"statement">>, <<"define name">>}
    <2>0. PICK x, y : x = "statement" /\ y = "define name"
        OBVIOUS
    <2>1. parsing = <<x>> => parsing[1] = x
        OBVIOUS
    <2>2. parsing = <<y>> => parsing[1] = y
        OBVIOUS
    <2>3. parsing[1] = "statement" \/ parsing[1] = "define name"
        BY <1>1, <2>0, <2>1, <2>2
    <2> QED
        BY <2>3
<1>2. ASSUME NEW n \in Text, parsing = <<"define value", n>>
      PROVE  parsing[1] = "define value" /\ parsing[2] \in Text
    BY <1>2
<1>3. ASSUME NEW n \in Text, NEW v \in Text, parsing = <<"add alias", n, v>>
      PROVE  parsing[1] = "add alias" /\ parsing[2] \in Text /\ parsing[3] \in Text
    BY <1>3
<1>4. \/ parsing \in {<<"statement">>, <<"define name">>}
      \/ \E n \in Text : parsing = <<"define value", n>>
      \/ \E n, v \in Text : parsing = <<"add alias", n, v>>
    BY Zenon DEF IsParsing
<1> QED
    BY <1>1, <1>2, <1>3, <1>4

LEMMA DefineValueStep ==
    ASSUME Lexer, L!DefineValue
    PROVE  Step
<1>1. PICK control, error : /\ control = <<"add alias", parsing[2], token_string>>
                            /\ error = "error"
    OBVIOUS
<1>2. pc = "parser" /\ UNCHANGED <<aliases, out>> /\ parsing[1] = "define value"
    BY DEF L!DefineValue, L!Parsing
<1>3. CASE next_token = "t_numeric"
    <2>1. L!Accept(control)
        BY <1>1, <1>3 DEF L!DefineValue
    <2>2. parsing[2] \in Text
        BY <1>2, ParsingKept DEF Lexer, Lexing
    <2>3. IsParsing(control)
        BY <1>1, <2>2 DEF IsParsing, Lexer, Lexing
    <2> QED
        BY <1>2, <1>3, <2>1, <2>3, AcceptStep DEF Lexer, Lexing
<1>4. CASE next_token # "t_numeric"
    <2>1. L!Stop(error) /\ UNCHANGED <<source, special, parsing>>
        BY <1>1, <1>4 DEF L!DefineValue, L!SyntaxError
    <2>2. error \in L!Final
        BY <1>1 DEF L!Final
    <2> QED
        BY <1>2, <2>1, <2>2, ErrorStep
<1> QED
    BY <1>3, <1>4

LEMMA AddAliasStep ==
    ASSUME Lexer, L!AddAlias
    PROVE  Step
<1>1. /\ pc = "parser" /\ parsing[1] = "add alias" /\ parsing' = <<"statement">>
      /\ aliases' = Append(aliases, [alias |-> parsing[2], value |-> parsing[3]])
      /\ UNCHANGED <<source, pc, source_idx, token_string, special, next_token, out>>
    BY DEF L!AddAlias, L!Parsing, L!Statement
<1>2. parsing[2] \in Text /\ parsing[3] \in Text
    BY <1>1, ParsingKept DEF Lexer, Lexing
<1>3. aliases' \in Seq([alias : Text, value : Text])
    <2>1. PICK a \in [alias : Text, value : Text] : a = [alias |-> parsing[2], value |-> parsing[3]]
        BY <1>2
    <2> QED
        BY <1>1, <2>1, AppendProperties DEF Lexer, Lexing
<1>4. Lexing'
    BY <1>1, <1>3 DEF Lexer, Lexing, Controls, IsParsing
<1>5. Stage' < Stage
    <2>1. PICK a : a = IF next_token = "t_eof" THEN 1 ELSE 5
        OBVIOUS
    <2>2. a \in {1, 5}
        BY <2>1
    <2>3. Stage = (IF next_token = "t_eof" THEN 1 ELSE 5)
                  + (IF parsing[1] = "add alias" THEN 1 ELSE 0)
        BY <1>1, StageValues DEF Lexer
    <2>4. Stage' = (IF next_token' = "t_eof" THEN 1 ELSE 5)
                   + (IF parsing'[1] = "add alias" THEN 1 ELSE 0)
        BY <1>1, <1>4, StageNext
    <2>5. Stage = a + 1 /\ Stage' = a + 0
        BY <1>1, <2>1, <2>3, <2>4
    <2> QED
        BY <2>2, <2>5
<1> QED
    BY <1>1, <1>4, <1>5, LessLeft DEF Lexer

LEMMA AcceptEofStep ==
    ASSUME Lexer, L!AcceptEof
    PROVE  Step
<1>1. PICK eof : eof = "eof"
    OBVIOUS
<1>2. /\ pc = "parser" /\ L!Stop(eof) /\ eof \in L!Final
      /\ UNCHANGED <<source, special, aliases, parsing, out>>
    BY <1>1 DEF L!AcceptEof, L!Parsing, L!Final
<1> QED
    BY <1>2, ErrorStep

\* Every step of the lexer and the parser keeps what they keep, and reads.
LEMMA LexerStep ==
    ASSUME Lexer, L!Next
    PROVE  Step
<1>1. CASE L!l_next_token
    BY <1>1, DirectiveIncludeStep, IncludeLineStep, DirectiveDefineStep, DirectiveIfdefStep,
       IfdefNameStep, SkipLineStep, DirectiveEndifStep, DirectiveUnknownStep, StartCommentStep,
       CommentStep, NumericStep, PunctuationStep, DotsStep, StartStringStep, StringStep, CharStep,
       EofStep, WordStep, UnrecognizedStep
       DEF L!l_next_token
<1>2. CASE L!Parser
    BY <1>2, AcceptDefineStep, DefineNameStep, DefineValueStep, AddAliasStep, AcceptIncludeStep,
       AcceptTokenStep, AcceptEofStep
       DEF L!Parser
<1> QED
    BY <1>1, <1>2, InitializeStep DEF L!Next

-----------------------------------------------------------------------------
(* The loader.                                                             *)

\* What the loader keeps while it runs.
LEMMA Running ==
    ASSUME Loading, loading = "running"
    PROVE  /\ Len(open) \in Nat \ {0} /\ open \in Seq([path : DOMAIN files, pos : Nat])
           /\ open[Len(open)] \in [path : DOMAIN files, pos : Nat]
           /\ S!Text \in Seq(Char) /\ Len(S!Text) \in Nat
           /\ S!Top.pos \in 0..Len(S!Text)
<1>1. Len(open) \in Nat \ {0} /\ open \in Seq([path : DOMAIN files, pos : Nat])
    BY LenProperties DEF Loading
<1>2. open[Len(open)] \in [path : DOMAIN files, pos : Nat]
    <2>1. PICK n \in 1..Len(open) : n = Len(open)
        BY <1>1
    <2>2. open[n] \in [path : DOMAIN files, pos : Nat]
        BY <1>1, ElementOfSeq
    <2> QED
        BY <2>1, <2>2
<1>3. S!Text \in Seq(Char)
    BY <1>2 DEF Loading, S!Text, S!Top
<1>4. S!Top.pos <= Len(S!Text)
    BY <1>1 DEF Loading, S!Text, S!Top
<1>5. Len(S!Text) \in Nat
    BY <1>3, CharsText
<1>6. S!Top.pos \in Nat
    BY <1>2 DEF S!Top
<1> QED
    BY <1>1, <1>2, <1>3, <1>4, <1>5, <1>6

\* The activation that reads a line stays in its file, ahead of where it was;
\* the others are left alone.
LEMMA LineLoaded ==
    ASSUME Loading, S!Reading
    PROVE  /\ S!LineEnd \in (S!Top.pos + 1)..Len(S!Text)
           /\ S!Line \in Seq(Char)
           /\ S!Advanced \in Seq([path : DOMAIN files, pos : Nat])
           /\ Len(S!Advanced) = Len(open)
           /\ \A i \in 1..Len(open) : S!Advanced[i].pos <= Len(files[S!Advanced[i].path])
           /\ \A i \in 1..(Len(open) - 1) : S!Advanced[i] = open[i]
           /\ S!Advanced[Len(open)] = [path |-> S!Top.path, pos |-> S!LineEnd]
<1>1. /\ Len(open) \in Nat \ {0} /\ open \in Seq([path : DOMAIN files, pos : Nat])
      /\ open[Len(open)] \in [path : DOMAIN files, pos : Nat]
      /\ S!Text \in Seq(Char) /\ Len(S!Text) \in Nat
      /\ S!Top.pos \in 0..(Len(S!Text) - 1)
    BY Running DEF S!Reading
<1>2. S!LineEnd \in (S!Top.pos + 1)..Len(S!Text)
    BY <1>1, LineBounds
<1>3. S!Line \in Seq(Char)
    <2>1. PICK m, j : m = S!Top.pos + 1 /\ j = S!LineEnd
        OBVIOUS
    <2>2. m \in Int /\ j \in Int /\ \A i \in m..j : i \in 1..Len(S!Text)
        BY <1>1, <1>2, <2>1
    <2>3. \A i \in m..j : S!Text[i] \in Char
        BY <1>1, <2>2, ElementOfSeq
    <2> QED
        BY <2>1, <2>2, <2>3, SubSeqProperties, Zenon DEF S!Line
<1>4. PICK n, e, top : n = Len(open) /\ e = S!LineEnd /\ top = [path |-> S!Top.path, pos |-> e]
    OBVIOUS
<1>5. e \in Nat /\ n \in 1..Len(open) /\ top \in [path : DOMAIN files, pos : Nat]
    BY <1>1, <1>2, <1>4 DEF S!Top
<1>6. S!Advanced = [open EXCEPT ![n] = top]
    <2>1. S!Advanced = [open EXCEPT ![n].pos = e]
        BY <1>4 DEF S!Advanced
    <2>2. [open[n] EXCEPT !.pos = e] = top
        BY <1>1, <1>4 DEF S!Top
    <2> QED
        BY <2>1, <2>2
<1>7. /\ S!Advanced \in Seq([path : DOMAIN files, pos : Nat])
      /\ Len(S!Advanced) = Len(open)
      /\ S!Advanced[n] = top
      /\ \A i \in 1..Len(open) : i # n => S!Advanced[i] = open[i]
    BY <1>1, <1>5, <1>6, ExceptSeq
<1>8. S!Advanced[n].pos <= Len(files[S!Advanced[n].path])
    <2>1. Len(files[S!Top.path]) = Len(S!Text)
        BY DEF S!Text
    <2> QED
        BY <1>1, <1>2, <1>4, <1>7, <2>1
<1>9. \A i \in 1..Len(open) : S!Advanced[i].pos <= Len(files[S!Advanced[i].path])
    <2>1. \A i \in 1..Len(open) : open[i].pos <= Len(files[open[i].path])
        BY DEF Loading
    <2> QED
        BY <1>7, <1>8, <2>1
<1>10. \A i \in 1..(Len(open) - 1) : S!Advanced[i] = open[i]
    <2>1. \A i \in 1..(Len(open) - 1) : i \in 1..Len(open) /\ i # n
        BY <1>1, <1>4
    <2> QED
        BY <1>7, <2>1
<1> QED
    BY <1>2, <1>3, <1>4, <1>7, <1>9, <1>10

\* What a step of the loader does besides keeping what it keeps.
LoadReads ==
    \E i \in 1..Len(open) :
        /\ Unread(i)' < Unread(i)
        /\ \A j \in 1..(i - 1) : open'[j] = open[j]

\* The activation on top has less to read, and is still there.
LEMMA TopReads ==
    ASSUME Loading, S!Reading, UNCHANGED files, Len(open') \in Nat, Len(open) <= Len(open'),
           \A i \in 1..Len(open) : open'[i] = S!Advanced[i]
    PROVE  LoadReads
<1>1. PICK n : n = Len(open)
    OBVIOUS
<1>2. n \in Nat \ {0} /\ n \in 1..Len(open) /\ n \in 1..Len(open')
    BY <1>1, Running DEF S!Reading
<1>3. /\ S!Top.pos \in 0..Len(S!Text) /\ Len(S!Text) \in Nat
      /\ S!LineEnd \in (S!Top.pos + 1)..Len(S!Text)
    BY Running, LineLoaded DEF S!Reading
<1>4. Unread(n) = Len(S!Text) - S!Top.pos + 1
    BY <1>1, <1>2 DEF Unread, S!Text, S!Top
<1>5. open'[n] = [path |-> S!Top.path, pos |-> S!LineEnd]
    BY <1>1, <1>2, LineLoaded
<1>6. Unread(n)' = Len(S!Text) - S!LineEnd + 1
    <2>1. Unread(n)' = Len(files'[open'[n].path]) - open'[n].pos + 1
        BY <1>2 DEF Unread
    <2> QED
        BY <1>5, <2>1 DEF S!Text
<1>7. \A j \in 1..(n - 1) : open'[j] = open[j]
    <2> SUFFICES ASSUME NEW j \in 1..(n - 1)
                 PROVE  open'[j] = open[j]
        OBVIOUS
    <2>1. j \in 1..(Len(open) - 1) /\ j \in 1..Len(open)
        BY <1>1, <1>2
    <2>2. S!Advanced[j] = open[j]
        BY <2>1, LineLoaded
    <2>3. open'[j] = S!Advanced[j]
        BY <2>1
    <2> QED
        BY <2>2, <2>3
<1>8. Unread(n)' < Unread(n)
    <2>1. Len(S!Text) - S!LineEnd + 1 < Len(S!Text) - S!Top.pos + 1
        BY <1>3
    <2> QED
        BY <1>4, <1>6, <2>1
<1> QED
    BY <1>2, <1>7, <1>8, Zenon DEF LoadReads

LEMMA LoadLineStep ==
    ASSUME Loading, Lexing, S!LoadLine, UNCHANGED lexerVars
    PROVE  Loading' /\ Lexing' /\ LoadReads
<1>1. /\ S!Reading /\ source' = source \o S!Line /\ open' = S!Advanced
      /\ UNCHANGED <<files, loading>> /\ loading = "running"
    BY DEF S!LoadLine, S!Reading
<1>2. source' \in Seq(Char)
    BY <1>1, LineLoaded, ConcatProperties DEF Loading
<1>3. Loading'
    <2>1. /\ open' \in Seq([path : DOMAIN files, pos : Nat]) /\ Len(open') = Len(open)
          /\ \A i \in 1..Len(open') : open'[i].pos <= Len(files[open'[i].path])
        BY <1>1, LineLoaded
    <2> QED
        BY <1>1, <1>2, <2>1 DEF Loading, lexerVars
<1>4. Lexing'
    <2>1. source_idx' = 0 /\ Len(source') \in Nat
        BY <1>1, <1>2, LenProperties DEF Loading, Lexing, lexerVars
    <2>2. source_idx' \in 0..Len(source')
        BY <2>1
    <2>3. UNCHANGED <<pc, source_idx, token_string, special, next_token, aliases, parsing, out>>
        BY DEF lexerVars
    <2> QED
        BY <2>2, <2>3 DEF Lexing, IsParsing
<1>5. LoadReads
    <2>1. Len(open') = Len(open) /\ Len(open) \in Nat
        BY <1>1, LineLoaded, Running
    <2> QED
        BY <1>1, <2>1, TopReads
<1> QED
    BY <1>3, <1>4, <1>5

LEMMA IncludeStep ==
    ASSUME Loading, Lexing, S!Include, UNCHANGED lexerVars
    PROVE  Loading' /\ Lexing' /\ LoadReads
<1>1. /\ S!Reading /\ S!Enter(S!Advanced, S!IncludedPath) /\ UNCHANGED <<files, source>>
      /\ loading = "running"
    BY DEF S!Include, S!Reading
<1>2. PICK stack, path, new :
          stack = S!Advanced /\ path = S!IncludedPath /\ new = [path |-> path, pos |-> 0]
    OBVIOUS
<1>3. /\ stack \in Seq([path : DOMAIN files, pos : Nat]) /\ Len(stack) = Len(open)
      /\ \A i \in 1..Len(open) : stack[i].pos <= Len(files[stack[i].path])
      /\ Len(open) \in Nat \ {0}
    BY <1>1, <1>2, LineLoaded, Running
<1>4. \/ /\ path \in DOMAIN files /\ Len(stack) < MaxOpen
         /\ open' = Append(stack, new) /\ loading' = "running"
      \/ open' = stack /\ loading' = "crash"
    BY <1>1, <1>2 DEF S!Enter, S!CanOpen
<1>5. Lexing'
    BY <1>1 DEF Lexing, lexerVars, IsParsing
<1>6. CASE /\ path \in DOMAIN files /\ Len(stack) < MaxOpen
           /\ open' = Append(stack, new) /\ loading' = "running"
    <2>1. new \in [path : DOMAIN files, pos : Nat]
        BY <1>2, <1>6
    <2>2. /\ open' \in Seq([path : DOMAIN files, pos : Nat])
          /\ Len(open') = Len(open) + 1
          /\ \A i \in 1..Len(open) : open'[i] = stack[i]
          /\ open'[Len(open) + 1] = new
        BY <1>3, <1>6, <2>1, AppendProperties
    <2>3. \A i \in 1..Len(open') : open'[i].pos <= Len(files[open'[i].path])
        <3>1. files[path] \in Seq(Char)
            BY <1>6 DEF Loading
        <3>2. Len(files[path]) \in Nat
            BY <3>1, CharsText
        <3>3. new.pos <= Len(files[new.path])
            BY <1>2, <3>2
        <3>4. \A i \in 1..Len(open') : i \in 1..Len(open) \/ i = Len(open) + 1
            BY <1>3, <2>2
        <3> QED
            BY <1>3, <2>2, <3>3, <3>4
    <2>4. Len(open') <= MaxOpen
        BY <1>3, <1>6, <2>2, MaxOpenAssumption
    <2>5. Loading'
        <3>1. Len(open') > 0
            BY <1>3, <2>2
        <3>2. open' \in Seq([path : DOMAIN files, pos : Nat])
            BY <2>2
        <3> QED
            BY <1>1, <1>6, <2>3, <2>4, <3>1, <3>2 DEF Loading, lexerVars
    <2>6. LoadReads
        BY <1>1, <1>2, <1>3, <2>2, TopReads
    <2> QED
        BY <1>5, <2>5, <2>6
<1>7. CASE open' = stack /\ loading' = "crash"
    <2>1. Loading'
        BY <1>1, <1>3, <1>7 DEF Loading, lexerVars
    <2>2. LoadReads
        BY <1>1, <1>2, <1>3, <1>7, TopReads
    <2> QED
        BY <1>5, <2>1, <2>2
<1> QED
    BY <1>4, <1>6, <1>7

LEMMA CloseFileStep ==
    ASSUME Loading, Lexing, S!CloseFile, UNCHANGED lexerVars
    PROVE  Loading' /\ Lexing' /\ LoadReads
<1>1. PICK n : n = Len(open)
    OBVIOUS
<1>2. /\ loading = "running" /\ S!Top.pos = Len(S!Text) /\ open' = SubSeq(open, 1, n - 1)
      /\ loading' = IF n = 1 THEN "loaded" ELSE loading
      /\ UNCHANGED <<files, source>>
    BY <1>1 DEF S!CloseFile
<1>3. /\ n \in Nat \ {0} /\ open \in Seq([path : DOMAIN files, pos : Nat])
      /\ S!Text \in Seq(Char) /\ Len(S!Text) \in Nat
    BY <1>1, <1>2, Running
<1>4. /\ open' \in Seq([path : DOMAIN files, pos : Nat]) /\ Len(open') = n - 1
      /\ \A i \in 1..(n - 1) : open'[i] = open[i]
    <2>1. PICK m \in Nat : m = n - 1
        BY <1>3
    <2>2. \A i \in 1..m : i \in 1..Len(open)
        BY <1>1, <1>3, <2>1
    <2>3. \A i \in 1..m : open[i] \in [path : DOMAIN files, pos : Nat]
        BY <1>3, <2>2, ElementOfSeq
    <2>4. open' = SubSeq(open, 1, m)
        BY <1>2, <2>1
    <2>5. /\ open' \in Seq([path : DOMAIN files, pos : Nat]) /\ Len(open') = m
          /\ \A i \in 1..m : open'[i] = open[i]
        BY <2>3, <2>4, SubSeqProperties
    <2> QED
        BY <2>1, <2>5
<1>5. Loading'
    <2>1. \A i \in 1..Len(open') : open'[i].pos <= Len(files[open'[i].path])
        <3>1. \A i \in 1..Len(open) : open[i].pos <= Len(files[open[i].path])
            BY DEF Loading
        <3>2. \A i \in 1..Len(open') : i \in 1..Len(open) /\ open'[i] = open[i]
            BY <1>1, <1>3, <1>4
        <3> QED
            BY <3>1, <3>2
    <2>2. Len(open') <= MaxOpen
        BY <1>1, <1>3, <1>4, MaxOpenAssumption DEF Loading
    <2>3. loading' \in {"running", "loaded"} /\ (loading' = "running" => Len(open') > 0)
        BY <1>2, <1>3, <1>4
    <2> QED
        BY <1>2, <1>4, <2>1, <2>2, <2>3 DEF Loading, lexerVars
<1>6. Lexing'
    BY <1>2 DEF Lexing, lexerVars, IsParsing
<1>7. LoadReads
    <2>1. n \in 1..Len(open) /\ n \notin 1..Len(open')
        BY <1>1, <1>3, <1>4
    <2>2. Unread(n)' = 0
        BY <2>1 DEF Unread
    <2>3. Unread(n) = Len(S!Text) - S!Top.pos + 1
        BY <1>1, <2>1 DEF Unread, S!Text, S!Top
    <2>4. Unread(n) = 1
        BY <1>2, <1>3, <2>3
    <2> QED
        BY <1>4, <2>1, <2>2, <2>4 DEF LoadReads
<1> QED
    BY <1>5, <1>6, <1>7

LEMMA LoadStep ==
    ASSUME Loading, Lexing, Load
    PROVE  Loading' /\ Lexing' /\ LoadReads
BY LoadLineStep, IncludeStep, CloseFileStep DEF Load, S!Next

LEMMA ParseStep ==
    ASSUME Loading, Lexing, Parse
    PROVE  Loading' /\ Step
<1>1. Step
    BY LexerStep DEF Loading, Lexer, Parse
<1>2. UNCHANGED source
    BY DEF Parse, L!Next, L!Initialize, L!l_next_token, L!Parser, L!LexerOnly, L!UnchangedParser,
       L!DirectiveInclude, L!IncludeLine, L!DirectiveDefine, L!DirectiveIfdef, L!IfdefName,
       L!SkipLine, L!DirectiveEndif, L!DirectiveUnknown, L!StartComment, L!Comment, L!Numeric,
       L!Punctuation, L!Dots, L!StartString, L!String, L!Char, L!Eof, L!Word, L!Unrecognized,
       L!Directive, L!AcceptDefine, L!DefineName, L!DefineValue, L!AddAlias, L!AcceptInclude,
       L!AcceptToken, L!AcceptEof, L!Accept, L!SyntaxError
<1>3. Loading'
    BY <1>2 DEF Loading, Parse
<1> QED
    BY <1>1, <1>3

-----------------------------------------------------------------------------
(* The theorems.                                                           *)

LEMMA FrontInit == Init => Loading /\ Lexing
<1> SUFFICES ASSUME Init PROVE Loading /\ Lexing
    OBVIOUS
<1>1. files \in FileSystems /\ source = << >>
    BY DEF Init, S!Init
<1>2. \A p \in DOMAIN files : files[p] \in Seq(Char)
    BY <1>1, TextsAssumption DEF Char
<1>3. pc = "initialize"
    BY DEF Init, L!Init
<1>4. source \in Seq(Char) /\ Len(source) = 0
    BY <1>1
<1>5. \/ /\ MainPath \in DOMAIN files /\ open = << [path |-> MainPath, pos |-> 0] >>
         /\ loading = "running"
      \/ open = << >> /\ loading = "crash"
    BY DEF Init, S!Init, S!CanOpen
<1>6. Loading
    <2>1. CASE /\ MainPath \in DOMAIN files /\ open = << [path |-> MainPath, pos |-> 0] >>
               /\ loading = "running"
        <3>1. PICK new \in [path : DOMAIN files, pos : Nat] : new = [path |-> MainPath, pos |-> 0]
            BY <2>1
        <3>2. open \in Seq([path : DOMAIN files, pos : Nat]) /\ Len(open) = 1 /\ open[1] = new
            BY <2>1, <3>1
        <3>3. Len(files[MainPath]) \in Nat
            BY <1>2, <2>1, CharsText
        <3>4. \A i \in 1..Len(open) : open[i].pos <= Len(files[open[i].path])
            BY <3>1, <3>2, <3>3
        <3> QED
            BY <1>2, <1>3, <1>4, <2>1, <3>2, <3>4, MaxOpenAssumption DEF Loading
    <2>2. CASE open = << >> /\ loading = "crash"
        BY <1>2, <1>3, <1>4, <2>2, MaxOpenAssumption DEF Loading
    <2> QED
        BY <1>5, <2>1, <2>2
<1>7. Lexing
    <2>1. <<"1">> \in Text /\ SourceDefine \in Text
        <3>1. "1" \in STRING
            BY CharactersAssumption
        <3> QED
            BY <3>1, TextsAssumption DEF Text
    <2>2. aliases \in Seq([alias : Text, value : Text])
        <3>1. PICK a \in [alias : Text, value : Text] : a = [alias |-> SourceDefine, value |-> <<"1">>]
            BY <2>1
        <3> QED
            BY <3>1 DEF Init, L!Init
    <2>3. IsParsing(parsing)
        BY DEF Init, L!Init, L!Statement, IsParsing
    <2>4. source_idx = 0 /\ next_token = "t_sof" /\ token_string = << >> /\ special = FALSE
          /\ out = << >>
        BY DEF Init, L!Init
    <2>5. out \in Seq([token : Accepted, text : Text])
        BY <2>4, EmptySeq
    <2>6. pc \in Controls /\ next_token \in Tokens /\ pc # "parser"
        BY <1>3, <2>4 DEF Controls, Tokens
    <2>7. source_idx \in 0..Len(source) /\ token_string \in Text
        BY <1>4, <2>4, EmptyText
    <2>8. special \in BOOLEAN
        BY <2>4, Zenon
    <2> QED
        BY <2>2, <2>3, <2>4, <2>5, <2>6, <2>7, <2>8, Zenon DEF Lexing
<1> QED
    BY <1>6, <1>7

\* Every step keeps the invariant.
LEMMA FrontNext == Loading /\ Lexing /\ [Next]_vars => Loading' /\ Lexing'
<1> SUFFICES ASSUME Loading, Lexing, [Next]_vars
             PROVE  Loading' /\ Lexing'
    OBVIOUS
<1>1. CASE Load
    BY <1>1, LoadStep
<1>2. CASE Parse
    BY <1>2, ParseStep DEF Step
<1>3. CASE UNCHANGED vars
    BY <1>3 DEF Loading, Lexing, vars, lexerVars, IsParsing
<1> QED
    BY <1>1, <1>2, <1>3 DEF Next, Terminating

\* s_load and l_next_token, in every file system: no activation reads behind
\* its file, no more files are open than the system allows, the position in the
\* text is never behind the byte that ends it, and what lexer and parser keep
\* has its type at every control point.
THEOREM FrontTyped == Spec => []TypeOK
<1>1. Loading /\ Lexing => TypeOK
    BY Typed
<1> QED
    BY <1>1, FrontInit, FrontNext, PTL DEF Spec

\* No loop of s_load, of l_next_token or of p_parse turns without reading, in
\* every file system: what is left decreases with each step.
THEOREM FrontReads == Spec => EveryStepReads
<1> DEFINE Reads == /\ Load => LoadReads
                    /\ Parse => Remaining' < Remaining /\ Remaining' >= 0
<1>1. Loading /\ Lexing /\ [Next]_vars => [Reads]_vars
    BY LoadStep, ParseStep DEF Step
<1>2. EveryStepReads <=> [][Reads]_vars
    BY Zenon DEF EveryStepReads, LoadReads
<1> HIDE DEF Reads
<1> QED
    BY <1>1, <1>2, FrontInit, FrontNext, PTL DEF Spec
=============================================================================
