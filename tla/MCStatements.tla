--------------------------- MODULE MCStatements ---------------------------
(***************************************************************************)
(* Instances of Statements for TLC, and the reference definition of what a *)
(* program does: the conditions and statements a run goes through, in the  *)
(* order ANSI C prescribes, read off the input and not off the code.       *)
(***************************************************************************)
EXTENDS Statements, TLC, SequencesExt

CONSTANTS TraceLength,     \* bound: events of a run that are compared
          MixedStatements  \* bound: statements of a program of every kind

\* The tokens of control flow in a program of one function.
ControlTokens ==
    {"{", "}", "if", "else", "while", "switch", "case", "default", "break", ";", "statement"}

\* Bound: a program that is longer is one function of control flow.
Bounded ==
    \/ Cardinality(Statements) <= MixedStatements
    \/ /\ Len(functions) = 2
       /\ \A k \in 1..Len(source) : source[k].kind \in ControlTokens

\* The value of a selector that no case has.
Unmatched == 99

-----------------------------------------------------------------------------
(* The input as a tree.                                                    *)

Node(kind, at, parts, kids) == [kind |-> kind, at |-> at, parts |-> parts, kids |-> kids]

RECURSIVE ParseStatement(_), ParseList(_, _)

\* The statement that begins at token p, and the position behind it.
ParseStatement(p) ==
    LET t == source[p]
        Leaf == <<Node(t.kind, t.at, t.parts, << >>), p + 1>>
    IN
    CASE t.kind \in {"{", "switch"} ->
             LET list == ParseList(p + 1, << >>) IN
             <<Node(t.kind, t.at, t.parts, list[1]), list[2]>>
      [] t.kind = "if" ->
             LET then == ParseStatement(p + 1) IN
             IF then[2] <= Len(source) /\ source[then[2]].kind = "else"
             THEN LET else == ParseStatement(then[2] + 1) IN
                  <<Node("if", t.at, t.parts, <<then[1], else[1]>>), else[2]>>
             ELSE <<Node("if", t.at, t.parts, <<then[1]>>), then[2]>>
      [] t.kind \in {"while", "for"} ->
             LET body == ParseStatement(p + 1) IN
             <<Node(t.kind, t.at, t.parts, <<body[1]>>), body[2]>>
      [] t.kind = "do" ->
             LET body == ParseStatement(p + 1) IN
             <<Node("do", source[body[2]].at, t.parts, <<body[1]>>), body[2] + 1>>
      [] t.kind = "break" ->
             \* with the statement behind it, which nothing reaches
             LET rest == ParseStatement(p + 1) IN
             <<Node("break", 0, {}, << >>), rest[2]>>
      [] OTHER -> Leaf

ParseList(p, nodes) ==
    IF p > Len(source) \/ source[p].kind = "}" THEN <<nodes, p + 1>>
    ELSE LET s == ParseStatement(p) IN ParseList(s[2], Append(nodes, s[1]))

-----------------------------------------------------------------------------
(* What it does.  A run is the sequence of its events: a statement, or a   *)
(* condition or selector with its value.                                   *)

Event(at, value) == <<at, value>>

\* Results of running something for at most n events: the events, and how it
\* ended; "cut" when the events are used up.
RECURSIVE Run(_, _), RunList(_, _, _), RunLoop(_, _)

Outcome(events, how) == [events |-> events, how |-> how]

Emitted(e, n) == IF n = 0 THEN Outcome(<< >>, "cut") ELSE Outcome(<<e>>, "normal")

\* What follows a result that ended normally.
Then(results, n, Rest(_)) ==
    UNION {IF r.how # "normal" THEN {r}
           ELSE {Outcome(r.events \o q.events, q.how) : q \in Rest(n - Len(r.events))} :
               r \in results}

\* A condition, and what each of its values leads to.
Branch(at, n, True(_), False(_)) ==
    Then({Emitted(Event(at, 1), n)}, n, True)
        \cup Then({Emitted(Event(at, 0), n)}, n, False)

Nothing(n) == {Outcome(<< >>, "normal")}

Code(node, n) ==
    IF "value" \in node.parts THEN {Emitted(Event(node.at, "code"), n)} ELSE Nothing(n)

Case(items, v) == {i \in 1..Len(items) : items[i].kind = "case" /\ items[i].at = v}
Default(items) == {i \in 1..Len(items) : items[i].kind = "default"}

\* break ends the statement it leaves.
Left(results) ==
    {IF r.how = "break" THEN Outcome(r.events, "normal") ELSE r : r \in results}

Run(node, n) ==
    CASE node.kind = "{" -> RunList(node.kids, 1, n)
      [] node.kind = "if" ->
             Branch(node.at, n,
                 LAMBDA k : Run(node.kids[1], k),
                 LAMBDA k : IF Len(node.kids) = 2 THEN Run(node.kids[2], k) ELSE Nothing(k))
      [] node.kind = "while" -> Left(RunLoop(node, n))
      [] node.kind = "for" ->
             Then(IF "setup" \in node.parts THEN {Emitted(Event(node.at - 1, "code"), n)}
                  ELSE Nothing(n),
                  n, LAMBDA k : Left(RunLoop(node, k)))
      [] node.kind = "do" ->
             Left(Then(Run(node.kids[1], n), n,
                       LAMBDA k : Branch(node.at, k, LAMBDA j : Run(node, j), Nothing)))
      [] node.kind = "switch" ->
             Left(UNION {
                 Then({Emitted(Event(node.at, v), n)}, n,
                      LAMBDA k :
                          LET entry == IF Case(node.kids, v) # {} THEN Case(node.kids, v)
                                       ELSE Default(node.kids)
                          IN IF entry = {} THEN Nothing(k)
                             ELSE RunList(node.kids, CHOOSE i \in entry : TRUE, k)) :
                 v \in CaseValues \cup {Unmatched}})
      [] node.kind = "break" -> {Outcome(<< >>, "break")}
      [] node.kind = "return" ->
             Then(Code(node, n), n, LAMBDA k : {Outcome(<< >>, "return")})
      [] node.kind \in {"case", "default"} -> Nothing(n)
      [] OTHER -> Code(node, n)

RunList(nodes, i, n) ==
    IF i > Len(nodes) THEN Nothing(n)
    ELSE Then(Run(nodes[i], n), n, LAMBDA k : RunList(nodes, i + 1, k))

\* while, and for after its setup
RunLoop(node, n) ==
    LET condition == IF node.kind = "while" THEN node.at ELSE node.at + 1
        Step(k) == IF node.kind = "for" /\ "increment" \in node.parts
                   THEN {Emitted(Event(node.at + 5, "code"), k)} ELSE Nothing(k)
        Again(k) == Then(Run(node.kids[1], k), k,
                         LAMBDA j : Then(Step(j), j, LAMBDA i : RunLoop(node, i)))
    IN IF node.kind = "for" /\ "condition" \notin node.parts
       THEN Then({Emitted(Event(condition, 1), n)}, n, Again)
       ELSE Branch(condition, n, Again, Nothing)

\* The runs of a function: those that reach its end say so.
Runs(node) ==
    {IF r.how = "cut" THEN r.events ELSE Append(r.events, "end") :
         r \in Run(node, TraceLength)}

-----------------------------------------------------------------------------
(* What the code does.                                                     *)

RECURSIVE Execute(_, _, _, _, _)

\* The runs of the code from instruction i, with a0 and a1, for at most n
\* events; steps bounds the instructions between two of them.
Execute(i, a0, a1, n, steps) ==
    LET c == il[i + 1]
        Go(j) == Execute(j, a0, a1, n, steps - 1)
        After(e, x, y) ==
            IF n = 0 THEN {<< >>}
            ELSE {<<e>> \o r : r \in Execute(i + 1, x, y, n - 1, 4 * Len(il))}
    IN
    IF steps = 0 THEN {<<"hangs">>}
    ELSE IF i \notin Indices THEN {<<"lost">>}
    ELSE CASE c.op = "condition" -> After(Event(i, 0), 0, a1) \cup After(Event(i, 1), 1, a1)
           [] c.op = "selector" ->
                  UNION {After(Event(i, v), a0, v) : v \in CaseValues \cup {Unmatched}}
           [] c.op \in {"statement", "op_generic"} -> After(Event(i, "code"), -7, -7)
           [] c.op = "op_load_numeric_constant" ->
                  IF il[i + 2].op = "op_jz" THEN After(Event(i, 1), c.arg, a1)
                  ELSE Execute(i + 1, c.arg, a1, n, steps - 1)
           [] c.op = "op_equals" ->
                  Execute(i + 1, IF a0 = a1 THEN 1 ELSE 0, a1, n, steps - 1)
           [] c.op = "op_jump" -> Go(c.arg)
           [] c.op = "op_jz" -> Go(IF a0 = 0 THEN c.arg ELSE i + 1)
           [] c.op = "op_jnz" -> Go(IF a0 # 0 THEN c.arg ELSE i + 1)
           [] c.op = "op_return" -> Go(functions[c.arg].exit)
           [] c.op = "op_exit_point" -> {<<"end">>}
           [] OTHER -> Go(i + 1)

\* The code of every function runs through the same statements, conditions
\* and selectors as the function itself, whatever values they take.
ExecutesAsWritten ==
    pc = "done" =>
        LET bodies == ParseList(1, << >>)[1] IN
        \A f \in 2..Len(functions) :
            Execute(functions[f].entry, 0, 0, TraceLength, 4 * Len(il))
                = Runs(bodies[f - 1])
=============================================================================
