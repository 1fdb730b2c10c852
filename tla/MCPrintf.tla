------------------------------ MODULE MCPrintf ------------------------------
(***************************************************************************)
(* Calls of Printf for TLC, and what printf of C prints for them.          *)
(***************************************************************************)
EXTENDS Printf, SequencesExt, TLC

-----------------------------------------------------------------------------
(* What C prints.                                                          *)

RECURSIVE Decimal(_)
Decimal(v) == (IF v < 10 THEN <<>> ELSE Decimal(v \div 10)) \o <<Zero + (v % 10)>>

\* The digits of the two's complement of v, from the first that is not zero.
Hex(v) ==
    LET Digit(k) == (v \div (16 ^ k)) % 16
        top == CHOOSE k \in 0..7 :
                   (k = 0 \/ Digit(k) /= 0) /\ \A j \in (k + 1)..7 : Digit(j) = 0
    IN [j \in 1..(top + 1) |->
           LET d == Digit(top + 1 - j) IN IF d < 10 THEN Zero + d ELSE LetterA + d - 10]

Number(v, letter) ==
    IF letter = LetterX THEN Hex(v) ELSE Decimal(IF v < 0 THEN -v ELSE v)

Sign(v, letter, pp) ==
    IF letter = LetterD /\ v < 0 THEN <<Minus>>
    ELSE IF letter = LetterX /\ pp /\ v /= 0 THEN <<Zero, LetterX>>
    ELSE <<>>

Times(ch, k) == [j \in 1..k |-> ch]

\* A number in a field of width w.
Field(v, letter, f) ==
    LET s == Sign(v, letter, f.pp)
        ds == Number(v, letter)
        fill == IF f.w > Len(s) + Len(ds) THEN f.w - Len(s) - Len(ds) ELSE 0
    IN IF f.zp THEN s \o Times(Zero, fill) \o ds ELSE Times(Space, fill) \o s \o ds

-----------------------------------------------------------------------------
(* Formats in pieces: conversions, a character of text, %% and a % alone.  *)

LetterZ == 122

Conversions(letters, ws, pps) == [letter : letters, w : ws, zp : BOOLEAN, pp : pps]

Plain(ch) == [letter |-> ch, w |-> 0, zp |-> FALSE, pp |-> FALSE]

\* The characters of a piece.
Format(p) ==
    CASE p.letter = LetterZ -> <<LetterZ>>
      [] p.letter = Percent -> <<Percent, Percent>>
      [] p.letter = 0 -> <<Percent>>
      [] OTHER ->
            <<Percent>> \o (IF p.pp THEN <<Hash>> ELSE <<>>) \o (IF p.zp THEN <<Zero>> ELSE <<>>)
            \o (IF p.w = 0 THEN <<>> ELSE Decimal(p.w)) \o <<p.letter>>

Arg(v, s) == [int |-> v, str |-> s]

Values ==
    { IntMin, IntMin + 1, -1000000000, -999999999, -40, -5, 0, 7, 16, 98765, 1000000000, 2147483647 }

Strings == { <<>>, <<LetterZ>>, <<LetterZ, Percent, LetterZ, LetterZ>> }

AllPieces ==
    Conversions({LetterD}, {0, 1, 2, 6, 10, 14}, {FALSE})
    \cup Conversions({LetterX}, {0, 1, 3, 6, 10, 14}, BOOLEAN)
    \cup Conversions({LetterS}, {0, 2}, {FALSE})
    \cup {Plain(LetterZ), Plain(Percent), Plain(0)}

SomePieces ==
    { Plain(LetterD), Plain(LetterS), Plain(LetterZ), Plain(Percent), Plain(0),
      [letter |-> LetterD, w |-> 4, zp |-> FALSE, pp |-> FALSE],
      [letter |-> LetterX, w |-> 10, zp |-> TRUE, pp |-> TRUE] }

Call(ps, as) == [str |-> FlattenSeq([k \in 1..Len(ps) |-> Format(ps[k])]), args |-> as, pieces |-> ps]

MCCalls ==
    { Call(<<p>>, <<Arg(v, s)>>) : p \in AllPieces, v \in Values, s \in Strings }
    \cup { Call(ps, as) :
             ps \in TupleOf(SomePieces, 3),
             as \in TupleOf({Arg(-40, <<LetterZ>>), Arg(98765, <<>>)}, 2) }

-----------------------------------------------------------------------------
(* What the library supports.                                              *)

UsesArgument(p) == p.letter \in {LetterD, LetterX, LetterS}

ArgumentOf(cl, k) == cl.args[1 + Cardinality({j \in 1..(k - 1) : UsesArgument(cl.pieces[j])})]

Expected(cl) ==
    FlattenSeq([k \in 1..Len(cl.pieces) |->
        LET p == cl.pieces[k] IN
        IF p.letter = LetterZ THEN <<LetterZ>>
        ELSE IF p.letter = LetterS THEN ArgumentOf(cl, k).str
        ELSE Field(ArgumentOf(cl, k).int, p.letter, p)])

\* %% is no conversion of its own; a string has no width; and a number in a
\* field has to fit into it, is not 0 unless the field is filled with zeroes,
\* and is not negative then.  The prefix 0x stands in front of the spaces, and
\* stays with a 0.  A negative number has no more than nine digits.
SupportedPiece(p, arg) ==
    /\ p.letter \notin {Percent, 0}
    /\ p.letter = LetterS => p.w <= Len(arg.str)
    /\ p.letter = LetterD => arg.int > -1000000000
    /\ p.letter \in {LetterD, LetterX} /\ p.w > (IF p.pp THEN 2 ELSE 0) =>
           LET len == Len(Number(arg.int, p.letter)) + Len(Sign(arg.int, p.letter, p.pp)) IN
           /\ p.w >= len
           /\ p.w > len => p.zp \/ ~p.pp
           /\ arg.int = 0 => p.zp
           /\ p.letter = LetterD /\ arg.int < 0 /\ p.w > len => ~p.zp
    /\ p.pp => arg.int /= 0

SupportedCall(cl) ==
    /\ Cardinality({k \in 1..Len(cl.pieces) : UsesArgument(cl.pieces[k])}) <= Len(cl.args)
    /\ \A k \in 1..Len(cl.pieces) :
           \/ cl.pieces[k].letter = LetterZ
           \/ SupportedPiece(cl.pieces[k], ArgumentOf(cl, k))
    /\ Len(Expected(cl)) < BufferSize

\* What printf writes is what printf of C writes for every call it supports,
\* with any conversions next to each other, and only a call that it does not
\* support leaves its buffer, its digits, its format or its arguments.
PrintsAsC ==
    /\ pc = "returned" /\ SupportedCall(call) => output = Expected(call)
    /\ pc = "overrun" => ~SupportedCall(call)

=============================================================================
