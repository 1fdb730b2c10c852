------------------------------- MODULE Printf -------------------------------
(***************************************************************************)
(* printf of lib/rvclib.c, with __format, __render10 and __render16: a     *)
(* call with a format and its arguments, which fills a buffer and writes   *)
(* it at the end.  Characters are their codes, integers have 32 bits.      *)
(* strcpy and strlen do what ClibContract says of them.                    *)
(***************************************************************************)
EXTENDS Integers, Sequences

CONSTANTS Calls,       \* the calls: records of str, the format, and args
          BufferSize   \* the size of printf's buffer

IntMax == 2147483647
IntMin == -IntMax - 1

Int32 == IntMin..IntMax

\* An argument is an integer or a string.
Argument == [int : Int32, str : Seq(0..255)]

ASSUME PrintfAssumption ==
    /\ \A x \in Calls : x.str \in Seq(1..255) /\ x.args \in Seq(Argument)
    /\ BufferSize \in Nat \ {0}

VARIABLES call,     \* the call
          pc,       \* "text", "render10", "render16", "emit"; "returned" or "overrun"
          si,       \* the place in the format
          pi,       \* how many arguments have been used
          field,    \* w, zp and pp of the conversion
          val,      \* __render10, __render16: what is left of the value
          neg,      \* __render10: it was negative
          pb,       \* the ten digits
          c,        \* the place in them
          buffer,   \* printf's buffer up to bi
          output    \* what has been written

vars == <<call, pc, si, pi, field, val, neg, pb, c, buffer, output>>

Zero == 48
Space == 32
Minus == 45
Percent == 37
Hash == 35
LetterA == 97
LetterD == 100
LetterS == 115
LetterX == 120

Digits == [0..9 -> Zero..(Zero + 9)]

NoField == [w |-> 0, zp |-> FALSE, pp |-> FALSE]

Init ==
    /\ call \in Calls
    /\ pc = "text"
    /\ si = 1 /\ pi = 0
    /\ field = NoField
    /\ val = 0 /\ neg = FALSE
    /\ pb = [k \in 0..9 |-> Zero]
    /\ c = 0
    /\ buffer = <<>> /\ output = <<>>

\* The format, with the zero behind it.
Char(k) == IF k <= Len(call.str) THEN call.str[k] ELSE 0

IsDigit(ch) == ch \in Zero..(Zero + 9)

\* Mutant: the final zero is forgotten.
PutWithoutZero(bytes, next) ==
    IF Len(buffer) + Len(bytes) <= BufferSize
    THEN buffer' = buffer \o bytes /\ pc' = next
    ELSE pc' = "overrun" /\ UNCHANGED buffer

\* The bytes are added to the buffer, which is not checked for room: without
\* any, also for the final zero, memory behind it is overwritten.
Put(bytes, next) ==
    IF Len(buffer) + Len(bytes) < BufferSize
    THEN buffer' = buffer \o bytes /\ pc' = next
    ELSE pc' = "overrun" /\ UNCHANGED buffer

-----------------------------------------------------------------------------
(* printf: the format.                                                     *)

text ==
    /\ pc = "text" /\ Char(si) \notin {0, Percent}
    /\ Put(<<Char(si)>>, "text")
    /\ si' = si + 1
    /\ UNCHANGED <<call, pi, field, val, neg, pb, c, output>>

\* The conversion at si: #, 0, a width of up to two digits, and where its
\* letter is.
Conversion ==
    LET pp == Char(si + 1) = Hash
        zpAt == si + (IF pp THEN 2 ELSE 1)
        zp == Char(zpAt) = Zero
        wAt == zpAt + (IF zp THEN 1 ELSE 0)
        one == Char(wAt) \in (Zero + 1)..(Zero + 9)
        two == one /\ IsDigit(Char(wAt + 1))
    IN [ pp |-> pp, zp |-> zp,
         w |-> IF two THEN (Char(wAt) - Zero) * 10 + (Char(wAt + 1) - Zero)
               ELSE IF one THEN Char(wAt) - Zero ELSE 0,
         at |-> wAt + (IF two THEN 2 ELSE IF one THEN 1 ELSE 0) ]

Letter == Char(Conversion.at)

\* A conversion uses up an argument, whatever its letter is.
Converting(letters) ==
    /\ pc = "text" /\ Char(si) = Percent
    /\ Letter \in letters
    /\ si' = Conversion.at + 1
    /\ pi' = pi + 1
    /\ UNCHANGED <<call, output>>

convert_string ==
    /\ Converting({LetterS})
    /\ pi < Len(call.args)
    /\ Put(call.args[pi + 1].str, "text")
    /\ UNCHANGED <<field, val, neg, pb, c>>

\* -val, which is val for the least integer.
Negated(v) == IF v = IntMin THEN v ELSE -v

\* The start of __format: the prefix counts for the width, and the renderer
\* of the base is called.
convert_number ==
    /\ Converting({LetterD, LetterX})
    /\ pi < Len(call.args)
    /\ LET v == call.args[pi + 1].int
           prefix == Letter = LetterX /\ Conversion.pp
           w == Conversion.w
       IN /\ Put(IF prefix THEN <<Zero, LetterX>> ELSE <<>>,
                 IF Letter = LetterD THEN "render10" ELSE "render16")
          /\ field' = [ w |-> IF prefix THEN IF w > 2 THEN w - 2 ELSE 0 ELSE w,
                        zp |-> Conversion.zp, pp |-> prefix ]
          /\ neg' = (Letter = LetterD /\ v < 0)
          /\ val' = IF neg' THEN Negated(v) ELSE v
          /\ c' = IF Letter = LetterD THEN 0 ELSE 9
    /\ pb' = [k \in 0..9 |-> Zero]

convert_nothing ==
    /\ Converting((1..255) \ {LetterS, LetterD, LetterX})
    /\ UNCHANGED <<pc, field, val, neg, pb, c, buffer>>

\* A conversion with no argument left reads what else is on the stack, and one
\* with no letter reads on behind the format.
convert_beyond ==
    /\ \/ Converting({LetterS, LetterD, LetterX}) /\ pi = Len(call.args)
       \/ Converting({0})
    /\ pc' = "overrun"
    /\ UNCHANGED <<field, val, neg, pb, c, buffer>>

finish ==
    /\ pc = "text" /\ Char(si) = 0
    /\ pc' = "returned"
    /\ output' = buffer
    /\ UNCHANGED <<call, si, pi, field, val, neg, pb, c, buffer>>

-----------------------------------------------------------------------------
(* __render10: the digits by subtraction, from the first.                  *)

Power == [k \in 0..9 |->
    CASE k = 0 -> 1000000000 [] k = 1 -> 100000000 [] k = 2 -> 10000000
      [] k = 3 -> 1000000 [] k = 4 -> 100000 [] k = 5 -> 10000
      [] k = 6 -> 1000 [] k = 7 -> 100 [] k = 8 -> 10 [] k = 9 -> 1]

\* Mutant: > for >=.
subtract_above ==
    /\ pc = "render10" /\ c < 10 /\ val > Power[c]
    /\ val' = val - Power[c]
    /\ pb' = [pb EXCEPT ![c] = @ + 1]
    /\ UNCHANGED <<call, pc, si, pi, field, neg, c, buffer, output>>

subtract ==
    /\ pc = "render10" /\ c < 10 /\ val >= Power[c]
    /\ val' = val - Power[c]
    /\ pb' = [pb EXCEPT ![c] = @ + 1]
    /\ UNCHANGED <<call, pc, si, pi, field, neg, c, buffer, output>>

\* Mutant: a power is passed when it still goes into the value.
next_digit_early ==
    /\ pc = "render10" /\ c < 10 /\ val <= Power[c]
    /\ c' = c + 1
    /\ UNCHANGED <<call, pc, si, pi, field, val, neg, pb, buffer, output>>

next_digit ==
    /\ pc = "render10" /\ c < 10 /\ val < Power[c]
    /\ c' = c + 1
    /\ UNCHANGED <<call, pc, si, pi, field, val, neg, pb, buffer, output>>

\* k is the first place that is not the digit 0.
FirstDigit(k) == pb[k] /= Zero /\ \A j \in 0..(k - 1) : pb[j] = Zero

\* The sign takes the place of the last zero in front, if there is one; it is
\* looked for behind the digits if all are zero.
sign ==
    /\ pc = "render10" /\ c = 10
    /\ pb' = IF neg THEN [k \in 0..9 |-> IF k < 9 /\ FirstDigit(k + 1) THEN Minus ELSE pb[k]]
             ELSE pb
    /\ pc' = IF neg /\ ~\E k \in 0..9 : FirstDigit(k) THEN "overrun" ELSE "emit"
    /\ UNCHANGED <<call, si, pi, field, val, neg, c, buffer, output>>

-----------------------------------------------------------------------------
(* __render16: the digits by shifts, from the last; >> shifts in zeroes.   *)

\* Mutant: >> shifts in the sign.
ShiftedArithmetically(v) == v \div 16

ShiftedRight4(v) == v \div 16 + (IF v < 0 THEN 268435456 ELSE 0)

nibble ==
    /\ pc = "render16" /\ c > 0
    /\ pb' = [pb EXCEPT ![c] = LET v == val % 16 IN IF v < 10 THEN Zero + v ELSE LetterA + v - 10]
    /\ val' = ShiftedRight4(val)
    /\ c' = c - 1
    /\ pc' = IF c = 1 THEN "emit" ELSE "render16"
    /\ UNCHANGED <<call, si, pi, field, neg, buffer, output>>

-----------------------------------------------------------------------------
(* The end of __format: padding and digits.                                *)

Padding == IF field.zp THEN Zero ELSE Space

\* The digits from place k on, those before the first one replaced.
Padded(k) ==
    [j \in 1..(10 - k) |->
        IF \E m \in k..(k + j - 1) : pb[m] /= Zero THEN pb[k + j - 1] ELSE Padding]

\* Without a width the digits from the first one on, or a single 0.
Unpadded ==
    IF \A k \in 0..9 : pb[k] = Zero THEN <<Zero>>
    ELSE LET k == CHOOSE k \in 0..9 : FirstDigit(k) IN [j \in 1..(10 - k) |-> pb[k + j - 1]]

Rendered ==
    IF field.w = 0 THEN Unpadded
    ELSE IF field.w > 10 THEN [j \in 1..(field.w - 10) |-> Padding] \o Padded(0)
    ELSE Padded(10 - field.w)

emit ==
    /\ pc = "emit"
    /\ Put(Rendered, "text")
    /\ UNCHANGED <<call, si, pi, field, val, neg, pb, c, output>>

Next ==
    \/ text \/ convert_string \/ convert_number \/ convert_nothing \/ convert_beyond \/ finish
    \/ subtract \/ next_digit \/ sign \/ nibble \/ emit

Spec == Init /\ [][Next]_vars /\ WF_vars(Next)

-----------------------------------------------------------------------------

\* What the digits of the ten places are worth.
Worth ==
    (pb[0] - Zero) * 1000000000 + (pb[1] - Zero) * 100000000 + (pb[2] - Zero) * 10000000
    + (pb[3] - Zero) * 1000000 + (pb[4] - Zero) * 100000 + (pb[5] - Zero) * 10000
    + (pb[6] - Zero) * 1000 + (pb[7] - Zero) * 100 + (pb[8] - Zero) * 10 + (pb[9] - Zero)

\* The value that is rendered: an argument without its sign.
Magnitude == LET v == call.args[pi].int IN IF v < 0 THEN Negated(v) ELSE v

\* The rendering by subtraction neither loses nor invents anything: what the
\* digits are worth and what is left of the value make the value at any time,
\* nothing is left after the last digit, and every place holds a digit, so
\* that no increment carries beyond '9'.  The least integer has no magnitude;
\* nothing is subtracted from it (__render10).
DigitsWorthValue ==
    pc = "render10" =>
        /\ pb \in Digits
        /\ Worth + val = Magnitude
        /\ c = 10 => val = 0 \/ val = IntMin

TypeOK ==
    /\ call.str \in Seq(1..255) /\ call.args \in Seq(Argument)
    /\ pc \in {"text", "render10", "render16", "emit", "returned", "overrun"}
    /\ si \in Nat \ {0} /\ pi \in Nat
    /\ field \in [w : 0..99, zp : BOOLEAN, pp : BOOLEAN]
    /\ val \in Int32 /\ neg \in BOOLEAN
    /\ pb \in [0..9 -> 0..255]
    /\ c \in 0..10 /\ (pc = "render16" => c \in 1..9)
    /\ buffer \in Seq(0..255) /\ Len(buffer) < BufferSize
    /\ output \in {<<>>, buffer}

\* Every call ends, as far as it is defined at all.
CallEnds == <>(pc \in {"returned", "overrun"})

=============================================================================
