---------------------------- MODULE PrintfProofs ----------------------------
(***************************************************************************)
(* Proofs about printf, for every format and all arguments: the rendering  *)
(* of decimal numbers by subtraction is exact for every 32-bit value, and  *)
(* what is written is written within the buffers.                          *)
(***************************************************************************)
EXTENDS Printf, SequenceTheorems, TLAPS

\* A number is being rendered: what __render10 works on.
Rendering ==
    /\ c \in 0..10
    /\ val \in Int
    /\ pb \in Digits
    /\ \A j \in 0..9 : j > c => pb[j] = Zero
    /\ Worth + val = Magnitude
    /\ \/ val = IntMin
       \/ c = 10 /\ val = 0
       \/ c < 10 /\ val >= 0 /\ val + (pb[c] - Zero) * Power[c] < 10 * Power[c]

\* What is left at place c is less than ten times what the place is worth,
\* counting the digit it already has: the digit cannot grow beyond 9, and
\* what is left when the place is passed is less than one of it.
IInv ==
    /\ pi \in Nat
    /\ call.args \in Seq(Argument)
    /\ pc = "render10" => Rendering

-----------------------------------------------------------------------------

LEMMA Bounds == IntMax \in Int /\ IntMin \in Int /\ IntMin < 0 /\ IntMin = -IntMax - 1
BY SMT DEF IntMin, IntMax

\* A magnitude is not negative, but for the least integer.
LEMMA Magnitudes ==
    ASSUME NEW v \in Int32, NEW w, w = IF v < 0 THEN Negated(v) ELSE v
    PROVE  w \in Int /\ (w = IntMin \/ w \in 0..IntMax)
BY Bounds DEF Int32, Negated

LEMMA PowerValues ==
    /\ Power[0] = 1000000000 /\ Power[1] = 100000000 /\ Power[2] = 10000000
    /\ Power[3] = 1000000 /\ Power[4] = 100000 /\ Power[5] = 10000
    /\ Power[6] = 1000 /\ Power[7] = 100 /\ Power[8] = 10 /\ Power[9] = 1
BY SMT DEF Power

LEMMA PowerSteps ==
    ASSUME NEW k \in 0..9
    PROVE  Power[k] \in Nat \ {0} /\ (k < 9 => Power[k] = 10 * Power[k + 1])
BY SMT, PowerValues

\* One more of place k is worth what the place is.
LEMMA OneMore ==
    ASSUME NEW k \in 0..9, pb \in [0..9 -> Int], pb' = [pb EXCEPT ![k] = @ + 1]
    PROVE  Worth' = Worth + Power[k]
<1> USE PowerValues DEF Worth, Zero
<1>1. CASE k = 0
  BY SMT, <1>1
<1>2. CASE k = 1
  BY SMT, <1>2
<1>3. CASE k = 2
  BY SMT, <1>3
<1>4. CASE k = 3
  BY SMT, <1>4
<1>5. CASE k = 4
  BY SMT, <1>5
<1>6. CASE k = 5
  BY SMT, <1>6
<1>7. CASE k = 6
  BY SMT, <1>7
<1>8. CASE k = 7
  BY SMT, <1>8
<1>9. CASE k = 8
  BY SMT, <1>9
<1>10. CASE k = 9
  BY SMT, <1>10
<1> QED BY SMT, <1>1, <1>2, <1>3, <1>4, <1>5, <1>6, <1>7, <1>8, <1>9, <1>10

-----------------------------------------------------------------------------
(* The steps.                                                              *)

LEMMA InitRendering == Init => IInv
BY SMT, PrintfAssumption DEF Init, IInv

\* A number starts with all digits 0 and the whole magnitude left.
LEMMA ConvertNumberRenders ==
    ASSUME IInv, convert_number
    PROVE  IInv'
<1> DEFINE v == call.args[pi + 1].int
<1>1. pi' = pi + 1 /\ call' = call /\ pi + 1 \in 1..Len(call.args)
  BY DEF convert_number, Converting, IInv
<1>2. v \in Int32
  <2>1. call.args[pi + 1] \in Argument
    BY <1>1 DEF IInv
  <2> QED BY <2>1 DEF Argument
<1>3. pc' = "render10" => Letter = LetterD
  BY DEF convert_number, Put
<1>4. SUFFICES ASSUME pc' = "render10" PROVE Rendering'
  BY <1>1 DEF IInv
<1>5. /\ c' = 0
      /\ val' = IF v < 0 THEN Negated(v) ELSE v
      /\ pb' = [k \in 0..9 |-> Zero]
  BY <1>3, <1>4 DEF convert_number, LetterD, LetterX
<1>6. Magnitude' = val'
  BY <1>1, <1>5 DEF Magnitude
<1>7. Worth' = 0
  BY SMT, <1>5 DEF Worth, Zero
<1>8. val' \in Int /\ (val' = IntMin \/ val' \in 0..IntMax)
  BY <1>2, <1>5, Magnitudes
<1>9. pb' \in Digits /\ pb'[0] = Zero
  BY <1>5 DEF Digits, Zero
<1>10. val' >= 0 => val' + (pb'[0] - Zero) * Power[0] < 10 * Power[0]
  <2>1. val' >= 0 => val' < 10 * 1000000000
    <3>1. IntMin < 0 /\ IntMax < 10 * 1000000000
      BY SMT DEF IntMin, IntMax
    <3> QED BY SMT, <1>8, <3>1, Bounds
  <2>2. (pb'[0] - Zero) * Power[0] = 0
    BY SMT, <1>9, PowerValues DEF Zero
  <2> QED BY SMT, <1>8, <2>1, <2>2, PowerValues
<1> QED BY <1>5, <1>6, <1>7, <1>8, <1>9, <1>10 DEF Rendering

\* A subtraction moves the worth of the place from the value to the digits.
LEMMA SubtractRenders ==
    ASSUME IInv, subtract
    PROVE  IInv'
<1>1. Rendering /\ c \in 0..9 /\ val >= Power[c]
  BY DEF IInv, subtract, Rendering
<1>2. Power[c] \in Nat \ {0}
  BY <1>1, PowerSteps
<1>3. /\ val >= 0 /\ val + (pb[c] - Zero) * Power[c] < 10 * Power[c]
      /\ pb[c] \in Zero..(Zero + 9)
  <2>1. val \in Int /\ val > 0 /\ c < 10
    BY SMT, <1>1, <1>2 DEF Rendering
  <2>2. val /= IntMin
    BY SMT, <2>1, Bounds
  <2>3. pb[c] \in Zero..(Zero + 9)
    BY <1>1 DEF Rendering, Digits
  <2> QED BY <1>1, <2>1, <2>2, <2>3 DEF Rendering
<1>4. pb[c] - Zero + 1 <= 9
  <2> DEFINE d == pb[c] - Zero
             P == Power[c]
  <2>1. d \in 0..9 /\ P \in Nat \ {0} /\ val \in Int
    BY <1>1, <1>2, <1>3 DEF Rendering, Zero
  <2>2. P + d * P < 10 * P
    BY <1>1, <1>3, <2>1
  <2>3. d /= 9
    BY <2>1, <2>2
  <2> QED BY <2>1, <2>3
<1>5. /\ val' = val - Power[c] /\ pb' = [pb EXCEPT ![c] = @ + 1]
      /\ UNCHANGED <<call, pc, pi, c>>
  BY DEF subtract
<1>6. pb \in [0..9 -> Int]
  BY <1>1 DEF Rendering, Digits, Zero
<1>7. Worth' = Worth + Power[c]
  BY <1>1, <1>5, <1>6, OneMore
<1>8. pb' \in Digits /\ pb'[c] = pb[c] + 1 /\ \A j \in 0..9 : j > c => pb'[j] = Zero
  BY <1>1, <1>3, <1>4, <1>5 DEF Rendering, Digits, Zero
<1>9. Worth \in Int /\ val \in Int
  BY SMT, <1>1, <1>6 DEF Worth, Zero, Rendering
<1>10. Magnitude' = Magnitude
  BY <1>5 DEF Magnitude
<1>11. Worth' + val' = Magnitude'
  BY <1>1, <1>2, <1>5, <1>7, <1>9, <1>10 DEF Rendering
<1>12. val' + (pb'[c] - Zero) * Power[c] < 10 * Power[c]
  <2> DEFINE d == pb[c] - Zero
             P == Power[c]
  <2>1. d \in 0..9 /\ P \in Nat /\ val \in Int
    BY <1>2, <1>3, <1>9 DEF Zero
  <2>2. (pb'[c] - Zero) * P = d * P + P
    BY <1>3, <1>8, <2>1 DEF Zero
  <2>3. d * P \in Int
    BY <2>1
  <2> QED BY <1>3, <1>5, <2>1, <2>2, <2>3
<1>13. val' \in Int /\ val' >= 0
  BY <1>1, <1>2, <1>5, <1>9
<1>14. Rendering'
  BY <1>1, <1>5, <1>8, <1>11, <1>12, <1>13 DEF Rendering
<1> QED BY <1>5, <1>14 DEF IInv

\* What is left when a place is passed is less than ten of the next one.
LEMMA NextDigitRenders ==
    ASSUME IInv, next_digit
    PROVE  IInv'
<1>1. Rendering /\ c \in 0..9 /\ val < Power[c]
  BY DEF IInv, next_digit, Rendering
<1>2. c' = c + 1 /\ UNCHANGED <<call, pc, pi, val, pb>>
  BY DEF next_digit
<1>3. Worth' + val' = Magnitude'
  BY SMT, <1>1, <1>2 DEF Rendering, Worth, Magnitude
<1>4. CASE val = IntMin
  BY <1>1, <1>2, <1>3, <1>4 DEF Rendering, IInv
<1>5. CASE val >= 0 /\ c = 9
  BY SMT, <1>1, <1>2, <1>3, <1>5, PowerValues DEF Rendering, IInv
<1>6. CASE val >= 0 /\ c < 9
  <2>1. c + 1 \in 0..9 /\ Power[c] = 10 * Power[c + 1] /\ Power[c + 1] \in Nat
    BY <1>1, <1>6, PowerSteps
  <2>2. pb[c + 1] = Zero
    BY <1>1, <2>1 DEF Rendering
  <2>3. val + (pb[c + 1] - Zero) * Power[c + 1] < 10 * Power[c + 1]
    BY <1>1, <2>1, <2>2 DEF Zero, Rendering
  <2>4. \A j \in 0..9 : j > c + 1 => pb[j] = Zero
    BY <1>1 DEF Rendering
  <2>5. c' \in 0..10 /\ c' < 10
    BY <1>2, <2>1
  <2> QED BY <1>1, <1>2, <1>3, <1>6, <2>3, <2>4, <2>5 DEF Rendering, IInv
<1> QED BY <1>1, <1>4, <1>5, <1>6 DEF Rendering

\* No other step leads into the rendering of a decimal number or changes it.
LEMMA OtherStepsRender ==
    ASSUME IInv,
           text \/ convert_string \/ convert_nothing \/ convert_beyond \/ finish
           \/ sign \/ nibble \/ emit \/ UNCHANGED vars
    PROVE  IInv'
<1>1. call' = call /\ pi' \in Nat
  BY DEF IInv, text, convert_string, convert_nothing, convert_beyond, finish, sign, nibble, emit,
         Converting, vars
<1>2. CASE UNCHANGED vars
  BY SMT, <1>2 DEF IInv, vars, Rendering, Worth, Magnitude
<1>3. ASSUME ~UNCHANGED vars PROVE pc' /= "render10"
  BY <1>3 DEF text, convert_string, convert_nothing, convert_beyond, finish, sign, nibble, emit,
         Converting, Put
<1> QED BY <1>1, <1>2, <1>3 DEF IInv

-----------------------------------------------------------------------------

\* __render10 is exact for every value of 32 bits: its digits never carry,
\* and together with what is left of the value they are worth the value.
THEOREM RendersExactly == Spec => []DigitsWorthValue
<1>1. Init => IInv
  BY InitRendering
<1>2. IInv /\ [Next]_vars => IInv'
  BY ConvertNumberRenders, SubtractRenders, NextDigitRenders, OtherStepsRender DEF Next
<1>3. IInv => DigitsWorthValue
  BY DEF IInv, Rendering, DigitsWorthValue
<1> QED BY <1>1, <1>2, <1>3, PTL DEF Spec

-----------------------------------------------------------------------------
(* Types.                                                                  *)

\* Nothing has been written before the end.
TInv ==
    /\ IInv /\ TypeOK
    /\ pc /= "returned" => output = << >>

\* Bytes that are put make the buffer longer as long as it has room.
LEMMA PutTyped ==
    ASSUME NEW bytes \in Seq(0..255), NEW next, TypeOK, Put(bytes, next)
    PROVE  /\ buffer' \in Seq(0..255) /\ Len(buffer') < BufferSize
           /\ pc' \in {next, "overrun"}
<1>1. CASE Len(buffer) + Len(bytes) < BufferSize
  <2>1. buffer' = buffer \o bytes /\ pc' = next
    BY <1>1 DEF Put
  <2>2. buffer \in Seq(0..255)
    BY DEF TypeOK
  <2> QED BY <1>1, <2>1, <2>2, ConcatProperties
<1>2. CASE ~(Len(buffer) + Len(bytes) < BufferSize)
  BY <1>2 DEF Put, TypeOK
<1> QED BY <1>1, <1>2

\* What is read of a format is a byte, and where it is read from a place.
LEMMA CharTyped ==
    ASSUME TypeOK, NEW k \in Nat \ {0}
    PROVE  Char(k) \in 0..255
<1>1. call.str \in Seq(1..255)
  BY DEF TypeOK
<1>2. ASSUME k <= Len(call.str)
      PROVE  call.str[k] \in 1..255
  <2>1. k \in 1..Len(call.str)
    BY <1>1, <1>2, LenProperties
  <2> QED BY <1>1, <2>1, ElementOfSeq
<1> QED BY <1>2 DEF Char

\* A width has at most two digits, and the letter is behind the percent sign.
LEMMA ConversionTyped ==
    ASSUME TypeOK
    PROVE  /\ Conversion.w \in 0..99 /\ Conversion.zp \in BOOLEAN
           /\ Conversion.pp \in BOOLEAN /\ Conversion.at \in Nat \ {0}
<1> DEFINE pp == Char(si + 1) = Hash
           zpAt == si + (IF pp THEN 2 ELSE 1)
           zp == Char(zpAt) = Zero
           wAt == zpAt + (IF zp THEN 1 ELSE 0)
           one == Char(wAt) \in (Zero + 1)..(Zero + 9)
           two == one /\ IsDigit(Char(wAt + 1))
           w == IF two THEN (Char(wAt) - Zero) * 10 + (Char(wAt + 1) - Zero)
                ELSE IF one THEN Char(wAt) - Zero ELSE 0
           at == wAt + (IF two THEN 2 ELSE IF one THEN 1 ELSE 0)
<1>1. si \in Nat \ {0}
  BY DEF TypeOK
<1>2. zpAt \in Nat \ {0}
  BY <1>1
<1>3. wAt \in Nat \ {0}
  <2> HIDE DEF zpAt, zp
  <2> QED BY <1>2
<1>4. at \in Nat \ {0} /\ w \in 0..99
  <2> HIDE DEF wAt
  <2> QED BY <1>3 DEF Zero, IsDigit
<1>5. Conversion.w = w /\ Conversion.at = at /\ Conversion.zp = zp /\ Conversion.pp = pp
  BY DEF Conversion
<1> QED BY <1>4, <1>5

\* If not all digits are zero one is the first that is not.
LEMMA SomeFirstDigit ==
    ASSUME ~\A k \in 0..9 : pb[k] = Zero
    PROVE  \E k \in 0..9 : FirstDigit(k)
<1>1. SUFFICES ASSUME \A k \in 0..9 : ~FirstDigit(k)
               PROVE  \A k \in 0..9 : pb[k] = Zero
  OBVIOUS
<1>2. ASSUME NEW k \in 0..9, \A j \in 0..(k - 1) : pb[j] = Zero
      PROVE  pb[k] = Zero
  BY <1>1, <1>2 DEF FirstDigit
<1>3. pb[0] = Zero /\ pb[1] = Zero /\ pb[2] = Zero /\ pb[3] = Zero
  <2>1. pb[0] = Zero
    BY <1>2
  <2>2. pb[1] = Zero
    BY <1>2, <2>1
  <2>3. pb[2] = Zero
    BY <1>2, <2>1, <2>2
  <2>4. pb[3] = Zero
    BY <1>2, <2>1, <2>2, <2>3
  <2> QED BY <2>1, <2>2, <2>3, <2>4
<1>4. pb[4] = Zero /\ pb[5] = Zero /\ pb[6] = Zero
  <2>1. pb[4] = Zero
    BY <1>2, <1>3
  <2>2. pb[5] = Zero
    BY <1>2, <1>3, <2>1
  <2>3. pb[6] = Zero
    BY <1>2, <1>3, <2>1, <2>2
  <2> QED BY <2>1, <2>2, <2>3
<1>5. pb[7] = Zero /\ pb[8] = Zero /\ pb[9] = Zero
  <2>1. pb[7] = Zero
    BY <1>2, <1>3, <1>4
  <2>2. pb[8] = Zero
    BY <1>2, <1>3, <1>4, <2>1
  <2>3. pb[9] = Zero
    BY <1>2, <1>3, <1>4, <2>1, <2>2
  <2> QED BY <2>1, <2>2, <2>3
<1> QED BY <1>3, <1>4, <1>5

\* A function on the first n numbers is a sequence.
LEMMA FunctionSeq ==
    ASSUME NEW S, NEW n \in Nat, NEW f \in [1..n -> S]
    PROVE  f \in Seq(S)
BY SeqDef

\* Padding and digits are bytes.
LEMMA RenderedTyped ==
    ASSUME TypeOK
    PROVE  Rendered \in Seq(0..255)
<1>1. pb \in [0..9 -> 0..255] /\ field.w \in 0..99
  BY DEF TypeOK
<1>2. Padding \in 0..255
  BY DEF Padding, Zero, Space
<1>3. ASSUME NEW k \in 0..10
      PROVE  Padded(k) \in Seq(0..255)
  <2>1. 10 - k \in Nat
    OBVIOUS
  <2>2. ASSUME NEW j \in 1..(10 - k)
        PROVE  pb[k + j - 1] \in 0..255
    <3>1. k + j - 1 \in 0..9
      OBVIOUS
    <3> QED BY <1>1, <3>1
  <2>3. Padded(k) \in [1..(10 - k) -> 0..255]
    BY <1>2, <2>2 DEF Padded
  <2> QED BY <2>1, <2>3, FunctionSeq
<1>4. ASSUME ~\A k \in 0..9 : pb[k] = Zero
      PROVE  Unpadded \in Seq(0..255)
  <2> DEFINE k == CHOOSE k \in 0..9 : FirstDigit(k)
  <2>1. k \in 0..9
    BY <1>4, SomeFirstDigit
  <2>2. Unpadded = [j \in 1..(10 - k) |-> pb[k + j - 1]]
    BY <1>4 DEF Unpadded
  <2> HIDE DEF k
  <2>3. ASSUME NEW j \in 1..(10 - k)
        PROVE  pb[k + j - 1] \in 0..255
    <3>1. k + j - 1 \in 0..9
      BY <2>1
    <3> QED BY <1>1, <3>1
  <2>4. 10 - k \in Nat
    BY <2>1
  <2>5. [j \in 1..(10 - k) |-> pb[k + j - 1]] \in [1..(10 - k) -> 0..255]
    BY <2>3
  <2> QED BY <2>2, <2>4, <2>5, FunctionSeq
<1>5. Unpadded \in Seq(0..255)
  <2>1. CASE \A k \in 0..9 : pb[k] = Zero
    <3>1. Unpadded = <<Zero>> /\ Zero \in 0..255
      BY <2>1 DEF Unpadded, Zero
    <3> QED BY <3>1
  <2> QED BY <1>4, <2>1
<1>6. ASSUME field.w > 10
      PROVE  [j \in 1..(field.w - 10) |-> Padding] \in Seq(0..255)
  <2>1. field.w - 10 \in Nat
    BY <1>1, <1>6
  <2>2. [j \in 1..(field.w - 10) |-> Padding] \in [1..(field.w - 10) -> 0..255]
    BY <1>2
  <2> QED BY <2>1, <2>2, FunctionSeq
<1>7. CASE field.w = 0
  BY <1>5, <1>7 DEF Rendered
<1>8. CASE field.w > 10
  <2>1. Padded(0) \in Seq(0..255)
    BY <1>3
  <2> QED BY <1>1, <1>6, <1>8, <2>1, ConcatProperties DEF Rendered
<1>9. CASE field.w \in 1..10
  <2>1. 10 - field.w \in 0..10
    BY <1>9
  <2>2. Rendered = Padded(10 - field.w)
    BY <1>9 DEF Rendered
  <2> QED BY <1>3, <2>1, <2>2
<1>10. field.w = 0 \/ field.w > 10 \/ field.w \in 1..10
  BY <1>1
<1> QED BY <1>7, <1>8, <1>9, <1>10

-----------------------------------------------------------------------------

LEMMA InitTyped == Init => TInv
<1> SUFFICES ASSUME Init PROVE TInv
  OBVIOUS
<1>1. IInv
  BY InitRendering
<1>2. call.str \in Seq(1..255) /\ call.args \in Seq(Argument)
  BY PrintfAssumption DEF Init
<1>3. buffer = << >> /\ buffer \in Seq(0..255) /\ Len(buffer) < BufferSize
  BY PrintfAssumption, EmptySeq DEF Init
<1>4. /\ pb \in [0..9 -> 0..255] /\ val \in Int32
      /\ field \in [w : 0..99, zp : BOOLEAN, pp : BOOLEAN]
  <2>1. 0 \in Int32
    <3>1. IntMax >= 0
      BY SMT DEF IntMax
    <3> QED BY <3>1, Bounds DEF Int32
  <2> QED BY <2>1 DEF Init, Zero, NoField
<1>5. /\ pc = "text" /\ si \in Nat \ {0} /\ pi \in Nat /\ neg \in BOOLEAN
      /\ c \in 0..10 /\ output = << >>
  <2>1. pc = "text" /\ si = 1 /\ pi = 0 /\ neg = FALSE /\ c = 0 /\ output = << >>
    BY DEF Init
  <2>2. 1 \in Nat \ {0} /\ 0 \in Nat /\ 0 \in 0..10
    OBVIOUS
  <2> QED BY <2>1, <2>2, Zenon
<1>6. output \in {<< >>, buffer} /\ pc /= "render16"
  BY <1>5
<1>7. TypeOK
  BY <1>2, <1>3, <1>4, <1>5, <1>6, Zenon DEF TypeOK
<1> QED BY <1>1, <1>5, <1>7 DEF TInv

LEMMA TextTyped ==
    ASSUME TInv, text
    PROVE  TypeOK'
<1>1. TypeOK /\ pc = "text" /\ output = << >>
  BY DEF TInv, text
<1>2. Char(si) \in 0..255
  BY <1>1, CharTyped DEF TypeOK
<1>3. <<Char(si)>> \in Seq(0..255)
  BY <1>2
<1>4. Put(<<Char(si)>>, "text")
  BY DEF text
<1>5. buffer' \in Seq(0..255) /\ Len(buffer') < BufferSize /\ pc' \in {"text", "overrun"}
  BY <1>1, <1>3, <1>4, PutTyped
<1> QED BY <1>1, <1>5 DEF text, TypeOK

\* What all conversions do.
LEMMA ConvertingTyped ==
    ASSUME TInv, NEW letters, Converting(letters)
    PROVE  /\ si' \in Nat \ {0} /\ pi' \in Nat /\ call' = call /\ output' = << >>
           /\ pc = "text" /\ TypeOK
<1>1. TypeOK /\ pc = "text" /\ output = << >>
  BY DEF TInv, Converting
<1>2. Conversion.at \in Nat \ {0}
  BY <1>1, ConversionTyped
<1> QED BY <1>1, <1>2 DEF Converting, TypeOK

\* The argument a conversion uses.
LEMMA ArgumentTyped ==
    ASSUME TypeOK, pi < Len(call.args)
    PROVE  call.args[pi + 1].str \in Seq(0..255) /\ call.args[pi + 1].int \in Int32
<1>1. call.args \in Seq(Argument) /\ pi \in Nat
  BY DEF TypeOK
<1>2. pi + 1 \in 1..Len(call.args)
  BY <1>1, LenProperties
<1>3. call.args[pi + 1] \in Argument
  BY <1>1, <1>2, ElementOfSeq
<1> QED BY <1>3 DEF Argument

LEMMA ConvertStringTyped ==
    ASSUME TInv, convert_string
    PROVE  TypeOK'
<1>1. /\ si' \in Nat \ {0} /\ pi' \in Nat /\ call' = call /\ output' = << >>
      /\ pc = "text" /\ TypeOK
  BY ConvertingTyped DEF convert_string
<1>2. call.args[pi + 1].str \in Seq(0..255)
  BY <1>1, ArgumentTyped DEF convert_string
<1>3. buffer' \in Seq(0..255) /\ Len(buffer') < BufferSize /\ pc' \in {"text", "overrun"}
  BY <1>1, <1>2, PutTyped DEF convert_string
<1> QED BY <1>1, <1>3 DEF convert_string, TypeOK

LEMMA ConvertNumberTyped ==
    ASSUME TInv, convert_number
    PROVE  TypeOK'
<1>1. /\ si' \in Nat \ {0} /\ pi' \in Nat /\ call' = call /\ output' = << >>
      /\ pc = "text" /\ TypeOK
  BY ConvertingTyped DEF convert_number
<1> DEFINE v == call.args[pi + 1].int
           prefix == Letter = LetterX /\ Conversion.pp
           w == Conversion.w
           bytes == IF prefix THEN <<Zero, LetterX>> ELSE << >>
           next == IF Letter = LetterD THEN "render10" ELSE "render16"
<1>2. v \in Int32
  BY <1>1, ArgumentTyped DEF convert_number
<1>3. /\ Put(bytes, next)
      /\ field' = [ w |-> IF prefix THEN IF w > 2 THEN w - 2 ELSE 0 ELSE w,
                    zp |-> Conversion.zp, pp |-> prefix ]
      /\ neg' = (Letter = LetterD /\ v < 0)
      /\ val' = IF neg' THEN Negated(v) ELSE v
      /\ c' = IF Letter = LetterD THEN 0 ELSE 9
      /\ pb' = [k \in 0..9 |-> Zero]
  BY DEF convert_number
<1>4. bytes \in Seq(0..255)
  <2>1. << >> \in Seq(0..255) /\ <<Zero, LetterX>> \in Seq(0..255)
    BY DEF Zero, LetterX
  <2> HIDE DEF prefix
  <2> QED BY <2>1
<1>5. /\ buffer' \in Seq(0..255) /\ Len(buffer') < BufferSize
      /\ pc' \in {"render10", "render16", "overrun"}
      /\ c' \in 0..10 /\ (pc' = "render16" => c' \in 1..9)
  <2> HIDE DEF bytes
  <2>1. pc' \in {next, "overrun"} /\ buffer' \in Seq(0..255) /\ Len(buffer') < BufferSize
    BY <1>1, <1>3, <1>4, PutTyped
  <2> QED BY <1>3, <2>1
<1>6. field' \in [w : 0..99, zp : BOOLEAN, pp : BOOLEAN]
  <2>1. w \in 0..99 /\ Conversion.zp \in BOOLEAN /\ prefix \in BOOLEAN
    BY <1>1, ConversionTyped
  <2> HIDE DEF prefix, w
  <2>2. (IF prefix THEN IF w > 2 THEN w - 2 ELSE 0 ELSE w) \in 0..99
    BY <2>1
  <2> QED BY <1>3, <2>1, <2>2
<1>7. val' \in Int32
  <2>1. Negated(v) \in Int32
    BY <1>2, Bounds DEF Int32, Negated
  <2> QED BY <1>2, <1>3, <2>1
<1>8. neg' \in BOOLEAN /\ pb' \in [0..9 -> 0..255]
  BY <1>3 DEF Zero
<1> QED BY <1>1, <1>5, <1>6, <1>7, <1>8 DEF TypeOK

\* Conversions that print nothing, and the end.
LEMMA QuietTyped ==
    ASSUME TInv, convert_nothing \/ convert_beyond \/ finish
    PROVE  TypeOK'
<1>1. CASE convert_nothing
  <2>1. /\ si' \in Nat \ {0} /\ pi' \in Nat /\ call' = call /\ output' = << >>
        /\ pc = "text" /\ TypeOK
    BY <1>1, ConvertingTyped DEF convert_nothing
  <2> QED BY <1>1, <2>1 DEF convert_nothing, TypeOK
<1>2. CASE convert_beyond
  <2>1. /\ si' \in Nat \ {0} /\ pi' \in Nat /\ call' = call /\ output' = << >>
        /\ pc = "text" /\ TypeOK
    BY <1>2, ConvertingTyped DEF convert_beyond
  <2> QED BY <1>2, <2>1 DEF convert_beyond, TypeOK
<1>3. CASE finish
  BY <1>3 DEF finish, TInv, TypeOK
<1> QED BY <1>1, <1>2, <1>3

\* A digit that is counted up is still one, as RendersExactly needs, too.
LEMMA DecimalTyped ==
    ASSUME TInv, IInv', subtract \/ next_digit \/ sign
    PROVE  TypeOK'
<1>1. TypeOK /\ output = << >> /\ c \in 0..10 /\ val \in Int32
  BY DEF TInv, TypeOK, subtract, next_digit, sign
<1>2. CASE subtract
  <2>1. c \in 0..9 /\ val >= Power[c] /\ val' = val - Power[c]
    BY <1>1, <1>2 DEF subtract
  <2>2. Power[c] \in Nat \ {0}
    BY <2>1, PowerSteps
  <2>3. val' \in Int32
    BY <1>1, <2>1, <2>2, Bounds DEF Int32
  <2>4. pc' = "render10" /\ pb' \in Digits
    BY <1>2 DEF IInv, Rendering, subtract
  <2>5. pb' \in [0..9 -> 0..255]
    BY <2>4 DEF Digits, Zero
  <2> QED BY <1>1, <1>2, <2>3, <2>5 DEF subtract, TypeOK
<1>3. CASE next_digit
  BY <1>1, <1>3 DEF next_digit, TypeOK
<1>4. CASE sign
  <2>1. pb \in [0..9 -> 0..255]
    BY <1>1 DEF TypeOK
  <2>2. pb' = IF neg THEN [k \in 0..9 |-> IF k < 9 /\ FirstDigit(k + 1) THEN Minus ELSE pb[k]]
              ELSE pb
    BY <1>4 DEF sign
  <2>3. pb' \in [0..9 -> 0..255]
    BY <2>1, <2>2 DEF Minus
  <2> QED BY <1>1, <1>4, <2>3 DEF sign, TypeOK
<1> QED BY <1>2, <1>3, <1>4

\* A shift brings the value into what is left of 32 bits.
LEMMA NibbleTyped ==
    ASSUME TInv, nibble
    PROVE  TypeOK'
<1>1. /\ TypeOK /\ output = << >> /\ c \in 1..9 /\ val \in Int32
      /\ pb \in [0..9 -> 0..255]
  BY DEF TInv, TypeOK, nibble
<1>2. val \in Int
  BY <1>1, Bounds DEF Int32
<1>3. val % 16 \in 0..15
  BY <1>2
<1> DEFINE d == LET v == val % 16 IN IF v < 10 THEN Zero + v ELSE LetterA + v - 10
<1>4. d \in 0..255
  BY <1>3 DEF Zero, LetterA
<1>5. val' \in Int32
  <2>1. IntMin <= val /\ val <= IntMax
    BY <1>1, Bounds DEF Int32
  <2>2. IntMin <= ShiftedRight4(val) /\ ShiftedRight4(val) <= IntMax
    BY SMT, <1>2, <2>1 DEF ShiftedRight4, IntMin, IntMax
  <2>3. ShiftedRight4(val) \in Int32
    <3>1. ShiftedRight4(val) \in Int
      BY SMT, <1>2 DEF ShiftedRight4
    <3> QED BY <2>2, <3>1, Bounds DEF Int32
  <2> QED BY <2>3 DEF nibble
<1>6. pb' = [pb EXCEPT ![c] = d] /\ c' = c - 1 /\ pc' = IF c = 1 THEN "emit" ELSE "render16"
  BY DEF nibble
<1>7. pb' \in [0..9 -> 0..255]
  <2> HIDE DEF d
  <2> QED BY <1>1, <1>4, <1>6
<1>8. c' \in 0..10 /\ (pc' = "render16" => c' \in 1..9) /\ pc' \in {"emit", "render16"}
  BY <1>1, <1>6
<1>9. UNCHANGED <<call, si, pi, field, neg, buffer, output>>
  BY DEF nibble
<1> QED BY <1>1, <1>5, <1>7, <1>8, <1>9 DEF TypeOK

LEMMA EmitTyped ==
    ASSUME TInv, emit
    PROVE  TypeOK'
<1>1. TypeOK /\ output = << >>
  BY DEF TInv, emit
<1>2. Put(Rendered, "text")
  BY DEF emit
<1>3. buffer' \in Seq(0..255) /\ Len(buffer') < BufferSize /\ pc' \in {"text", "overrun"}
  BY <1>1, <1>2, RenderedTyped, PutTyped
<1> QED BY <1>1, <1>3 DEF emit, TypeOK

-----------------------------------------------------------------------------

\* For every call printf's buffer has room for what is in it and the zero
\* behind, every place that __render10 and __render16 write is one of the ten
\* of their buffer and gets a byte, values stay within 32 bits and widths
\* within two digits, and only the finished buffer is written.
THEOREM PrintfTyped == Spec => []TypeOK
<1>1. Init => TInv
  BY InitTyped
<1>2. TInv /\ [Next]_vars => TInv'
  <2>1. SUFFICES ASSUME TInv, [Next]_vars
                 PROVE  TInv'
    OBVIOUS
  <2>2. IInv'
    BY <2>1, ConvertNumberRenders, SubtractRenders, NextDigitRenders, OtherStepsRender
    DEF Next, TInv
  <2>3. TypeOK'
    <3>1. CASE UNCHANGED vars
      BY <2>1, <3>1 DEF vars, TInv, TypeOK
    <3> QED BY <2>1, <2>2, <3>1, TextTyped, ConvertStringTyped, ConvertNumberTyped,
              QuietTyped, DecimalTyped, NibbleTyped, EmitTyped DEF Next
  <2>4. pc' /= "returned" => output' = << >>
    BY <2>1 DEF TInv, Next, vars, text, convert_string, convert_number, convert_nothing,
       convert_beyond, finish, subtract, next_digit, sign, nibble, emit, Converting
  <2> QED BY <2>2, <2>3, <2>4 DEF TInv
<1>3. TInv => TypeOK
  BY DEF TInv
<1> QED BY <1>1, <1>2, <1>3, PTL DEF Spec

=============================================================================
