----------------------------- MODULE ClibProofs -----------------------------
(***************************************************************************)
(* Proof that the functions of Clib implement ClibContract, for memories   *)
(* of any size, any calls and any files.  The loops are byte-wise; each    *)
(* has an invariant about the bytes it has passed.                         *)
(***************************************************************************)
EXTENDS Clib, TLAPS

\* The addresses of the first k bytes at p are all in the memory.
Reached(p, k) == \A j \in 0..(k - 1) : p + j \in Addresses

\* The memory differs from that of the call only from lo up to hi - 1.
ChangedOnly(lo, hi) == \A x \in Addresses : x < lo \/ x >= hi => mem[x] = start[x]

\* No zero among the first k bytes at p.
NoZero(p, k) == \A j \in 0..(k - 1) : start[p + j] /= 0

\* The first k bytes at p and at q were the same.
Equal(p, q, k) == \A j \in 0..(k - 1) : start[p + j] = start[q + j]

Inside == a > b /\ \A k \in 0..(a - b - 1) : b + k \in Addresses /\ start[b + k] /= 0

StrlenInv == mem = start /\ Reached(a, i) /\ NoZero(a, i)

FputsInv == StrlenInv /\ output = [k \in 1..i |-> start[a + k - 1]]

StrncmpInv == mem = start /\ Reached(a, i) /\ Reached(b, i) /\ Equal(a, b, i)

StrcmpInv == StrncmpInv /\ NoZero(a, i)

\* A copy that starts inside of its source has not met a zero, and will not.
StrcpyInv ==
    /\ Reached(a, i) /\ Reached(b, i) /\ ChangedOnly(a, a + i)
    /\ \A k \in 0..(i - 1) : mem[a + k] /= 0
    /\ ~Inside => NoZero(b, i) /\ \A k \in 0..(i - 1) : mem[a + k] = start[b + k]

\* Byte k of what strncpy makes.
Filled(k) == IF \E j \in 0..(k - 1) : start[b + j] = 0 THEN 0 ELSE start[b + k]

StrncpyInv ==
    /\ Reached(a, i) /\ ChangedOnly(a, a + i)
    /\ ~beyond => Reached(b, i)
    /\ ~(b < a /\ a < b + n) =>
           /\ \A k \in 0..(i - 1) : mem[a + k] = Filled(k)
           /\ beyond <=> \E k \in 0..(i - 1) : start[b + k] = 0

MemcpyInv ==
    /\ \A k \in i..(n - 1) : a + k \in Addresses /\ b + k \in Addresses
    /\ ChangedOnly(a + i, a + n)
    /\ ~(a < b /\ b < a + n) => \A k \in i..(n - 1) : mem[a + k] = start[b + k]

FgetsInv ==
    /\ offset = i /\ Reached(a, i) /\ ChangedOnly(a, a + i)
    /\ \A k \in 1..i : contents[k] \notin {NewLine, NoByte}
    /\ \A k \in 0..(i - 1) : mem[a + k] = contents[k + 1]

\* A function that runs has its loop invariant; only fgets reads and only
\* fputs writes.
LoopInv ==
    /\ pc = "strlen" => StrlenInv
    /\ pc = "fputs" => FputsInv
    /\ pc = "strcmp" => StrcmpInv
    /\ pc = "strncmp" => StrncmpInv
    /\ pc = "strcpy" => StrcpyInv
    /\ pc = "strncpy" => StrncpyInv
    /\ pc = "memcpy" => MemcpyInv
    /\ pc = "fgets" => FgetsInv
    /\ pc /= "fgets" /\ pc = call.fn => offset = 0
    /\ pc /= "fputs" /\ pc = call.fn => output = <<>>

IInv == TypeOK /\ LoopInv

\* One step of the contract, or none.
ContractStep == [Contract!Return \/ Contract!Crash]_Contract!vars

Same == UNCHANGED <<contents, call, start>>

-----------------------------------------------------------------------------
(* The steps as they appear to the contract.                               *)

LEMMA Types ==
    ASSUME IInv
    PROVE  /\ call.fn \in Functions /\ a \in Nat /\ b \in Nat /\ n \in Nat
           /\ \A x \in Addresses : x \in Nat \ {0} /\ mem[x] \in Byte /\ start[x] \in Byte
           /\ i \in Nat
           /\ pc \notin Functions => pc \in {"returned", "fault"}
           /\ pc \in Functions => pc = call.fn
BY ClibAssumption DEF IInv, TypeOK, a, b, n, Functions

LEMMA Bytes == 0 \in Byte /\ \A x \in Byte : x \in Nat
BY DEF Byte

\* A round of a loop.
LEMMA AgainStutters ==
    ASSUME IInv, pc \in Functions, Same, pc' = pc
    PROVE  ContractStep
<1>1. pc = call.fn /\ pc' = call'.fn /\ pc /= "returned" /\ pc' /= "returned"
  BY Types DEF Same, Functions
<1>2. UNCHANGED Contract!vars
  BY <1>1 DEF Contract!vars, returned, Same
<1> QED BY <1>2 DEF ContractStep

\* An access outside of the memory.
LEMMA FaultCrashes ==
    ASSUME IInv, pc \in Functions, Same, pc' = "fault", Contract!Unsafe
    PROVE  ContractStep
<1>1. pc = call.fn /\ pc' /= call'.fn /\ pc /= "returned" /\ pc' /= "returned"
  BY Types DEF Same, Functions
<1>2. Contract!Crash
  BY <1>1 DEF Contract!Crash, returned, Same
<1> QED BY <1>2 DEF ContractStep

\* The return of a function.
LEMMA ReturnReturns ==
    ASSUME IInv, pc \in Functions, Same, pc' = "returned",
           CASE call.fn = "strlen" -> Contract!Strlen
             [] call.fn = "strcmp" -> Contract!Strcmp
             [] call.fn = "strncmp" -> Contract!Strncmp
             [] call.fn = "strcpy" -> Contract!Strcpy
             [] call.fn = "strncpy" -> Contract!Strncpy
             [] call.fn = "memcpy" -> Contract!Memcpy
             [] call.fn = "fgets" -> Contract!Fgets
             [] call.fn = "fputs" -> Contract!Fputs
    PROVE  ContractStep
<1>1. pc = call.fn /\ pc' /= call'.fn /\ pc /= "returned"
  BY Types DEF Same, Functions
<1>2. Contract!Return
  BY <1>1 DEF Contract!Return, Same
<1> QED BY <1>2 DEF ContractStep

\* The first zero is the end of the string, and there is none if the memory
\* ends before.
LEMMA StringLength ==
    ASSUME NEW p \in Nat, NEW k \in Nat, Reached(p, k), NoZero(p, k), pc /= "returned"
    PROVE  /\ p + k \in Addresses /\ start[p + k] = 0 =>
                  Contract!IsString(p, k) /\ k \in Contract!Lengths(p)
           /\ p + k \notin Addresses =>
                  \A len \in Contract!Lengths(p) : ~Contract!IsString(p, len)
<1>1. ASSUME p + k \in Addresses, start[p + k] = 0
      PROVE  Contract!IsString(p, k) /\ k \in Contract!Lengths(p)
  <2>1. Contract!Within(p, k + 1)
    BY <1>1 DEF Contract!Within, Reached
  <2>2. k = (p + k) - p
    OBVIOUS
  <2> QED BY <1>1, <2>1, <2>2 DEF Contract!IsString, Contract!Lengths, NoZero, returned
<1>2. ASSUME p + k \notin Addresses,
             NEW len \in Contract!Lengths(p), Contract!IsString(p, len)
      PROVE  FALSE
  <2>1. len \in Nat /\ start[p + len] = 0 /\ \A j \in 0..len : p + j \in Addresses
    BY <1>2 DEF Contract!IsString, Contract!Within, Contract!Lengths, returned
  <2>2. CASE len < k
    BY <2>1, <2>2 DEF NoZero
  <2>3. CASE len >= k
    BY <1>2, <2>1, <2>3
  <2> QED BY <2>1, <2>2, <2>3
<1> QED BY <1>1, <1>2

\* Signed or not, the chars of two bytes are the same only for the same byte.
LEMMA Chars ==
    /\ \A x \in Byte : Char(x) \in Int
    /\ \A x, y \in Byte : Char(x) = Char(y) => x = y
<1>1. ASSUME NEW x \in Byte, NEW y \in Byte
      PROVE  Char(x) \in Int /\ (Char(x) = Char(y) => x = y)
  <2>1. x \in Int /\ y \in Int /\ x \in 0..255 /\ y \in 0..255
    BY DEF Byte
  <2>2. CASE call.signed
    <3>1. Char(x) = IF x > 127 THEN x - 256 ELSE x
      BY <2>2 DEF Char
    <3>2. Char(y) = IF y > 127 THEN y - 256 ELSE y
      BY <2>2 DEF Char
    <3> QED BY <2>1, <3>1, <3>2
  <2>3. CASE ~call.signed
    <3>1. Char(x) = x /\ Char(y) = y
      BY <2>3 DEF Char
    <3> QED BY <2>1, <3>1
  <2> QED BY <2>2, <2>3
<1> QED BY <1>1

\* One byte more.
LEMMA OneMoreByte ==
    ASSUME NEW p \in Nat, NEW k \in Nat, p + k \in Addresses
    PROVE  /\ Reached(p, k) => Reached(p, k + 1)
           /\ NoZero(p, k) /\ start[p + k] /= 0 => NoZero(p, k + 1)
           /\ \A q \in Nat : Equal(p, q, k) /\ start[p + k] = start[q + k] => Equal(p, q, k + 1)
<1>1. \A j \in 0..(k + 1 - 1) : j \in 0..(k - 1) \/ j = k
  OBVIOUS
<1> QED BY <1>1 DEF Reached, NoZero, Equal

\* A function that has ended keeps nothing but the types.
LEMMA EndKeeps ==
    ASSUME IInv, pc \in Functions, Same, TypeOK', pc' \in {"returned", "fault"}
    PROVE  IInv'
BY Types DEF IInv, LoopInv, Functions, Same

\* The equal bytes that have been passed decide nothing; the first that differ
\* decide that the strings do.
LEMMA FirstDifference ==
    ASSUME NEW p \in Nat, NEW q \in Nat, NEW k \in Nat, NoZero(p, k),
           start[p + k] /= start[q + k],
           NEW len \in Nat, start[p + len] = 0, start[q + len] = 0,
           \A j \in 0..(len - 1) :
               start[p + j] /= 0 /\ start[q + j] /= 0 /\ start[p + j] = start[q + j]
    PROVE  FALSE
<1>1. CASE len < k
  BY <1>1 DEF NoZero
<1>2. CASE len >= k
  BY <1>2
<1> QED BY <1>1, <1>2

-----------------------------------------------------------------------------
(* The functions.                                                          *)

LEMMA StrlenStep ==
    ASSUME IInv, strlen, Same
    PROVE  IInv' /\ ContractStep
<1> USE Types
<1>1. pc = "strlen" /\ call.fn = "strlen" /\ StrlenInv /\ UNCHANGED <<offset, output, beyond>>
  BY DEF strlen, IInv, LoopInv, Functions, Accessing, InMemory
<1>2. ASSUME a + i \notin Addresses PROVE IInv' /\ ContractStep
  <2>1. pc' = "fault" /\ UNCHANGED <<mem, i, result>>
    BY <1>2 DEF strlen, Accessing
  <2>2. IInv'
    BY <1>1, <2>1 DEF IInv, TypeOK, LoopInv, Same, Functions, a, b, n
  <2>3. Contract!Unsafe
    BY <1>1, <1>2, StringLength DEF Contract!Unsafe, Contract!Ends, StrlenInv, Contract!a, a
  <2> QED BY <1>1, <2>1, <2>2, <2>3, FaultCrashes DEF Functions
<1>3. ASSUME a + i \in Addresses, mem[a + i] /= 0 PROVE IInv' /\ ContractStep
  <2>1. mem' = mem /\ i' = i + 1 /\ UNCHANGED <<pc, result>>
    BY <1>3 DEF strlen, Accessing, Again
  <2>2. StrlenInv'
    BY <1>1, <1>3, <2>1 DEF StrlenInv, Reached, NoZero, Same, a
  <2>3. IInv'
    BY <1>1, <2>1, <2>2 DEF IInv, TypeOK, LoopInv, Same, Functions, a, b, n
  <2> QED BY <1>1, <2>1, <2>3, AgainStutters DEF Functions
<1>4. ASSUME a + i \in Addresses, mem[a + i] = 0 PROVE IInv' /\ ContractStep
  <2>1. mem' = mem /\ i' = i /\ pc' = "returned" /\ result' = i
    BY <1>4 DEF strlen, Accessing, Return
  <2>2. IInv'
    BY <1>1, <2>1 DEF IInv, TypeOK, LoopInv, Same, Functions, a, b, n
  <2>3. Contract!IsString(a, i) /\ i \in Contract!Lengths(a)
    BY <1>1, <1>4, StringLength DEF StrlenInv
  <2>4. Contract!Strlen
    BY <1>1, <2>1, <2>3 DEF Contract!Strlen, Contract!Reads, Contract!a, a, returned, StrlenInv, Same, IInv, LoopInv
  <2> QED BY <1>1, <2>1, <2>2, <2>4, ReturnReturns DEF Functions
<1> QED BY <1>2, <1>3, <1>4

LEMMA StrncmpStep ==
    ASSUME IInv, strncmp, Same
    PROVE  IInv' /\ ContractStep
<1> USE Types
<1>1. /\ pc = "strncmp" /\ call.fn = "strncmp" /\ StrncmpInv /\ UNCHANGED <<offset, output, beyond>>
      /\ i <= n /\ offset = 0 /\ output = <<>> /\ pc /= "returned"
  BY DEF strncmp, IInv, TypeOK, LoopInv, Functions, Accessing, InMemory
<1>2. ASSUME i < n, ~({a + i, b + i} \subseteq Addresses) PROVE IInv' /\ ContractStep
  <2>1. pc' = "fault" /\ UNCHANGED <<mem, i, result>>
    BY <1>2 DEF strncmp, Accessing
  <2>2. TypeOK'
    BY <1>1, <2>1 DEF IInv, TypeOK, Same, a, b, n
  <2>3. Contract!Unsafe
    BY <1>1, <1>2 DEF Contract!Unsafe, Contract!Within, Contract!a, Contract!b, Contract!n, a, b, n
  <2> QED BY <1>1, <2>1, <2>2, <2>3, EndKeeps, FaultCrashes DEF Functions
<1>3. ASSUME i < n, {a + i, b + i} \subseteq Addresses, mem[a + i] = mem[b + i]
      PROVE  IInv' /\ ContractStep
  <2>1. mem' = mem /\ i' = i + 1 /\ UNCHANGED <<pc, result>>
    <3>1. Char(mem[a + i]) \in Int /\ Char(mem[a + i]) = Char(mem[b + i])
      BY <1>3, Bytes, Chars
    <3> QED BY <1>3, <3>1, Bytes DEF strncmp, Accessing, Again
  <2>2. StrncmpInv'
    <3>1. Reached(a, i + 1) /\ Reached(b, i + 1) /\ Equal(a, b, i + 1)
      BY <1>1, <1>3, OneMoreByte DEF StrncmpInv
    <3>2. a' = a /\ b' = b /\ start' = start
      BY DEF a, b, Same
    <3> QED BY <1>1, <2>1, <3>1, <3>2 DEF StrncmpInv, Reached, Equal
  <2>3. IInv'
    BY <1>1, <1>3, <2>1, <2>2 DEF IInv, TypeOK, LoopInv, Same, Functions, a, b, n
  <2> QED BY <1>1, <2>1, <2>3, AgainStutters DEF Functions
<1>4. ASSUME i < n, {a + i, b + i} \subseteq Addresses, mem[a + i] /= mem[b + i]
      PROVE  IInv' /\ ContractStep
  <2>1. mem' = mem /\ i' = i /\ pc' = "returned" /\ result' \in Int /\ result' /= 0
    <3>1. /\ Char(mem[a + i]) \in Int /\ Char(mem[b + i]) \in Int
          /\ Char(mem[a + i]) /= Char(mem[b + i])
      BY <1>4, Chars, Bytes
    <3> QED BY <1>4, <3>1 DEF strncmp, Accessing, Return
  <2>2. TypeOK'
    BY <1>1, <2>1 DEF IInv, TypeOK, Same, a, b, n
  <2>3. ~Contract!SameBytes(n)
    BY <1>1, <1>4, SMTT(30) DEF Contract!SameBytes, StrncmpInv, Equal, Contract!a, Contract!b, a, b, returned
  <2>4. Contract!Strncmp
    BY <1>1, <2>1, <2>3 DEF Contract!Strncmp, Contract!Reads, Contract!n, n, returned, StrncmpInv
  <2> QED BY <1>1, <2>1, <2>2, <2>4, EndKeeps, ReturnReturns DEF Functions
<1>5. ASSUME ~(i < n) PROVE IInv' /\ ContractStep
  <2>1. mem' = mem /\ i' = i /\ pc' = "returned" /\ result' = 0 /\ i = n
    BY <1>1, <1>5 DEF strncmp, Return
  <2>2. TypeOK'
    BY <1>1, <2>1 DEF IInv, TypeOK, Same, a, b, n
  <2>3. Contract!SameBytes(n)
    BY <1>1, <2>1 DEF Contract!SameBytes, Contract!Within, StrncmpInv, Equal, Reached, Contract!a, Contract!b,
                      a, b, returned
  <2>4. Contract!Strncmp
    BY <1>1, <2>1, <2>3 DEF Contract!Strncmp, Contract!Reads, Contract!n, n, returned, StrncmpInv
  <2> QED BY <1>1, <2>1, <2>2, <2>4, EndKeeps, ReturnReturns DEF Functions
<1> QED BY <1>2, <1>3, <1>4, <1>5

LEMMA StrcmpStep ==
    ASSUME IInv, strcmp, Same
    PROVE  IInv' /\ ContractStep
<1> USE Types
<1>1. /\ pc = "strcmp" /\ call.fn = "strcmp" /\ StrcmpInv /\ UNCHANGED <<offset, output, beyond>>
      /\ offset = 0 /\ output = <<>> /\ pc /= "returned"
  BY DEF strcmp, IInv, TypeOK, LoopInv, Functions, Accessing, InMemory
<1>2. ASSUME ~({a + i, b + i} \subseteq Addresses) PROVE IInv' /\ ContractStep
  <2>1. pc' = "fault" /\ UNCHANGED <<mem, i, result>>
    BY <1>2 DEF strcmp, Accessing
  <2>2. TypeOK'
    BY <1>1, <2>1 DEF IInv, TypeOK, Same, a, b, n
  <2>3. ASSUME NEW len \in Contract!Lengths(a), Contract!Decided(len) PROVE FALSE
    <3>1. /\ len \in Nat /\ a + len \in Addresses /\ b + len \in Addresses
          /\ \A k \in 0..(len - 1) : a + k \in Addresses /\ b + k \in Addresses
          /\ start[a + len] = 0 \/ start[b + len] = 0 \/ start[a + len] /= start[b + len]
      BY <1>1, <2>3 DEF Contract!Decided, Contract!Lengths, Contract!SameBytes, Contract!Within,
                        Contract!a, Contract!b, a, b, returned
    <3>2. CASE len < i
      BY <1>1, <3>1, <3>2 DEF StrcmpInv, StrncmpInv, Equal, NoZero
    <3>3. CASE len >= i
      BY <1>2, <3>1, <3>3
    <3> QED BY <3>1, <3>2, <3>3
  <2>4. Contract!Unsafe
    BY <1>1, <2>3 DEF Contract!Unsafe, Contract!a, a
  <2> QED BY <1>1, <2>1, <2>2, <2>4, EndKeeps, FaultCrashes DEF Functions
<1>3. ASSUME {a + i, b + i} \subseteq Addresses, mem[a + i] = mem[b + i], mem[a + i] /= 0
      PROVE  IInv' /\ ContractStep
  <2>1. mem' = mem /\ i' = i + 1 /\ UNCHANGED <<pc, result>>
    <3>1. /\ Char(mem[a + i]) \in Int /\ Char(mem[a + i]) = Char(mem[b + i])
          /\ mem[a + i] /= 0 /\ mem[b + i] /= 0
      BY <1>3, Bytes, Chars
    <3> QED BY <1>3, <3>1, Bytes DEF strcmp, Accessing, Again
  <2>2. StrcmpInv'
    <3>1. Reached(a, i + 1) /\ Reached(b, i + 1) /\ Equal(a, b, i + 1) /\ NoZero(a, i + 1)
      BY <1>1, <1>3, OneMoreByte DEF StrcmpInv, StrncmpInv
    <3>2. a' = a /\ b' = b /\ start' = start
      BY DEF a, b, Same
    <3> QED BY <1>1, <2>1, <3>1, <3>2 DEF StrcmpInv, StrncmpInv, Reached, Equal, NoZero
  <2>3. IInv'
    BY <1>1, <1>3, <2>1, <2>2 DEF IInv, TypeOK, LoopInv, Same, Functions, a, b, n
  <2> QED BY <1>1, <2>1, <2>3, AgainStutters DEF Functions
<1>4. ASSUME {a + i, b + i} \subseteq Addresses, mem[a + i] /= mem[b + i]
      PROVE  IInv' /\ ContractStep
  <2>1. mem' = mem /\ i' = i /\ pc' = "returned" /\ result' \in Int /\ result' /= 0
    <3>1. /\ Char(mem[a + i]) \in Int /\ Char(mem[b + i]) \in Int
          /\ Char(mem[a + i]) /= Char(mem[b + i])
      BY <1>4, Chars, Bytes
    <3> QED BY <1>4, <3>1 DEF strcmp, Accessing, Return
  <2>2. TypeOK'
    BY <1>1, <2>1 DEF IInv, TypeOK, Same, a, b, n
  <2>3. ~Contract!SameStrings
    <3>1. SUFFICES ASSUME NEW len \in Contract!Lengths(a), Contract!IsString(a, len),
                          Contract!IsString(b, len), Contract!SameBytes(len)
                   PROVE  FALSE
      BY DEF Contract!SameStrings, Contract!a, Contract!b, a, b
    <3>2. /\ len \in Nat /\ start[a + len] = 0 /\ start[b + len] = 0
          /\ \A j \in 0..(len - 1) :
                 start[a + j] /= 0 /\ start[b + j] /= 0 /\ start[a + j] = start[b + j]
      BY <1>1, <3>1 DEF Contract!IsString, Contract!Lengths, Contract!SameBytes, Contract!a, Contract!b,
                        a, b, returned
    <3> QED BY <1>1, <1>4, <3>2, FirstDifference DEF StrcmpInv, StrncmpInv
  <2>4. Contract!Strcmp
    BY <1>1, <2>1, <2>3 DEF Contract!Strcmp, Contract!Reads, returned, StrcmpInv, StrncmpInv
  <2> QED BY <1>1, <2>1, <2>2, <2>4, EndKeeps, ReturnReturns DEF Functions
<1>5. ASSUME {a + i, b + i} \subseteq Addresses, mem[a + i] = mem[b + i], mem[a + i] = 0
      PROVE  IInv' /\ ContractStep
  <2>1. mem' = mem /\ i' = i /\ pc' = "returned" /\ result' = 0
    <3>1. Char(mem[b + i]) - Char(mem[a + i]) = 0
      <4>1. Char(mem[a + i]) \in Int /\ Char(mem[a + i]) = Char(mem[b + i])
        BY <1>5, Bytes, Chars
      <4> QED BY <4>1
    <3> QED BY <1>5, <3>1 DEF strcmp, Accessing, Return
  <2>2. TypeOK'
    BY <1>1, <2>1 DEF IInv, TypeOK, Same, a, b, n
  <2>3. NoZero(b, i)
    BY <1>1 DEF StrcmpInv, StrncmpInv, Equal, NoZero
  <2>4. Contract!IsString(a, i) /\ Contract!IsString(b, i) /\ i \in Contract!Lengths(a)
    BY <1>1, <1>5, <2>3, StringLength DEF StrcmpInv, StrncmpInv
  <2>5. Contract!SameBytes(i)
    BY <1>1 DEF Contract!SameBytes, Contract!Within, StrcmpInv, StrncmpInv, Equal, Reached, Contract!a,
                Contract!b, a, b, returned
  <2>6. Contract!SameStrings
    BY <2>4, <2>5 DEF Contract!SameStrings, Contract!a, Contract!b, a, b
  <2>7. Contract!Strcmp
    BY <1>1, <2>1, <2>6 DEF Contract!Strcmp, Contract!Reads, returned, StrcmpInv, StrncmpInv
  <2> QED BY <1>1, <2>1, <2>2, <2>7, EndKeeps, ReturnReturns DEF Functions
<1> QED BY <1>2, <1>3, <1>4, <1>5

\* A function that has been stored into at p.
LEMMA PutValues ==
    ASSUME IInv, NEW p \in Addresses, NEW v \in Byte, mem' = Put(p, v)
    PROVE  /\ mem' \in [Addresses -> Byte]
           /\ \A x \in Addresses : mem'[x] = IF x = p THEN v ELSE mem[x]
BY DEF Put, IInv, TypeOK

\* The byte that strcpy reads is the one of the source, unless the copy starts
\* inside of it: then it is not zero.
LEMMA StrcpyReads ==
    ASSUME IInv, StrcpyInv, b + i \in Addresses
    PROVE  /\ ~Inside => mem[b + i] = start[b + i]
           /\ Inside => mem[b + i] /= 0
<1> USE Types
<1>1. ASSUME ~Inside, a > b, b + i >= a PROVE FALSE
  <2>1. \A k \in 0..(a - b - 1) : k \in 0..(i - 1)
    BY <1>1
  <2> QED BY <1>1, <2>1 DEF StrcpyInv, Inside, Reached, NoZero
<1>2. ~Inside => b + i < a \/ b + i >= a + i
  BY <1>1
<1>3. ~Inside => mem[b + i] = start[b + i]
  BY <1>2 DEF StrcpyInv, ChangedOnly
<1>4. ASSUME Inside, b + i < a PROVE mem[b + i] /= 0
  <2>1. i \in 0..(a - b - 1)
    BY <1>4
  <2>2. start[b + i] /= 0
    BY <1>4, <2>1 DEF Inside
  <2> QED BY <1>4, <2>2 DEF StrcpyInv, ChangedOnly
<1>5. ASSUME Inside, b + i >= a PROVE mem[b + i] /= 0
  <2>1. b + i - a \in 0..(i - 1) /\ a + (b + i - a) = b + i
    BY <1>5 DEF Inside
  <2> QED BY <2>1 DEF StrcpyInv
<1> QED BY <1>3, <1>4, <1>5

LEMMA StrcpyStep ==
    ASSUME IInv, strcpy, Same
    PROVE  IInv' /\ ContractStep
<1> USE Types
<1>1. /\ pc = "strcpy" /\ call.fn = "strcpy" /\ StrcpyInv /\ UNCHANGED <<offset, output, beyond>>
      /\ offset = 0 /\ output = <<>> /\ pc /= "returned"
  BY DEF strcpy, IInv, LoopInv, Functions, Accessing, InMemory
<1>2. Contract!StartsInside <=> Inside
  BY <1>1 DEF Contract!StartsInside, Inside, Contract!a, Contract!b, a, b, returned
<1>3. ASSUME ~({a + i, b + i} \subseteq Addresses) PROVE IInv' /\ ContractStep
  <2>1. pc' = "fault" /\ UNCHANGED <<mem, i, result>>
    BY <1>3 DEF strcpy, Accessing
  <2>2. TypeOK'
    BY <1>1, <2>1 DEF IInv, TypeOK, Same, a, b, n
  <2>3. ASSUME ~Inside, NEW len \in Contract!Lengths(b), Contract!IsString(b, len),
               Contract!Within(a, len + 1)
        PROVE  FALSE
    <3>1. /\ len \in Nat /\ start[b + len] = 0
          /\ \A j \in 0..len : a + j \in Addresses /\ b + j \in Addresses
      <4>1. len \in Nat
        BY <2>3 DEF Contract!Lengths
      <4>2. Contract!Within(b, len + 1) /\ start[b + len] = 0
        BY <1>1, <2>3 DEF Contract!IsString, returned
      <4>3. \A j \in 0..len : j \in 0..((len + 1) - 1)
        BY <4>1
      <4> QED BY <2>3, <4>1, <4>2, <4>3 DEF Contract!Within
    <3>2. CASE len < i
      BY <1>1, <2>3, <3>1, <3>2 DEF StrcpyInv, NoZero
    <3>3. CASE len >= i
      BY <1>3, <3>1, <3>3
    <3> QED BY <3>1, <3>2, <3>3
  <2>4. Contract!Unsafe
    BY <1>1, <1>2, <2>3 DEF Contract!Unsafe, Contract!a, Contract!b, a, b
  <2> QED BY <1>1, <2>1, <2>2, <2>4, EndKeeps, FaultCrashes DEF Functions
<1>4. ASSUME {a + i, b + i} \subseteq Addresses, mem[b + i] /= 0 PROVE IInv' /\ ContractStep
  <2>1. mem' = Put(a + i, mem[b + i]) /\ i' = i + 1 /\ UNCHANGED <<pc, result>>
    BY <1>4 DEF strcpy, Accessing, Again
  <2>2. /\ mem' \in [Addresses -> Byte]
        /\ \A x \in Addresses : mem'[x] = IF x = a + i THEN mem[b + i] ELSE mem[x]
    BY <1>4, <2>1, PutValues
  <2>3. a' = a /\ b' = b /\ start' = start /\ (Inside' <=> Inside)
    BY DEF a, b, Same, Inside
  <2>4. Reached(a, i + 1) /\ Reached(b, i + 1)
    BY <1>1, <1>4, OneMoreByte DEF StrcpyInv
  <2>5. \A x \in Addresses : x < a \/ x >= a + (i + 1) => mem'[x] = start[x]
    BY <1>1, <2>2 DEF StrcpyInv, ChangedOnly
  <2>6. \A k \in 0..(i + 1 - 1) : mem'[a + k] /= 0
    <3>1. \A k \in 0..(i + 1 - 1) : a + k \in Addresses /\ (k = i \/ (k \in 0..(i - 1) /\ a + k /= a + i))
      BY <2>4 DEF Reached
    <3> QED BY <1>1, <1>4, <2>2, <3>1 DEF StrcpyInv
  <2>7. ASSUME ~Inside
        PROVE  NoZero(b, i + 1) /\ \A k \in 0..(i + 1 - 1) : mem'[a + k] = start[b + k]
    <3>1. \A k \in 0..(i + 1 - 1) : a + k \in Addresses /\ (k = i \/ (k \in 0..(i - 1) /\ a + k /= a + i))
      BY <2>4 DEF Reached
    <3>2. mem[b + i] = start[b + i]
      BY <1>1, <1>4, <2>7, StrcpyReads
    <3>3. NoZero(b, i + 1)
      BY <1>1, <1>4, <2>7, <3>2, OneMoreByte DEF StrcpyInv
    <3> QED BY <1>1, <2>2, <2>7, <3>1, <3>2, <3>3 DEF StrcpyInv
  <2>8. StrcpyInv'
    BY <2>1, <2>3, <2>4, <2>5, <2>6, <2>7 DEF StrcpyInv, Reached, NoZero, ChangedOnly
  <2>9. IInv'
    BY <1>1, <2>1, <2>2, <2>8 DEF IInv, TypeOK, LoopInv, Same, Functions, a, b, n
  <2> QED BY <1>1, <2>1, <2>9, AgainStutters DEF Functions
<1>5. ASSUME {a + i, b + i} \subseteq Addresses, mem[b + i] = 0 PROVE IInv' /\ ContractStep
  <2>1. mem' = Put(a + i, 0) /\ i' = i /\ pc' = "returned" /\ result' = a
    BY <1>5 DEF strcpy, Accessing, Return
  <2>2. /\ mem' \in [Addresses -> Byte]
        /\ \A x \in Addresses : mem'[x] = IF x = a + i THEN 0 ELSE mem[x]
    BY <1>5, <2>1, PutValues, Bytes
  <2>3. TypeOK'
    BY <1>1, <2>1, <2>2 DEF IInv, TypeOK, Same, a, b, n
  <2>4. ~Inside /\ start[b + i] = 0
    BY <1>1, <1>5, StrcpyReads
  <2>5. Contract!IsString(b, i) /\ i \in Contract!Lengths(b)
    BY <1>1, <1>5, <2>4, StringLength DEF StrcpyInv
  <2>6. Contract!Within(a, i + 1)
    BY <1>1, <1>5, OneMoreByte DEF StrcpyInv, Reached, Contract!Within
  <2>7. mem' = [x \in Addresses |-> IF x \in a..(a + (i + 1) - 1) THEN start[b + (x - a)] ELSE start[x]]
    <3>1. ASSUME NEW x \in Addresses, x \in a..(a + (i + 1) - 1) PROVE mem'[x] = start[b + (x - a)]
      <4>1. x - a \in 0..i /\ x = a + (x - a)
        BY <3>1
      <4>2. CASE x = a + i
        BY <2>2, <2>4, <4>1, <4>2
      <4>3. CASE x /= a + i
        <5>1. x - a \in 0..(i - 1)
          BY <4>1, <4>3
        <5> QED BY <1>1, <2>2, <2>4, <3>1, <4>1, <4>3, <5>1 DEF StrcpyInv
      <4> QED BY <4>2, <4>3
    <3>2. ASSUME NEW x \in Addresses, x \notin a..(a + (i + 1) - 1) PROVE mem'[x] = start[x]
      <4>1. x < a \/ x >= a + i + 1
        BY <3>2
      <4> QED BY <1>1, <2>2, <3>2, <4>1 DEF StrcpyInv, ChangedOnly
    <3> QED BY <2>2, <3>1, <3>2
  <2>8. Contract!Strcpy
    BY <1>1, <1>2, <2>1, <2>4, <2>5, <2>6, <2>7
       DEF Contract!Strcpy, Contract!Writes, Contract!Moved, Contract!a, Contract!b, a, b, returned
  <2> QED BY <1>1, <2>1, <2>3, <2>8, EndKeeps, ReturnReturns DEF Functions
<1> QED BY <1>3, <1>4, <1>5

\* Where the copy does not overlap its source from below, strncpy reads what
\* was there at the call.
Overlaps == b < a /\ a < b + n

LEMMA StrncpyReads ==
    ASSUME IInv, StrncpyInv, ~Overlaps, i < n, b + i \in Addresses
    PROVE  mem[b + i] = start[b + i]
<1> USE Types
<1>1. b + i < a \/ b + i >= a + i
  BY DEF Overlaps
<1> QED BY <1>1 DEF StrncpyInv, ChangedOnly

\* A round of strncpy that stores v.
LEMMA StrncpyRound ==
    ASSUME IInv, StrncpyInv, Same, pc = "strncpy", i < n, a + i \in Addresses,
           NEW v \in Byte, mem' = Put(a + i, v), i' = i + 1,
           UNCHANGED <<pc, offset, output, result>>, beyond' \in BOOLEAN,
           ~Overlaps => v = Filled(i),
           ~beyond' => Reached(b, i + 1),
           ~Overlaps => (beyond' <=> \E k \in 0..(i + 1 - 1) : start[b + k] = 0)
    PROVE  IInv' /\ ContractStep
<1> USE Types
<1>1. /\ mem' \in [Addresses -> Byte]
      /\ \A x \in Addresses : mem'[x] = IF x = a + i THEN v ELSE mem[x]
  BY PutValues
<1>2. a' = a /\ b' = b /\ n' = n /\ start' = start
  BY DEF a, b, n, Same
<1>3. Reached(a, i + 1)
  BY OneMoreByte DEF StrncpyInv
<1>4. \A x \in Addresses : x < a \/ x >= a + (i + 1) => mem'[x] = start[x]
  BY <1>1 DEF StrncpyInv, ChangedOnly
<1>5. ASSUME ~Overlaps PROVE \A k \in 0..(i + 1 - 1) : mem'[a + k] = Filled(k)
  <2>1. \A k \in 0..(i + 1 - 1) : a + k \in Addresses /\ (k = i \/ (k \in 0..(i - 1) /\ a + k /= a + i))
    BY <1>3 DEF Reached
  <2> QED BY <1>1, <1>5, <2>1 DEF StrncpyInv, Overlaps
<1>6. StrncpyInv'
  <2>1. Reached(a, i)' /\ ChangedOnly(a, a + i)' /\ (~beyond' => Reached(b, i)')
    BY <1>2, <1>3, <1>4 DEF Reached, ChangedOnly
  <2>2. ASSUME ~Overlaps'
        PROVE  /\ \A k \in 0..(i' - 1) : mem'[a' + k] = Filled(k)'
               /\ beyond' <=> \E k \in 0..(i' - 1) : start'[b' + k] = 0
    <3>1. ~Overlaps
      BY <1>2, <2>2 DEF Overlaps
    <3>2. \A k \in 0..(i' - 1) : mem'[a' + k] = Filled(k)
      BY <1>2, <1>5, <3>1
    <3>3. \A k \in 0..(i' - 1) : Filled(k)' = Filled(k)
      BY <1>2 DEF Filled
    <3> QED BY <1>2, <3>1, <3>2, <3>3
  <2> QED BY <2>1, <2>2 DEF StrncpyInv, Overlaps
<1>7. call.fn = "strncpy"
  BY DEF Functions
<1>8. IInv'
  BY <1>1, <1>2, <1>6, <1>7 DEF IInv, TypeOK, LoopInv, Same, Functions
<1> QED BY <1>8, AgainStutters DEF Functions

LEMMA StrncpyStep ==
    ASSUME IInv, strncpy, Same
    PROVE  IInv' /\ ContractStep
<1> USE Types
<1>1. /\ pc = "strncpy" /\ call.fn = "strncpy" /\ StrncpyInv /\ UNCHANGED <<offset, output>>
      /\ offset = 0 /\ output = <<>> /\ pc /= "returned" /\ i <= n /\ beyond \in BOOLEAN
  BY DEF strncpy, IInv, TypeOK, LoopInv, Functions
<1>2. ASSUME i /= n, a + i \notin Addresses \/ (~beyond /\ b + i \notin Addresses)
      PROVE  IInv' /\ ContractStep
  <2>1. pc' = "fault" /\ UNCHANGED <<mem, i, result, beyond>>
    BY <1>2 DEF strncpy, Accessing
  <2>2. TypeOK'
    BY <1>1, <2>1 DEF IInv, TypeOK, Same, a, b, n
  <2>3. i \in 0..(n - 1)
    BY <1>1, <1>2
  <2>4. Contract!Unsafe
    BY <1>1, <1>2, <2>3
       DEF Contract!Unsafe, Contract!Within, Contract!a, Contract!b, Contract!n, a, b, n
  <2> QED BY <1>1, <2>1, <2>2, <2>4, EndKeeps, FaultCrashes DEF Functions
<1>3. ASSUME i /= n, beyond, a + i \in Addresses PROVE IInv' /\ ContractStep
  <2>1. mem' = Put(a + i, 0) /\ i' = i + 1 /\ UNCHANGED <<pc, result, beyond>>
    BY <1>3 DEF strncpy, Accessing, Again
  <2>2. ASSUME ~Overlaps PROVE (\E k \in 0..(i - 1) : start[b + k] = 0) /\ Filled(i) = 0
    BY <1>1, <1>3, <2>2 DEF StrncpyInv, Overlaps, Filled
  <2>3. i < n /\ \A k \in 0..(i - 1) : k \in 0..(i + 1 - 1)
    BY <1>1, <1>3
  <2> QED BY <1>1, <1>3, <2>1, <2>2, <2>3, StrncpyRound, Bytes
<1>4. ASSUME i /= n, ~beyond, {a + i, b + i} \subseteq Addresses PROVE IInv' /\ ContractStep
  <2>1. mem' = Put(a + i, mem[b + i]) /\ i' = i + 1 /\ beyond' = (mem[b + i] = 0) /\ UNCHANGED <<pc, result>>
    BY <1>4 DEF strncpy, Accessing, Again
  <2>2. i < n /\ Reached(b, i + 1) /\ mem[b + i] \in Byte
    BY <1>1, <1>4, OneMoreByte DEF StrncpyInv
  <2>3. ASSUME ~Overlaps PROVE mem[b + i] = Filled(i) /\ \A k \in 0..(i - 1) : start[b + k] /= 0
    <3>1. mem[b + i] = start[b + i]
      BY <1>1, <1>4, <2>2, <2>3, StrncpyReads
    <3> QED BY <1>1, <1>4, <2>3, <3>1 DEF StrncpyInv, Overlaps, Filled
  <2>4. ASSUME ~Overlaps PROVE beyond' <=> \E k \in 0..(i + 1 - 1) : start[b + k] = 0
    <3>1. mem[b + i] = start[b + i]
      BY <1>1, <1>4, <2>2, <2>4, StrncpyReads
    <3>2. \A k \in 0..(i + 1 - 1) : k = i \/ k \in 0..(i - 1)
      OBVIOUS
    <3>3. i \in 0..(i + 1 - 1)
      OBVIOUS
    <3> QED BY <2>1, <2>3, <2>4, <3>1, <3>2, <3>3
  <2> QED BY <1>1, <1>4, <2>1, <2>2, <2>3, <2>4, StrncpyRound
<1>5. ASSUME i = n PROVE IInv' /\ ContractStep
  <2>1. mem' = mem /\ i' = i /\ pc' = "returned" /\ result' = a /\ beyond' = beyond
    BY <1>5 DEF strncpy, Return
  <2>2. TypeOK'
    BY <1>1, <2>1 DEF IInv, TypeOK, Same, a, b, n
  <2>3. Contract!Within(a, n)
    BY <1>1, <1>5 DEF StrncpyInv, Reached, Contract!Within
  <2>4. \A x \in Addresses \ (a..(a + n - 1)) : mem[x] = start[x]
    <3>1. ASSUME NEW x \in Addresses, x \notin a..(a + n - 1) PROVE x < a \/ x >= a + n
      BY <3>1
    <3> QED BY <1>1, <1>5, <3>1 DEF StrncpyInv, ChangedOnly
  <2>5. ASSUME ~Overlaps
        PROVE  mem = [x \in Addresses |->
                        IF x \in a..(a + n - 1) /\ \E k \in 0..(x - a - 1) : start[b + k] = 0 THEN 0
                        ELSE [y \in Addresses |->
                                IF y \in a..(a + n - 1) THEN start[b + (y - a)] ELSE start[y]][x]]
    <3>1. ASSUME NEW x \in Addresses, x \in a..(a + n - 1)
          PROVE  mem[x] = IF \E k \in 0..(x - a - 1) : start[b + k] = 0 THEN 0 ELSE start[b + (x - a)]
      <4>1. x - a \in 0..(i - 1) /\ x = a + (x - a)
        BY <1>5, <3>1
      <4>2. mem[a + (x - a)] = Filled(x - a)
        BY <1>1, <2>5, <4>1 DEF StrncpyInv, Overlaps
      <4> QED BY <4>1, <4>2 DEF Filled
    <3>2. mem \in [Addresses -> Byte]
      BY DEF IInv, TypeOK
    <3> QED BY <2>4, <3>1, <3>2
  <2>6. Contract!Strncpy
    BY <1>1, <2>1, <2>3, <2>4, <2>5
       DEF Contract!Strncpy, Contract!Writes, Contract!Moved, Contract!OnlyDestination,
           Contract!a, Contract!b, Contract!n, a, b, n, returned, Overlaps
  <2> QED BY <1>1, <2>1, <2>2, <2>6, EndKeeps, ReturnReturns DEF Functions
<1> QED BY <1>1, <1>2, <1>3, <1>4, <1>5

LEMMA MemcpyStep ==
    ASSUME IInv, memcpy, Same
    PROVE  IInv' /\ ContractStep
<1> USE Types
<1>1. /\ pc = "memcpy" /\ call.fn = "memcpy" /\ MemcpyInv /\ UNCHANGED <<offset, output, beyond>>
      /\ offset = 0 /\ output = <<>> /\ pc /= "returned" /\ i <= n
  BY DEF memcpy, IInv, TypeOK, LoopInv, Functions, Accessing, InMemory
<1>2. ASSUME i > 0, ~({a + i - 1, b + i - 1} \subseteq Addresses) PROVE IInv' /\ ContractStep
  <2>1. pc' = "fault" /\ UNCHANGED <<mem, i, result>>
    BY <1>2 DEF memcpy, Accessing
  <2>2. TypeOK'
    BY <1>1, <2>1 DEF IInv, TypeOK, Same, a, b, n
  <2>3. i - 1 \in 0..(n - 1) /\ a + (i - 1) = a + i - 1 /\ b + (i - 1) = b + i - 1
    BY <1>1, <1>2
  <2>4. Contract!Unsafe
    BY <1>1, <1>2, <2>3
       DEF Contract!Unsafe, Contract!Within, Contract!a, Contract!b, Contract!n, a, b, n
  <2> QED BY <1>1, <2>1, <2>2, <2>4, EndKeeps, FaultCrashes DEF Functions
<1>3. ASSUME i > 0, {a + i - 1, b + i - 1} \subseteq Addresses PROVE IInv' /\ ContractStep
  <2>1. mem' = Put(a + i - 1, mem[b + i - 1]) /\ i' = i - 1 /\ UNCHANGED <<pc, result>>
    BY <1>3 DEF memcpy, Accessing
  <2>2. /\ mem' \in [Addresses -> Byte]
        /\ \A x \in Addresses : mem'[x] = IF x = a + i - 1 THEN mem[b + i - 1] ELSE mem[x]
    BY <1>3, <2>1, PutValues
  <2>3. a' = a /\ b' = b /\ n' = n /\ start' = start
    BY DEF a, b, n, Same
  <2>4. \A k \in (i - 1)..(n - 1) :
            (k = i - 1 \/ (k \in i..(n - 1) /\ a + k /= a + i - 1)) /\ a + (i - 1) = a + i - 1
            /\ b + (i - 1) = b + i - 1
    BY <1>1, <1>3
  <2>5. \A k \in (i - 1)..(n - 1) : a + k \in Addresses /\ b + k \in Addresses
    BY <1>1, <1>3, <2>4 DEF MemcpyInv
  <2>6. \A x \in Addresses : x < a + (i - 1) \/ x >= a + n => mem'[x] = start[x]
    <3>1. ASSUME NEW x \in Addresses, x < a + (i - 1) \/ x >= a + n PROVE mem'[x] = start[x]
      <4>1. x /= a + i - 1 /\ (x < a + i \/ x >= a + n)
        BY <1>1, <3>1
      <4> QED BY <1>1, <2>2, <4>1 DEF MemcpyInv, ChangedOnly
    <3> QED BY <3>1
  <2>7. ASSUME ~(a < b /\ b < a + n), NEW k \in (i - 1)..(n - 1) PROVE mem'[a + k] = start[b + k]
    <3>1. CASE k = i - 1
      <4>1. b + i - 1 < a + i \/ b + i - 1 >= a + n
        BY <1>1, <1>3, <2>7
      <4>2. mem[b + i - 1] = start[b + i - 1]
        BY <1>1, <1>3, <4>1 DEF MemcpyInv, ChangedOnly
      <4> QED BY <2>2, <2>4, <2>5, <2>7, <3>1, <4>2
    <3>2. CASE k \in i..(n - 1) /\ a + k /= a + i - 1
      BY <1>1, <2>2, <2>5, <2>7, <3>2 DEF MemcpyInv
    <3> QED BY <2>4, <3>1, <3>2
  <2>8. MemcpyInv'
    BY <2>1, <2>3, <2>5, <2>6, <2>7 DEF MemcpyInv, ChangedOnly
  <2>9. IInv'
    BY <1>1, <1>3, <2>1, <2>2, <2>3, <2>8 DEF IInv, TypeOK, LoopInv, Same, Functions
  <2> QED BY <1>1, <2>1, <2>9, AgainStutters DEF Functions
<1>4. ASSUME ~(i > 0) PROVE IInv' /\ ContractStep
  <2>1. mem' = mem /\ i' = i /\ pc' = "returned" /\ result' = a /\ i = 0
    BY <1>4 DEF memcpy, Return
  <2>2. TypeOK'
    BY <1>1, <2>1 DEF IInv, TypeOK, Same, a, b, n
  <2>3. Contract!Within(a, n) /\ Contract!Within(b, n)
    BY <1>1, <2>1 DEF MemcpyInv, Contract!Within
  <2>4. ASSUME NEW x \in Addresses, x \notin a..(a + n - 1) PROVE mem[x] = start[x]
    <3>1. x < a + i \/ x >= a + n
      BY <2>1, <2>4
    <3> QED BY <1>1, <3>1 DEF MemcpyInv, ChangedOnly
  <2>5. ASSUME ~(a < b /\ b < a + n)
        PROVE  mem = [x \in Addresses |-> IF x \in a..(a + n - 1) THEN start[b + (x - a)] ELSE start[x]]
    <3>1. ASSUME NEW x \in Addresses, x \in a..(a + n - 1) PROVE mem[x] = start[b + (x - a)]
      <4>1. x - a \in i..(n - 1) /\ x = a + (x - a)
        BY <2>1, <3>1
      <4> QED BY <1>1, <2>5, <4>1 DEF MemcpyInv
    <3>2. mem \in [Addresses -> Byte]
      BY DEF IInv, TypeOK
    <3> QED BY <2>4, <3>1, <3>2
  <2>6. Contract!Memcpy
    BY <1>1, <2>1, <2>3, <2>4, <2>5
       DEF Contract!Memcpy, Contract!Writes, Contract!Moved, Contract!OnlyDestination,
           Contract!a, Contract!b, Contract!n, a, b, n, returned
  <2> QED BY <1>1, <2>1, <2>2, <2>6, EndKeeps, ReturnReturns DEF Functions
<1> QED BY <1>2, <1>3, <1>4

\* What has been written is the first i bytes of the string; one more is one
\* more at the end.
LEMMA Written ==
    ASSUME NEW p \in Nat, NEW k \in Nat, NEW v,
           output = [j \in 1..k |-> start[p + j - 1]], v = start[p + k],
           output' = Append(output, v)
    PROVE  output' = [j \in 1..(k + 1) |-> start[p + j - 1]]
<1>1. Len(output) = k /\ DOMAIN output = 1..k
  OBVIOUS
<1>2. output' = [j \in 1..(k + 1) |-> IF j <= k THEN output[j] ELSE v]
  BY <1>1
<1>3. \A j \in 1..(k + 1) : j <= k => output[j] = start[p + j - 1]
  OBVIOUS
<1>4. \A j \in 1..(k + 1) : ~(j <= k) => start[p + j - 1] = v
  OBVIOUS
<1> QED BY <1>2, <1>3, <1>4

LEMMA FputsStep ==
    ASSUME IInv, fputs, Same
    PROVE  IInv' /\ ContractStep
<1> USE Types
<1>1. /\ pc = "fputs" /\ call.fn = "fputs" /\ FputsInv /\ UNCHANGED <<offset, beyond>>
      /\ offset = 0 /\ pc /= "returned" /\ mem = start /\ output \in Seq(Byte)
  BY DEF fputs, IInv, TypeOK, LoopInv, Functions, Accessing, FputsInv, StrlenInv
<1>2. ASSUME a + i \notin Addresses PROVE IInv' /\ ContractStep
  <2>1. pc' = "fault" /\ UNCHANGED <<mem, i, result, output>>
    BY <1>2 DEF fputs, Accessing
  <2>2. TypeOK'
    BY <1>1, <2>1 DEF IInv, TypeOK, Same, a, b, n
  <2>3. Contract!Unsafe
    BY <1>1, <1>2, StringLength DEF Contract!Unsafe, Contract!Ends, FputsInv, StrlenInv, Contract!a, a
  <2> QED BY <1>1, <2>1, <2>2, <2>3, EndKeeps, FaultCrashes DEF Functions
<1>3. ASSUME a + i \in Addresses, mem[a + i] /= 0 PROVE IInv' /\ ContractStep
  <2>1. mem' = mem /\ i' = i + 1 /\ UNCHANGED <<pc, result>> /\ output' = Append(output, mem[a + i])
    BY <1>3 DEF fputs, Accessing, Again
  <2>2. output' = [j \in 1..(i + 1) |-> start[a + j - 1]] /\ output' \in Seq(Byte)
    BY <1>1, <1>3, <2>1, Written, SMTT(30) DEF FputsInv
  <2>3. Reached(a, i + 1) /\ NoZero(a, i + 1)
    BY <1>1, <1>3, OneMoreByte DEF FputsInv, StrlenInv
  <2>4. a' = a /\ b' = b /\ n' = n /\ start' = start
    BY DEF a, b, n, Same
  <2>5. FputsInv'
    BY <1>1, <2>1, <2>2, <2>3, <2>4 DEF FputsInv, StrlenInv, Reached, NoZero
  <2>6. IInv'
    BY <1>1, <2>1, <2>2, <2>4, <2>5 DEF IInv, TypeOK, LoopInv, Same, Functions
  <2> QED BY <1>1, <2>1, <2>6, AgainStutters DEF Functions
<1>4. ASSUME a + i \in Addresses, mem[a + i] = 0 PROVE IInv' /\ ContractStep
  <2>1. mem' = mem /\ i' = i /\ pc' = "returned" /\ result' = i /\ output' = output
    BY <1>4 DEF fputs, Accessing, Return
  <2>2. TypeOK'
    BY <1>1, <2>1 DEF IInv, TypeOK, Same, a, b, n
  <2>3. Contract!IsString(a, i) /\ i \in Contract!Lengths(a)
    BY <1>1, <1>4, StringLength DEF FputsInv, StrlenInv
  <2>4. output = <<>> \o [k \in 1..i |-> start[a + k - 1]]
    <3>1. output = [k \in 1..i |-> start[a + k - 1]]
      BY <1>1 DEF FputsInv
    <3>2. <<>> \o output = output
      BY <1>1
    <3> QED BY <3>1, <3>2
  <2>5. Contract!Fputs
    BY <1>1, <2>1, <2>3, <2>4 DEF Contract!Fputs, Contract!a, a, returned, Same
  <2> QED BY <1>1, <2>1, <2>2, <2>5, EndKeeps, ReturnReturns DEF Functions
<1> QED BY <1>2, <1>3, <1>4

\* The line that fgets has stored, and its zero.
FgetsLine(len) ==
    [x \in Addresses |->
        IF x \in a..(a + len - 1) THEN contents[x - a + 1]
        ELSE IF x = a + len THEN 0 ELSE start[x]]

\* The end of the string that fgets has read so far, which is the whole of the
\* line or what there is of it.
LEMMA FgetsEnds ==
    ASSUME IInv, FgetsInv, Same, pc = "fgets", fgets_end,
           UNCHANGED <<output, beyond>>,
           offset' \in 0..Len(contents),
           offset' = i \/ (i < Len(contents) /\ contents[i + 1] = NoByte /\ offset' = i + 1)
    PROVE  (pc' = "fault" => offset' = offset) => IInv' /\ ContractStep
<1> USE Types
<1>1. /\ call.fn = "fgets" /\ pc /= "returned" /\ offset = i /\ output = <<>> /\ i <= Len(contents)
      /\ contents \in Seq(Byte) /\ mem \in [Addresses -> Byte]
  BY DEF IInv, TypeOK, LoopInv, Functions, FgetsInv
<1>2. Contract!Plain(i)
  BY <1>1 DEF FgetsInv, Contract!Plain, returned
<1>3. CASE i = 0
  <2>1. pc' = "returned" /\ mem' = mem /\ i' = i /\ result' = 0
    BY <1>3 DEF fgets_end, Return
  <2>2. TypeOK'
    BY <1>1, <2>1 DEF IInv, TypeOK, Same, a, b, n
  <2>3. mem = start
    <3>1. \A x \in Addresses : mem[x] = start[x]
      BY <1>3 DEF FgetsInv, ChangedOnly
    <3> QED BY <3>1 DEF IInv, TypeOK
  <2>4. Contract!Fgets
    <3>1. 0 \in 0..Len(contents) /\ Contract!Plain(0)
      BY <1>1, <1>2, <1>3
    <3> QED BY <1>1, <1>3, <2>1, <2>3, <3>1 DEF Contract!Fgets, returned
  <2> QED BY <1>1, <2>1, <2>2, <2>4, EndKeeps, ReturnReturns DEF Functions
<1>4. ASSUME i /= 0, a + i \in Addresses PROVE IInv' /\ ContractStep
  <2>1. pc' = "returned" /\ mem' = Put(a + i, 0) /\ i' = i /\ result' = a
    BY <1>4 DEF fgets_end, Accessing, Return
  <2>2. /\ mem' \in [Addresses -> Byte]
        /\ \A x \in Addresses : mem'[x] = IF x = a + i THEN 0 ELSE mem[x]
    BY <1>4, <2>1, PutValues, Bytes
  <2>3. TypeOK'
    BY <1>1, <2>1, <2>2 DEF IInv, TypeOK, Same, a, b, n
  <2>4. mem' = FgetsLine(i)
    <3>1. ASSUME NEW x \in Addresses, x \in a..(a + i - 1) PROVE mem'[x] = contents[x - a + 1]
      <4>1. x - a \in 0..(i - 1) /\ x = a + (x - a) /\ x /= a + i
        BY <3>1
      <4> QED BY <2>2, <4>1 DEF FgetsInv
    <3>2. ASSUME NEW x \in Addresses, x \notin a..(a + i - 1), x /= a + i PROVE mem'[x] = start[x]
      <4>1. x < a \/ x >= a + i
        BY <3>2
      <4> QED BY <2>2, <3>2, <4>1 DEF FgetsInv, ChangedOnly
    <3>3. a + i \notin a..(a + i - 1)
      OBVIOUS
    <3> QED BY <2>2, <3>1, <3>2, <3>3 DEF FgetsLine
  <2>5. Contract!Within(a, i + 1)
    BY <1>4, OneMoreByte DEF FgetsInv, Reached, Contract!Within
  <2>6. FgetsLine(i) = Contract!Line(i)
    BY <1>1 DEF FgetsLine, Contract!Line, Contract!a, a, returned
  <2>7. Contract!Fgets
    <3>1. i \in 0..Len(contents)
      BY <1>1
    <3> QED BY <1>1, <1>2, <1>4, <2>1, <2>4, <2>5, <2>6, <3>1 DEF Contract!Fgets, Contract!a, a, returned
  <2> QED BY <1>1, <2>1, <2>3, <2>7, EndKeeps, ReturnReturns DEF Functions
<1>5. ASSUME i /= 0, a + i \notin Addresses, offset' = offset PROVE IInv' /\ ContractStep
  <2>1. pc' = "fault" /\ UNCHANGED <<mem, i, result>>
    BY <1>5 DEF fgets_end, Accessing
  <2>2. TypeOK'
    BY <1>1, <1>5, <2>1 DEF IInv, TypeOK, Same, a, b, n
  <2>3. Contract!Plain(i - 1) /\ contents[i] /= NoByte /\ ~Contract!Within(a, i + 1) /\ i \in 1..Len(contents)
    <3>1. i \in 0..(i + 1 - 1) /\ i \in 1..i
      BY <1>5
    <3> QED BY <1>1, <1>2, <1>5, <3>1 DEF FgetsInv, Contract!Plain, Contract!Within, returned
  <2>4. Contract!Unsafe
    BY <1>1, <2>3 DEF Contract!Unsafe, Contract!a, a, returned
  <2> QED BY <1>1, <2>1, <2>2, <2>4, EndKeeps, FaultCrashes DEF Functions
<1>6. (i /= 0 /\ a + i \notin Addresses) => pc' = "fault"
  BY DEF fgets_end, Accessing
<1> QED BY <1>3, <1>4, <1>5, <1>6

LEMMA FgetsNoByteStep ==
    ASSUME IInv, fgets_no_byte, Same
    PROVE  IInv' /\ ContractStep
<1>1. pc = "fgets" /\ fgets_end /\ UNCHANGED <<offset, output, beyond>> /\ FgetsInv
  BY DEF fgets_no_byte, IInv, LoopInv
<1>2. offset' = i /\ offset' \in 0..Len(contents)
  BY <1>1 DEF FgetsInv, IInv, TypeOK
<1> QED BY <1>1, <1>2, FgetsEnds

LEMMA FgetsByteStep ==
    ASSUME IInv, fgets_byte, Same
    PROVE  IInv' /\ ContractStep
<1> USE Types
<1> DEFINE c == contents[offset + 1]
<1>1. /\ pc = "fgets" /\ FgetsInv /\ UNCHANGED <<output, beyond>> /\ offset < Len(contents)
      /\ offset' = IF pc' = "fault" THEN offset ELSE offset + 1
  BY DEF fgets_byte, IInv, LoopInv
<1>2. /\ call.fn = "fgets" /\ pc /= "returned" /\ offset = i /\ output = <<>> /\ i < Len(contents)
      /\ contents \in Seq(Byte) /\ mem \in [Addresses -> Byte] /\ c \in Byte
  BY <1>1 DEF IInv, TypeOK, LoopInv, Functions, FgetsInv
<1>3. CASE c = NoByte
  <2>1. fgets_end
    BY <1>3 DEF fgets_byte
  <2>2. CASE pc' = "fault"
    BY <1>1, <1>2, <2>1, <2>2, FgetsEnds
  <2>3. CASE pc' /= "fault"
    BY <1>1, <1>2, <1>3, <2>1, <2>3, FgetsEnds
  <2> QED BY <2>2, <2>3
<1>4. ASSUME c /= NoByte,
             a + i \notin Addresses \/ (c = NewLine /\ a + i + 1 \notin Addresses)
      PROVE  IInv' /\ ContractStep
  <2>1. pc' = "fault" /\ UNCHANGED <<mem, i, result, offset>>
    BY <1>1, <1>4 DEF fgets_byte, Accessing
  <2>2. TypeOK'
    BY <1>1, <1>2, <2>1 DEF IInv, TypeOK, Same, a, b, n
  <2>3. Contract!Plain(i) /\ contents[i + 1] /= NoByte
    BY <1>2, <1>1, <1>4 DEF FgetsInv, Contract!Plain, returned
  <2>4. ~Contract!Within(a, i + 2) /\ i + 1 \in 1..Len(contents) /\ i + 1 - 1 = i /\ i + 1 + 1 = i + 2
    <3>1. i \in 0..(i + 2 - 1) /\ i + 1 \in 0..(i + 2 - 1) /\ a + (i + 1) = a + i + 1
      OBVIOUS
    <3> QED BY <1>2, <1>4, <3>1, SMTT(30) DEF Contract!Within
  <2>5. Contract!Unsafe
    BY <1>2, <2>3, <2>4 DEF Contract!Unsafe, Contract!a, a, returned
  <2> QED BY <1>1, <1>2, <2>1, <2>2, <2>5, EndKeeps, FaultCrashes DEF Functions
<1>5. ASSUME c /= NoByte, c = NewLine, a + i \in Addresses, a + i + 1 \in Addresses
      PROVE  IInv' /\ ContractStep
  <2>1. /\ pc' = "returned" /\ i' = i /\ result' = a /\ offset' = i + 1
        /\ mem' = [Put(a + i, c) EXCEPT ![a + i + 1] = 0]
    BY <1>1, <1>2, <1>5 DEF fgets_byte, Accessing, Return
  <2>2. /\ mem' \in [Addresses -> Byte]
        /\ \A x \in Addresses :
               mem'[x] = IF x = a + i + 1 THEN 0 ELSE IF x = a + i THEN c ELSE mem[x]
    BY <1>2, <1>5, <2>1, Bytes DEF Put
  <2>3. TypeOK'
    BY <1>1, <1>2, <2>1, <2>2 DEF IInv, TypeOK, Same, a, b, n
  <2>4. mem' = FgetsLine(i + 1)
    <3>1. ASSUME NEW x \in Addresses, x \in a..(a + (i + 1) - 1) PROVE mem'[x] = contents[x - a + 1]
      <4>1. CASE x = a + i
        BY <1>2, <2>2, <4>1
      <4>2. CASE x /= a + i
        <5>1. x - a \in 0..(i - 1) /\ x = a + (x - a) /\ x /= a + i + 1
          BY <3>1, <4>2
        <5> QED BY <1>1, <2>2, <4>2, <5>1 DEF FgetsInv
      <4> QED BY <4>1, <4>2
    <3>2. ASSUME NEW x \in Addresses, x \notin a..(a + (i + 1) - 1), x /= a + (i + 1)
          PROVE  mem'[x] = start[x]
      <4>1. x < a \/ x >= a + i
        BY <3>2
      <4>2. x /= a + i /\ x /= a + i + 1
        BY <3>2
      <4> QED BY <1>1, <2>2, <4>1, <4>2 DEF FgetsInv, ChangedOnly
    <3>3. a + (i + 1) \notin a..(a + (i + 1) - 1) /\ a + (i + 1) = a + i + 1
      OBVIOUS
    <3> QED BY <2>2, <3>1, <3>2, <3>3 DEF FgetsLine
  <2>5. Contract!Within(a, (i + 1) + 1)
    <3>1. Reached(a, i + 1) /\ a + (i + 1) \in Addresses
      BY <1>1, <1>5, OneMoreByte DEF FgetsInv
    <3> QED BY <3>1, OneMoreByte DEF Reached, Contract!Within
  <2>6. FgetsLine(i + 1) = Contract!Line(i + 1)
    BY <1>1, <1>2 DEF FgetsLine, Contract!Line, Contract!a, a, returned
  <2>7. Contract!Plain(i + 1 - 1) /\ contents[i + 1] = NewLine
    BY <1>1, <1>2, <1>5 DEF FgetsInv, Contract!Plain, returned
  <2>8. Contract!Fgets
    <3>1. i + 1 \in 0..Len(contents) /\ i + 1 > 0 /\ i + 1 /= 0
      BY <1>2
    <3> QED BY <1>1, <1>2, <2>1, <2>4, <2>5, <2>6, <2>7, <3>1 DEF Contract!Fgets, Contract!a, a, returned
  <2> QED BY <1>1, <1>2, <2>1, <2>3, <2>8, EndKeeps, ReturnReturns DEF Functions
<1>6. ASSUME c /= NoByte, c /= NewLine, a + i \in Addresses PROVE IInv' /\ ContractStep
  <2>1. mem' = Put(a + i, c) /\ i' = i + 1 /\ UNCHANGED <<pc, result>> /\ offset' = i + 1
    BY <1>1, <1>2, <1>6 DEF fgets_byte, Accessing, Again
  <2>2. /\ mem' \in [Addresses -> Byte]
        /\ \A x \in Addresses : mem'[x] = IF x = a + i THEN c ELSE mem[x]
    BY <1>2, <1>6, <2>1, PutValues
  <2>3. a' = a /\ b' = b /\ n' = n /\ start' = start /\ contents' = contents
    BY DEF a, b, n, Same
  <2>4. Reached(a, i + 1)
    BY <1>1, <1>6, OneMoreByte DEF FgetsInv
  <2>5. \A x \in Addresses : x < a \/ x >= a + (i + 1) => mem'[x] = start[x]
    BY <1>1, <2>2 DEF FgetsInv, ChangedOnly
  <2>6. ASSUME NEW k \in 0..(i + 1 - 1) PROVE mem'[a + k] = contents[k + 1]
    <3>1. a + k \in Addresses /\ (k = i \/ (k \in 0..(i - 1) /\ a + k /= a + i))
      BY <2>4 DEF Reached
    <3> QED BY <1>1, <1>2, <2>2, <3>1 DEF FgetsInv
  <2>7. \A k \in 1..(i + 1) : contents[k] \notin {NewLine, NoByte}
    BY <1>1, <1>2, <1>6 DEF FgetsInv
  <2>8. FgetsInv'
    BY <2>1, <2>3, <2>4, <2>5, <2>6, <2>7 DEF FgetsInv, Reached, ChangedOnly
  <2>9. IInv'
    BY <1>1, <1>2, <2>1, <2>2, <2>3, <2>8 DEF IInv, TypeOK, LoopInv, Same, Functions
  <2> QED BY <1>1, <2>1, <2>9, AgainStutters DEF Functions
<1> QED BY <1>3, <1>4, <1>5, <1>6

-----------------------------------------------------------------------------

LEMMA InitIInv == Init => IInv /\ Contract!Init
<1> SUFFICES ASSUME Init PROVE IInv /\ Contract!Init
  OBVIOUS
<1>1. /\ call \in Calls /\ call \in [fn : Functions, a : Nat, b : Nat, n : Nat, signed : BOOLEAN]
      /\ call.fn \in Functions /\ call.n \in Nat
  BY ClibAssumption DEF Init
<1>2. contents \in Seq(Byte)
  <2>1. CASE contents \in Files
    BY <2>1, ClibAssumption
  <2>2. CASE contents = <<>>
    BY <2>2
  <2> QED BY <2>1, <2>2 DEF Init
<1>3. mem \in [Addresses -> Byte] /\ start = mem
  BY ClibAssumption DEF Init
<1>4. TypeOK
  <2>1. i \in Nat /\ (call.fn \in {"memcpy", "strncpy", "strncmp"} => i <= n)
    BY <1>1 DEF Init, n
  <2>2. offset \in 0..Len(contents)
    BY <1>2 DEF Init
  <2>3. pc = call.fn /\ output = << >> /\ beyond = FALSE /\ result = 0
    BY Zenon DEF Init
  <2>4. << >> \in Seq(Byte)
    OBVIOUS
  <2>5. output \in Seq(Byte)
    BY Zenon, <2>3, <2>4
  <2>6. beyond \in BOOLEAN /\ result \in Int
    <3>1. FALSE \in BOOLEAN /\ 0 \in Int
      OBVIOUS
    <3> QED BY Zenon, <2>3, <3>1
  <2>7. pc \in {call.fn, "returned", "fault"}
    BY <2>3
  <2> QED BY Zenon, <1>1, <1>2, <1>3, <2>1, <2>2, <2>5, <2>6, <2>7 DEF TypeOK
<1>5. LoopInv
  BY <1>1, <1>2, <1>3
     DEF Init, LoopInv, StrlenInv, FputsInv, StrcmpInv, StrncmpInv, StrcpyInv, StrncpyInv, MemcpyInv,
         FgetsInv, Reached, NoZero, Equal, ChangedOnly, n, Functions
<1>6. Contract!Init
  BY DEF Init, Contract!Init
<1> QED BY <1>4, <1>5, <1>6 DEF IInv

LEMMA StepIInv ==
    ASSUME IInv, [Next]_vars
    PROVE  IInv' /\ ContractStep
<1>1. CASE Next
  BY <1>1, StrlenStep, StrcmpStep, StrncmpStep, StrcpyStep, StrncpyStep, MemcpyStep, FgetsByteStep,
     FgetsNoByteStep, FputsStep DEF Next, Same
<1>2. CASE UNCHANGED vars
  <2>1. IInv'
    BY <1>2
       DEF vars, IInv, TypeOK, LoopInv, StrlenInv, FputsInv, StrcmpInv, StrncmpInv, StrcpyInv, StrncpyInv,
           MemcpyInv, FgetsInv, Reached, NoZero, Equal, ChangedOnly, Inside, Filled, a, b, n
  <2>2. UNCHANGED Contract!vars
    BY <1>2 DEF vars, Contract!vars, returned
  <2> QED BY <2>1, <2>2 DEF ContractStep
<1> QED BY <1>1, <1>2

\* The bytes, counters and offsets of every call have their types.
THEOREM ClibTypes == Spec => []TypeOK
<1>1. IInv => TypeOK
  BY DEF IInv
<1> QED BY <1>1, InitIInv, StepIInv, PTL DEF Spec

\* Every function of the library does in one step what ClibContract says, in a
\* memory of any size and wherever its operands lie in it.
THEOREM ClibMeetsContract == Spec => MeetsContract
<1>1. IInv /\ [Next]_vars => [Contract!Return \/ Contract!Crash]_Contract!vars
  BY StepIInv DEF ContractStep
<1> QED BY <1>1, InitIInv, StepIInv, PTL DEF Spec, MeetsContract, Contract!Spec

=============================================================================
