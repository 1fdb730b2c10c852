---------------------------- MODULE ClibContract ----------------------------
(***************************************************************************)
(* What the rest of the compiler relies on in the functions of the library *)
(* lib/rvclib.c: a call changes nothing until it returns, and then has     *)
(* exactly the effect on memory, on the file it reads and on the one it    *)
(* writes that is stated here.  It may crash only where the effect would   *)
(* reach outside of the memory.  The operands of a call are a and b, the   *)
(* addresses, and n, the count.                                            *)
(***************************************************************************)
EXTENDS Integers, Sequences

CONSTANTS Addresses,   \* the addresses of the memory
          NewLine,     \* the code of '\n'
          NoByte       \* the byte that fgets takes for the end of the file: 255

VARIABLES mem,        \* what the memory holds
          contents,   \* the file that is read
          offset,     \* how much of it has been
          output,     \* what has been written
          call,       \* the call
          status,     \* "running", "returned" or "fault"
          result      \* what the call returned

vars == <<mem, contents, offset, output, call, status, result>>

a == call.a
b == call.b
n == call.n

Within(p, len) == \A k \in 0..(len - 1) : p + k \in Addresses

\* How long a string at p may be.
Lengths(p) == {x - p : x \in Addresses} \cap Nat

\* At p there is a string of len bytes, with a zero behind.
IsString(p, len) ==
    /\ Within(p, len + 1)
    /\ \A k \in 0..(len - 1) : mem[p + k] /= 0
    /\ mem[p + len] = 0

\* The first len bytes at a and at b are the same.
SameBytes(len) == Within(a, len) /\ Within(b, len) /\ \A k \in 0..(len - 1) : mem[a + k] = mem[b + k]

\* Memory with the len bytes at b also at a.
Moved(len) ==
    [x \in Addresses |-> IF x \in a..(a + len - 1) THEN mem[b + (x - a)] ELSE mem[x]]

\* Everything but the bytes of the destination is as it was.
OnlyDestination == \A x \in Addresses \ (a..(a + n - 1)) : mem'[x] = mem[x]

Reads == UNCHANGED <<mem, offset, output>>

Writes == UNCHANGED <<offset, output>>

-----------------------------------------------------------------------------
(* The effects.                                                            *)

Strlen == \E len \in Lengths(a) : IsString(a, len) /\ result' = len /\ Reads

SameStrings == \E len \in Lengths(a) : IsString(a, len) /\ IsString(b, len) /\ SameBytes(len)

\* Zero for the same string, and only then: which of two is the smaller is
\* not part of what a caller may rely on.
Strcmp == (result' = 0 <=> SameStrings) /\ Reads

\* The bytes are compared, and a zero among them does not end the comparison.
Strncmp == (result' = 0 <=> SameBytes(n)) /\ Reads

\* The copy starts inside of the string, where it overwrites the end before
\* it is reached.
StartsInside == a > b /\ \A k \in 0..(a - b - 1) : b + k \in Addresses /\ mem[b + k] /= 0

Strcpy ==
    /\ ~StartsInside
    /\ \E len \in Lengths(b) :
           /\ IsString(b, len) /\ Within(a, len + 1)
           /\ mem' = Moved(len + 1)
    /\ result' = a
    /\ Writes

\* The string, cut at n bytes or filled up with zeroes to n.
Strncpy ==
    /\ Within(a, n)
    /\ ~(b < a /\ a < b + n) =>
           mem' = [x \in Addresses |->
                      IF x \in a..(a + n - 1) /\ \E k \in 0..(x - a - 1) : mem[b + k] = 0 THEN 0
                      ELSE Moved(n)[x]]
    /\ OnlyDestination
    /\ result' = a
    /\ Writes

\* The bytes, also when the destination overlaps the source from above.
Memcpy ==
    /\ Within(a, n) /\ Within(b, n)
    /\ ~(a < b /\ b < a + n) => mem' = Moved(n)
    /\ OnlyDestination
    /\ result' = a
    /\ Writes

\* No byte among the next len of the file ends a line or the file.
Plain(len) ==
    /\ offset + len <= Len(contents)
    /\ \A k \in 1..len : contents[offset + k] \notin {NewLine, NoByte}

\* Memory with the next len bytes of the file at a, and a zero.
Line(len) ==
    [x \in Addresses |->
        IF x \in a..(a + len - 1) THEN contents[offset + (x - a) + 1]
        ELSE IF x = a + len THEN 0 ELSE mem[x]]

\* A line with its newline; or what there is of it when the file ends, a read
\* fails or the end is mistaken, and no string at all when that is nothing.
\* No byte of the file is lost but one that is taken for the end.
Fgets ==
    \E len \in 0..Len(contents) :
        /\ \/ /\ len > 0 /\ Plain(len - 1) /\ offset + len <= Len(contents)
              /\ contents[offset + len] = NewLine
              /\ offset' = offset + len
           \/ /\ Plain(len)
              /\ \/ offset' = offset + len
                 \/ /\ offset + len < Len(contents) /\ contents[offset + len + 1] = NoByte
                    /\ offset' = offset + len + 1
        /\ len > 0 => Within(a, len + 1) /\ mem' = Line(len) /\ result' = a
        /\ len = 0 => mem' = mem /\ result' = 0
        /\ UNCHANGED output

\* The string is written without its zero.
Fputs ==
    \E len \in Lengths(a) :
        /\ IsString(a, len)
        /\ output' = output \o [k \in 1..len |-> mem[a + k - 1]]
        /\ result' = len
        /\ UNCHANGED <<mem, offset>>

-----------------------------------------------------------------------------
(* Where a call may crash.                                                 *)

Ends(p) == \E len \in Lengths(p) : IsString(p, len)

\* No crash while a byte decides the comparison.
Decided(len) ==
    /\ SameBytes(len) /\ (\A k \in 0..(len - 1) : mem[a + k] /= 0)
    /\ a + len \in Addresses /\ b + len \in Addresses
    /\ mem[a + len] = 0 \/ mem[b + len] = 0 \/ mem[a + len] /= mem[b + len]

Unsafe ==
    CASE call.fn \in {"strlen", "fputs"} -> ~Ends(a)
      [] call.fn = "strcmp" -> \A len \in Lengths(a) : ~Decided(len)
      [] call.fn = "strcpy" ->
             StartsInside \/ \A len \in Lengths(b) : ~(IsString(b, len) /\ Within(a, len + 1))
      [] call.fn = "strncmp" -> ~(Within(a, n) /\ Within(b, n))
      [] call.fn = "memcpy" -> ~(Within(a, n) /\ Within(b, n))
      [] call.fn = "strncpy" -> ~(Within(a, n) /\ Within(b, n))
      [] call.fn = "fgets" ->
             \E len \in 1..(Len(contents) - offset) :
                 Plain(len - 1) /\ contents[offset + len] /= NoByte /\ ~Within(a, len + 1)

-----------------------------------------------------------------------------

Init == status = "running"

Return ==
    /\ status = "running" /\ status' = "returned"
    /\ CASE call.fn = "strlen" -> Strlen
         [] call.fn = "strcmp" -> Strcmp
         [] call.fn = "strncmp" -> Strncmp
         [] call.fn = "strcpy" -> Strcpy
         [] call.fn = "strncpy" -> Strncpy
         [] call.fn = "memcpy" -> Memcpy
         [] call.fn = "fgets" -> Fgets
         [] call.fn = "fputs" -> Fputs
    /\ UNCHANGED <<contents, call>>

Crash ==
    /\ status = "running" /\ status' = "fault"
    /\ Unsafe
    /\ UNCHANGED <<mem, contents, offset, output, call, result>>

Spec == Init /\ [][Return \/ Crash]_vars

=============================================================================
