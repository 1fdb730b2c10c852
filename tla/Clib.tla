-------------------------------- MODULE Clib --------------------------------
(***************************************************************************)
(* The functions of lib/rvclib.c on strings, blocks of memory and files,   *)
(* as they run when rvcc has compiled them: one call, one round of its     *)
(* loop at a time.  A char is read as a signed number on RISC-V and as an  *)
(* unsigned one on ARM.  An access outside of the memory ends the program. *)
(***************************************************************************)
EXTENDS Integers, Sequences

CONSTANTS Addresses,   \* the addresses of the memory
          Stored,      \* the bytes that the memory holds at the start
          Files,       \* what a file that is read may hold
          Calls,       \* the calls: records of fn, a, b, n and signed
          NewLine,     \* the code of '\n'
          NoByte       \* what fgetc gives, in a char, at the end: 255

Byte == 0..255

Functions ==
    {"strlen", "strcmp", "strncmp", "strcpy", "strncpy", "memcpy", "fgets", "fputs"}

\* Addresses are not 0, which is NULL.
ASSUME ClibAssumption ==
    /\ Addresses \subseteq Nat \ {0}
    /\ Stored \subseteq Byte
    /\ Files \subseteq Seq(Byte)
    /\ Calls \subseteq [fn : Functions, a : Nat, b : Nat, n : Nat, signed : BOOLEAN]
    /\ NewLine \in Byte /\ NoByte \in Byte

VARIABLES mem,        \* the memory: a byte at each address
          contents,   \* the file that is read
          offset,     \* its file offset: how many bytes have been read
          output,     \* what has been written to the other file
          call,       \* the call: its function and operands
          pc,         \* the function while it runs, then "returned" or "fault"
          i,          \* its counter: i, and count of memcpy
          beyond,     \* strncpy: the zero has been copied
          result,     \* what it returned
          start       \* history: the memory at the time of the call

vars == <<mem, contents, offset, output, call, pc, i, beyond, result, start>>

Init ==
    /\ mem \in [Addresses -> Stored]
    /\ call \in Calls
    /\ contents \in IF call.fn = "fgets" THEN Files ELSE {<<>>}
    /\ offset = 0
    /\ output = <<>>
    /\ pc = call.fn
    /\ i = IF call.fn = "memcpy" THEN call.n ELSE 0
    /\ beyond = FALSE
    /\ result = 0
    /\ start = mem

a == call.a
b == call.b
n == call.n

\* A step that accesses the addresses as, and what it does when it may.
Accessing(as, step) ==
    IF as \subseteq Addresses THEN step
    ELSE pc' = "fault" /\ UNCHANGED <<mem, offset, output, i, beyond, result>>

\* Mutant: i is not incremented.
AgainInPlace(m) == mem' = m /\ UNCHANGED <<i, pc, result>>

\* Another round of the loop, with the memory as m.
Again(m) == mem' = m /\ i' = i + 1 /\ UNCHANGED <<pc, result>>

Return(r, m) == mem' = m /\ pc' = "returned" /\ result' = r /\ UNCHANGED i

Put(p, byte) == [mem EXCEPT ![p] = byte]

\* The char in a byte: lb of RISC-V extends its sign, ldrb of ARM does not.
Char(byte) == IF call.signed /\ byte > 127 THEN byte - 256 ELSE byte

InMemory == UNCHANGED <<offset, output, beyond>>

-----------------------------------------------------------------------------

strlen ==
    /\ pc = "strlen"
    /\ Accessing({a + i},
           /\ IF mem[a + i] /= 0 THEN Again(mem) ELSE Return(i, mem)
           /\ InMemory)

strcmp ==
    /\ pc = "strcmp"
    /\ Accessing({a + i, b + i},
           /\ IF mem[a + i] = 0 \/ mem[b + i] = 0 THEN Return(Char(mem[b + i]) - Char(mem[a + i]), mem)
              ELSE IF Char(mem[a + i]) < Char(mem[b + i]) THEN Return(-1, mem)
              ELSE IF Char(mem[a + i]) > Char(mem[b + i]) THEN Return(1, mem)
              ELSE Again(mem)
           /\ InMemory)

strncmp ==
    /\ pc = "strncmp"
    /\ IF i < n
       THEN Accessing({a + i, b + i},
                /\ IF Char(mem[a + i]) < Char(mem[b + i]) THEN Return(-1, mem)
                   ELSE IF Char(mem[a + i]) > Char(mem[b + i]) THEN Return(1, mem)
                   ELSE Again(mem)
                /\ InMemory)
       ELSE Return(0, mem) /\ InMemory

strcpy ==
    /\ pc = "strcpy"
    /\ Accessing({a + i, b + i},
           /\ IF mem[b + i] /= 0 THEN Again(Put(a + i, mem[b + i])) ELSE Return(a, Put(a + i, 0))
           /\ InMemory)

\* Mutant: what is behind the zero is not filled.
strncpy_unfilled ==
    /\ pc = "strncpy"
    /\ UNCHANGED <<offset, output>>
    /\ IF i = n \/ beyond THEN Return(a, mem) /\ UNCHANGED beyond
       ELSE Accessing({a + i, b + i},
                Again(Put(a + i, mem[b + i])) /\ beyond' = (mem[b + i] = 0))

strncpy ==
    /\ pc = "strncpy"
    /\ UNCHANGED <<offset, output>>
    /\ IF i = n THEN Return(a, mem) /\ UNCHANGED beyond
       ELSE IF beyond THEN Accessing({a + i}, Again(Put(a + i, 0)) /\ UNCHANGED beyond)
       ELSE Accessing({a + i, b + i},
                Again(Put(a + i, mem[b + i])) /\ beyond' = (mem[b + i] = 0))

\* Mutant: a do loop without the if in front of it.
memcpy_at_least_once ==
    /\ pc = "memcpy"
    /\ IF i >= 0
       THEN Accessing({a + i - 1, b + i - 1},
                /\ mem' = Put(a + i - 1, mem[b + i - 1])
                /\ i' = i - 1
                /\ UNCHANGED <<pc, result>> /\ InMemory)
       ELSE Return(a, mem) /\ InMemory

memcpy ==
    /\ pc = "memcpy"
    /\ IF i > 0
       THEN Accessing({a + i - 1, b + i - 1},
                /\ mem' = Put(a + i - 1, mem[b + i - 1])
                /\ i' = i - 1
                /\ UNCHANGED <<pc, result>> /\ InMemory)
       ELSE Return(a, mem) /\ InMemory

-----------------------------------------------------------------------------
(* fgets: a read of one byte in every round.                               *)

\* The string so far, or NULL.
fgets_end ==
    IF i = 0 THEN Return(0, mem) ELSE Accessing({a + i}, Return(a, Put(a + i, 0)))

\* The read gives a byte.
fgets_byte ==
    /\ pc = "fgets" /\ offset < Len(contents)
    /\ UNCHANGED <<output, beyond>>
    /\ LET c == contents[offset + 1] IN
       /\ IF c = NoByte THEN fgets_end
          ELSE IF c = NewLine
          THEN Accessing({a + i, a + i + 1},
                   Return(a, [Put(a + i, c) EXCEPT ![a + i + 1] = 0]))
          ELSE Accessing({a + i}, Again(Put(a + i, c)))
       /\ offset' = IF pc' = "fault" THEN offset ELSE offset + 1

\* The read fails, or there is no more.
fgets_no_byte == pc = "fgets" /\ fgets_end /\ UNCHANGED <<offset, output, beyond>>

fputs ==
    /\ pc = "fputs"
    /\ Accessing({a + i},
           /\ IF mem[a + i] /= 0
              THEN Again(mem) /\ output' = Append(output, mem[a + i])
              ELSE Return(i, mem) /\ UNCHANGED output
           /\ UNCHANGED <<offset, beyond>>)

Next ==
    /\ \/ strlen \/ strcmp \/ strncmp \/ strcpy \/ strncpy \/ memcpy
       \/ fgets_byte \/ fgets_no_byte \/ fputs
    /\ UNCHANGED <<contents, call, start>>

\* The program runs on.
Spec == Init /\ [][Next]_vars /\ WF_vars(Next)

-----------------------------------------------------------------------------

TypeOK ==
    /\ mem \in [Addresses -> Byte] /\ start \in [Addresses -> Byte]
    /\ contents \in Seq(Byte)
    /\ offset \in 0..Len(contents)
    /\ output \in Seq(Byte)
    /\ call \in Calls
    /\ pc \in {call.fn, "returned", "fault"}
    /\ i \in Nat /\ (call.fn \in {"memcpy", "strncpy", "strncmp"} => i <= n)
    /\ beyond \in BOOLEAN
    /\ result \in Int

returned == pc = "returned"

Contract == INSTANCE ClibContract WITH
    status <- IF pc = call.fn THEN "running" ELSE pc,
    mem <- IF returned THEN mem ELSE start,
    offset <- IF returned THEN offset ELSE 0,
    output <- IF returned THEN output ELSE <<>>,
    result <- IF returned THEN result ELSE 0

\* Every function does what its callers rely on, whatever the memory holds and
\* wherever its operands lie, also one inside of the other: lengths,
\* comparisons and copies are exact up to the last byte and touch nothing
\* else, fgets loses no byte of the file, and the memory is left only by a
\* call that has to leave it (src/lib/rvclib.c).
MeetsContract == Contract!Spec

\* Every call ends: no loop of the library runs in place, and one that runs
\* over its own end leaves the memory.
CallsEnd == <>(pc \in {"returned", "fault"})

=============================================================================
