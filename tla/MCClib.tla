------------------------------- MODULE MCClib -------------------------------
(***************************************************************************)
(* Every call of every function on a memory of a few bytes, for TLC: the   *)
(* operands anywhere in it, in each other and over its end.                *)
(***************************************************************************)
EXTENDS Clib, SequencesExt

MCAddresses == 1..5

\* Zero, a letter and the byte of all ones.
MCStored == {0, 97, 255}

MCFiles == BoundedSeq({97, 10, 255}, 3)

Operands(fs, bs, ns, signs) ==
    [fn : fs, a : MCAddresses, b : bs, n : ns, signed : signs]

\* Only a comparison depends on the sign of a char.
MCCalls ==
    Operands({"strlen", "fputs", "fgets"}, {0}, {0}, {FALSE})
    \cup Operands({"strcpy"}, MCAddresses, {0}, {FALSE})
    \cup Operands({"strncpy", "memcpy"}, MCAddresses, 0..3, {FALSE})
    \cup Operands({"strcmp"}, MCAddresses, {0}, BOOLEAN)
    \cup Operands({"strncmp"}, MCAddresses, 0..3, BOOLEAN)

=============================================================================
