-------------------------------- MODULE Elf --------------------------------
(***************************************************************************)
(* The ELF writer of elf.c, behind the code generator: the words are       *)
(* encoded into the code section, symbols are added to the symbol and      *)
(* string tables, and e_generate aligns the sections, writes a header and  *)
(* a footer around them and puts all of it into one file.                  *)
(*                                                                         *)
(* A file is a sequence of bytes; a number above 255 stands for a byte of  *)
(* the data, whatever its value.                                           *)
(***************************************************************************)
EXTENDS Machine, Encoding, SequencesExt

CONSTANTS
    ELF_START,   \* 0x10000: where the file is loaded
    HeaderLen    \* 0x54: of the ELF header and one program header

VARIABLES
    e_phase,   \* "code", "aligned", "header", "footer" or "file"
    e_data,    \* _e_data and the other buffers, up to their index
    e_symtab,
    e_strtab,
    e_header,
    e_footer,
    file

e_vars == <<e_phase, e_data, e_symtab, e_strtab, e_header, e_footer, file>>

-----------------------------------------------------------------------------
(* Bytes.                                                                  *)

Byte(v) == << v % 256 >>

\* e_write_int: the low byte first.
Int4(v) == [b \in 1..4 |-> (v \div 256 ^ (b - 1)) % 256]

Ints(vs) == FlattenSeq([k \in 1..Len(vs) |-> Int4(vs[k])])

DataByte(k) == 255 + k

\* c_emit
Emitted(w) ==
    LET e == IF w.op = "asm" THEN Int32(w.imm)
             ELSE IF arch = "riscv" THEN EncodeRiscv(w) ELSE EncodeArm(w)
    IN << e.lo % 256, e.lo \div 256, e.hi % 256, e.hi \div 256 >>

e_code == FlattenSeq([k \in 1..Len(code) |-> Emitted(code[k])])

\* The codes of the characters of a name; that of each is left open.
Letters == "_.abcdefghijklmnopqrstuvwxyz"

Chars(name) ==
    [k \in 1..Len(name) |->
        CHOOSE c \in 1..Len(Letters) : SubSeq(Letters, c, c) = SubSeq(name, k, k)]

-----------------------------------------------------------------------------
(* Symbols.                                                                *)

Tables(symtab, strtab) == [symtab |-> symtab, strtab |-> strtab]

\* Mutant: the name starts behind the terminator of the one before.
AddSymbolBehind(t, s) ==
    Tables(t.symtab \o Ints(<< Len(t.strtab) + 1, s.value, 0, IF s.value = 0 THEN 0 ELSE 2 ^ 16 >>),
           t.strtab \o Chars(s.name) \o Byte(0))

\* e_add_symbol; _e_symbol_idx counts them.
e_add_symbol(t, s) ==
    Tables(t.symtab \o Ints(<< Len(t.strtab), s.value, 0, IF s.value = 0 THEN 0 ELSE 2 ^ 16 >>),
           t.strtab \o Chars(s.name) \o Byte(0))

\* The undefined symbol of p_initialize comes first.
AllSymbols == << [name |-> "", value |-> 0] >> \o symbols

SymbolTables == FoldLeft(e_add_symbol, Tables(<< >>, << >>), AllSymbols)

-----------------------------------------------------------------------------
(* e_generate.                                                             *)

ElfInit ==
    /\ Init
    /\ e_phase = "code"
    /\ e_data = << >> /\ e_symtab = << >> /\ e_strtab = << >>
    /\ e_header = << >> /\ e_footer = << >> /\ file = << >>

\* e_align; a buffer holds zeroes behind its index, as memory fresh from the
\* system does.
Aligned(bytes) == bytes \o [k \in 1..((4 - (Len(bytes) % 4)) % 4) |-> 0]

DataLength == program.data + SizeOf(program.globals, Len(program.globals))

e_align ==
    /\ phase = "done" /\ e_phase = "code"
    /\ e_data' = Aligned([k \in 1..DataLength |-> DataByte(k)])
    /\ e_symtab' = Aligned(SymbolTables.symtab)
    /\ e_strtab' = Aligned(SymbolTables.strtab)
    /\ e_phase' = "aligned"
    /\ UNCHANGED <<e_header, e_footer, file>>

elf_machine == IF arch = "riscv" THEN 243 ELSE 40

\* 0x5000200, which is ARM's EABI version; both backends return it.
elf_flags == 83886592

CodeLen == Len(e_code)
ShStrLen == 39

\* Where the section headers start.
SectionHeaders ==
    HeaderLen + CodeLen + Len(e_data) + ShStrLen + Len(e_symtab) + Len(e_strtab)

e_generate_header ==
    /\ e_phase = "aligned"
    /\ e_header' =
           Int4(1179403647) \o << 1, 1, 1, 0 >> \o Ints(<< 0, 0 >>)
           \o << 2, 0, elf_machine, 0 >>
           \o Ints(<< 1, ELF_START + HeaderLen, 52, SectionHeaders, elf_flags >>)
           \o << 52, 0, 32, 0, 1, 0, 40, 0, 6, 0, 5, 0 >>
           \o Ints(<< 1, HeaderLen, ELF_START + HeaderLen, ELF_START + HeaderLen,
                      CodeLen + Len(e_data), CodeLen + Len(e_data), 7, 4 >>)
    /\ e_phase' = "header"
    /\ UNCHANGED <<e_data, e_symtab, e_strtab, e_footer, file>>

\* The names of the sections, each with a zero before it.
ShStr ==
    Byte(0) \o FlattenSeq([k \in 1..5 |->
        Chars(<< ".shstrtab", ".text", ".data", ".symtab", ".strtab" >>[k]) \o Byte(0)])

Section(name, type, flags, addr, offset, size, link, info, align, entsize) ==
    Ints(<< name, type, flags, addr, offset, size, link, info, align, entsize >>)

e_generate_footer ==
    /\ e_phase = "header"
    /\ LET data == HeaderLen + CodeLen
           symtab == data + Len(e_data)
           strtab == symtab + Len(e_symtab)
           shstr == strtab + Len(e_strtab)
       IN e_footer' =
           e_symtab \o e_strtab \o ShStr
           \o Section(0, 0, 0, 0, 0, 0, 0, 0, 0, 0)
           \o Section(11, 1, 7, ELF_START + HeaderLen, HeaderLen, CodeLen, 0, 0, 4, 0)
           \o Section(17, 1, 3, CodeStart + CodeLen, data, Len(e_data), 0, 0, 4, 0)
           \o Section(23, 2, 0, 0, symtab, Len(e_symtab), 4, Len(AllSymbols), 4, 16)
           \o Section(31, 3, 0, 0, strtab, Len(e_strtab), 0, 0, 1, 0)
           \o Section(1, 3, 0, 0, shstr, ShStrLen, 0, 0, 1, 0)
    /\ e_phase' = "footer"
    /\ UNCHANGED <<e_data, e_symtab, e_strtab, e_header, file>>

e_output ==
    /\ e_phase = "footer"
    /\ file' = e_header \o e_code \o e_data \o e_footer
    /\ e_phase' = "file"
    /\ UNCHANGED <<e_data, e_symtab, e_strtab, e_header, e_footer>>

Generate == e_align \/ e_generate_header \/ e_generate_footer \/ e_output

ElfSpec ==
    /\ ElfInit
    /\ [][(Next /\ UNCHANGED e_vars) \/ (Generate /\ UNCHANGED vars)]_<<vars, e_vars>>

-----------------------------------------------------------------------------
(* How a loader and a debugger read a file: external, from the ELF manual. *)

ReadInt(at) == file[at + 1] + file[at + 2] * 256 + file[at + 3] * 65536 + file[at + 4] * 16777216

ReadShort(at) == file[at + 1] + file[at + 2] * 256

Slice(at, n) == SubSeq(file, at + 1, at + n)

\* Fields of the ELF header.
Entry == ReadInt(24)
ProgramHeader == ReadInt(28)
SectionHeader(k) == ReadInt(32) + k * ReadShort(46)

\* The file position of a loaded address.
Segment(field) == ReadInt(ProgramHeader + 4 * field)
Position(address) == address - Segment(2) + Segment(1)

\* A word of 32 bits at a position, and the instruction it is.
WordAt(at) ==
    LET w == [lo |-> ReadShort(at), hi |-> ReadShort(at + 2)]
    IN IF arch = "riscv" THEN DecodeRiscv(w) ELSE DecodeArm(w)

SectionField(k, field) == ReadInt(SectionHeader(k) + 4 * field)

\* The string at an offset of a string section.
StringAt(k, offset) ==
    LET start == SectionField(k, 4) + offset
        ends == {i \in 0..(SectionField(k, 5) - offset) : file[start + i + 1] = 0}
    IN IF ends = {} THEN << 0 >>
       ELSE Slice(start, CHOOSE i \in ends : \A j \in ends : i <= j)

-----------------------------------------------------------------------------
(* Properties.                                                             *)

\* The segment holds the code and the data, in the file and at the addresses
\* the code was generated for; a processor that starts at the entry decodes
\* the very instructions that the backend meant, registers, offsets and
\* rotated constants included.
LoadsAsGenerated ==
    e_phase = "file" =>
        /\ Segment(0) = 1 /\ Segment(4) = Segment(5)
        /\ Segment(1) + Segment(4) <= Len(file)
        /\ Entry = CodeStart
        /\ \A k \in 1..Len(code) :
               LET at == Position(Entry) + 4 * (k - 1) IN
               IF code[k].op = "asm" THEN ReadInt(at) = code[k].imm ELSE WordAt(at) = code[k]
        /\ \A k \in 1..DataLength : file[Position(CodeStart + data_start) + k] = DataByte(k)

\* Every section header points at its section, which has its name, lies within
\* the file and overlaps no other; the symbol table leads through the string
\* table to every symbol's name and address; the data section is loaded where
\* its address says.
SectionsResolve ==
    e_phase = "file" =>
        /\ Len(file) = SectionHeader(ReadShort(48))
        /\ \A k \in 1..5 :
               /\ StringAt(ReadShort(50), SectionField(k, 0))
                      = Chars(<< ".text", ".data", ".symtab", ".strtab", ".shstrtab" >>[k])
               /\ SectionField(k, 4) + SectionField(k, 5) <= ReadInt(32)
               /\ \A j \in 1..5 : j # k =>
                      \/ SectionField(j, 4) + SectionField(j, 5) <= SectionField(k, 4)
                      \/ SectionField(k, 4) + SectionField(k, 5) <= SectionField(j, 4)
        /\ \A k \in {1, 2} : SectionField(k, 3) - SectionField(k, 4) = ELF_START
        /\ SectionField(2, 3) % 4 = 0 /\ SectionField(2, 4) % 4 = 0
        /\ SectionField(3, 5) = 16 * Len(AllSymbols)
        /\ \A s \in 1..Len(AllSymbols) :
               LET at == SectionField(3, 4) + 16 * (s - 1) IN
               /\ StringAt(SectionField(3, 6), ReadInt(at)) = Chars(AllSymbols[s].name)
               /\ ReadInt(at + 4) = AllSymbols[s].value
=============================================================================
