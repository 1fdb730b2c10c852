------------------------------ MODULE Source ------------------------------
(***************************************************************************)
(* s_load of source.c: the lines of a file are appended to the source      *)
(* text, and an #include "..." line loads another file in its place, with  *)
(* the including file still open.  The recursion is the stack `open`.      *)
(*                                                                         *)
(* The file system is external: a file is a sequence of characters, a path *)
(* a sequence of characters too, and fopen fails for a file that does not  *)
(* exist or when MaxOpen files are open.  s_load does not look at what     *)
(* fopen returns; reading from no file ends the program.                   *)
(***************************************************************************)
EXTENDS Characters

CONSTANTS
    FileSystems,   \* the file systems to load from: functions from paths
    MainPath,      \* the path on the command line
    MaxOpen        \* external: how many files a process may have open

VARIABLES
    files,    \* the file system; never changes
    open,     \* the activations of s_load: path and position, main first
    source,   \* _source up to _source_idx
    loading   \* "running", "loaded" or "crash"

-----------------------------------------------------------------------------

\* fopen, for the next activation of s_load on a stack of n.
CanOpen(path, n) == path \in DOMAIN files /\ n < MaxOpen

\* Entering s_load with the caller's stack already advanced.
Enter(stack, path) ==
    IF CanOpen(path, Len(stack))
    THEN /\ open' = Append(stack, [path |-> path, pos |-> 0])
         /\ UNCHANGED loading
    ELSE /\ loading' = "crash"
         /\ open' = stack

Init ==
    /\ files \in FileSystems
    /\ source = <<>>
    /\ IF CanOpen(MainPath, 0)
       THEN open = << [path |-> MainPath, pos |-> 0] >> /\ loading = "running"
       ELSE open = <<>> /\ loading = "crash"

Top == open[Len(open)]

Text == files[Top.path]

\* Where the line that fgets reads next ends: behind its newline, or at the
\* end of the file.
LineEnd ==
    LET j == After(Text, Top.pos, LAMBDA c : c \notin {NL, End})
    IN  IF At(Text, j) = NL THEN j + 1 ELSE j

Line == SubSeq(Text, Top.pos + 1, LineEnd)

Advanced == [open EXCEPT ![Len(open)].pos = LineEnd]

Reading == loading = "running" /\ Top.pos < Len(Text)

Opening == <<"#", "include", " ", "\"">>

IsInclude == Len(Line) >= 4 /\ SubSeq(Line, 1, 4) = Opening

\* The index of the last / of a path, or the start of the path.
LastSlash(path) ==
    CHOOSE c \in 1..Len(path) :
        /\ \A k \in (c + 1)..Len(path) : path[k] /= "/"
        /\ c > 1 => path[c] = "/"

\* Mutant: paths are taken relative to the directory the compiler runs in.
DirectoryNone(path) == <<>>

\* The directory of the including file, unless the only / is its first
\* character.
Directory(path) ==
    LET c == LastSlash(path) IN IF c /= 1 THEN SubSeq(path, 1, c) ELSE <<>>

\* buffer[strlen(buffer) - 2] = 0 cuts the quote and the newline.
IncludedPath == Directory(Top.path) \o SubSeq(Line, 5, Len(Line) - 2)

LoadLine ==
    /\ Reading
    /\ ~IsInclude
    /\ source' = source \o Line
    /\ open' = Advanced
    /\ UNCHANGED <<files, loading>>

\* Mutant: the including file goes on with the line it has just read.
IncludeAgain ==
    /\ Reading
    /\ IsInclude
    /\ Enter(open, IncludedPath)
    /\ UNCHANGED <<files, source>>

Include ==
    /\ Reading
    /\ IsInclude
    /\ Enter(Advanced, IncludedPath)
    /\ UNCHANGED <<files, source>>

\* fgets finds the end of the file; the caller goes on.
CloseFile ==
    /\ loading = "running"
    /\ Top.pos = Len(Text)
    /\ open' = SubSeq(open, 1, Len(open) - 1)
    /\ loading' = IF Len(open) = 1 THEN "loaded" ELSE loading
    /\ UNCHANGED <<files, source>>

Next == LoadLine \/ Include \/ CloseFile

=============================================================================
