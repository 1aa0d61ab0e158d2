------------------------------- MODULE Driver -------------------------------
(***************************************************************************)
(* Driver::compileFile (src/src/driver/driver.cpp) over several files, with *)
(* the CompilerContext that outlives them and main() around it.            *)
(*                                                                         *)
(* A file is what the passes make of it: the names and literals the lexer  *)
(* meets, whether an error is reported, its functions and the literals     *)
(* that are lowered.  main() compiles one file; nothing in the classes     *)
(* says so, and the context has beginFile() and endFile().                 *)
(***************************************************************************)
EXTENDS Interner, FiniteSets, Functions

CONSTANTS
  File,           \* fileArena_
  MaxFiles,       \* bounds: files compiled by one driver,
  MaxLiterals,    \* string literals in a file,
  MaxFunctions    \* functions in a file

ASSUME DriverAssumption == /\ File \in Arenas \ {Program}
                           /\ Constructed = {Program, File}
                           /\ {MaxFiles, MaxLiterals, MaxFunctions} \subseteq Nat

VARIABLES
  phase,      \* where compileFile is; "idle" between two calls
  file,       \* the number of the file
  errors,     \* errorCount_
  literals,   \* the string literals of this file so far
  functions,  \* the functions of this file
  strings,    \* SymbolTable::strings
  out,        \* the backend's out_
  faulty,     \* history: the files an error was reported for
  refused     \* history: the files compileFile gave up on

unitVars == <<literals, functions>>
driverVars == <<phase, file, errors, literals, functions, strings, out, faulty, refused>>
allVars == <<vars, lifeVars, internVars, driverVars>>

DriverInit ==
  /\ LifeInit /\ InternerInit
  /\ phase = "idle" /\ file = 0 /\ errors = 0
  /\ literals = 0 /\ functions = 0
  /\ strings = << >> /\ out = << >>
  /\ faulty = {} /\ refused = {}

Between == request = NoRequest /\ call = NoCall
In(p) == phase = p /\ Between
Unchanged == UNCHANGED <<vars, lifeVars, internVars>>

\* Mutant: the error count is not reset.
BeginFileCounting ==
  /\ In("idle") /\ File \in alive /\ file < MaxFiles
  /\ Reset(File)
  /\ phase' = "open" /\ file' = file + 1
  /\ literals' = 0 /\ functions' = 0
  /\ UNCHANGED <<errors, strings, out, faulty, refused, lifeVars, internVars>>

\* compileFile() begins with beginFile(): the file's arena and error count.
BeginFile ==
  /\ In("idle") /\ File \in alive /\ file < MaxFiles
  /\ Reset(File)
  /\ phase' = "open" /\ file' = file + 1
  /\ errors' = 0
  /\ literals' = 0 /\ functions' = 0
  /\ UNCHANGED <<strings, out, faulty, refused, lifeVars, internVars>>

\* Lexer::open(): a file that cannot be opened ends the process.
Exit ==
  /\ In("open")
  /\ phase' = "exited"
  /\ Unchanged /\ UNCHANGED <<file, errors, unitVars, strings, out, faulty, refused>>

Open ==
  /\ In("open")
  /\ \E t \in Texts : Intern(t)
  /\ phase' = "parse"
  /\ UNCHANGED <<file, errors, unitVars, strings, out, faulty, refused>>

\* The parser asks the lexer for tokens; identifiers and line directives are interned.
Name ==
  /\ In("parse")
  /\ \E t \in Texts : Intern(t)
  /\ UNCHANGED driverVars

Literal ==
  /\ In("parse") /\ literals < MaxLiterals
  /\ \E pieces \in 1..2 : StringLiteral(pieces)
  /\ UNCHANGED driverVars

FinishLiteral ==
  /\ request.of = "string" /\ ~Waiting
  /\ literals' = literals + 1
  /\ request' = NoRequest
  /\ UNCHANGED <<vars, lifeVars, buckets, names>>
  /\ UNCHANGED <<phase, file, errors, functions, strings, out, faulty, refused>>

\* Diagnostics::error(), by the lexer, the parser or the checker.  The count
\* only matters as zero or not.
ReportError ==
  /\ In("parse") \/ In("check")
  /\ errors = 0
  /\ errors' = errors + 1
  /\ faulty' = faulty \cup {file}
  /\ Unchanged /\ UNCHANGED <<phase, file, unitVars, strings, out, refused>>

\* The test behind the parser and behind the checker.
ProceedUnlessErrors(p) ==
  IF errors > 0 THEN phase' = "close" /\ refused' = refused \cup {file}
  ELSE phase' = p /\ UNCHANGED refused

Parsed ==
  /\ In("parse")
  /\ functions' \in 0..MaxFunctions
  /\ ProceedUnlessErrors("check")
  /\ Unchanged /\ UNCHANGED <<file, errors, literals, strings, out, faulty>>

\* Mutant: only the parser's errors are tested for.
CheckedAnyway ==
  /\ In("check")
  /\ phase' = "generate"
  /\ Unchanged /\ UNCHANGED <<file, errors, unitVars, strings, out, faulty, refused>>

Checked ==
  /\ In("check")
  /\ ProceedUnlessErrors("generate")
  /\ Unchanged /\ UNCHANGED <<file, errors, unitVars, strings, out, faulty>>

Item(kind, i) == [kind |-> kind, file |-> file, nth |-> i]

\* addString() for each literal the generator comes to; it does not visit all.
Generate ==
  /\ In("generate")
  /\ \E n \in 0..literals : \E lowered \in [1..n -> 1..literals] :
       /\ \A i, j \in 1..n : i < j => lowered[i] < lowered[j]
       /\ strings' = strings \o [i \in 1..n |-> Item("string", lowered[i])]
  /\ phase' = "emit"
  /\ Unchanged /\ UNCHANGED <<file, errors, unitVars, out, faulty, refused>>

\* All the strings of the context and this file's functions are appended to
\* the backend's output, which is then written whole.
Emit ==
  /\ In("emit")
  /\ out' = out \o strings \o [i \in 1..functions |-> Item("function", i)]
  /\ phase' = "assemble"
  /\ Unchanged /\ UNCHANGED <<file, errors, unitVars, strings, faulty, refused>>

\* system(): as and gcc, whatever they say of the output.
Assemble ==
  /\ In("assemble")
  /\ phase' = "close"
  /\ Unchanged /\ UNCHANGED <<file, errors, unitVars, strings, out, faulty, refused>>

\* Mutant: endFile() resets the arena the interner uses.
EndFileProgram ==
  /\ In("close")
  /\ Reset(Program)
  /\ phase' = "idle"
  /\ UNCHANGED <<file, errors, unitVars, strings, out, faulty, refused, lifeVars, internVars>>

EndFile ==
  /\ In("close")
  /\ Reset(File)
  /\ phase' = "idle"
  /\ UNCHANGED <<file, errors, unitVars, strings, out, faulty, refused, lifeVars, internVars>>

\* allocate() in progress; nobody catches the bad_alloc that ends it without memory.
GrowArena ==
  /\ Grow
  /\ phase' = IF call' = NoCall THEN "exited" ELSE phase
  /\ UNCHANGED <<lifeVars, internVars, file, errors, unitVars, strings, out, faulty, refused>>

\* The end of main(): the context's members go in the reverse of their order.
Return ==
  /\ In("idle") /\ file > 0
  /\ IF File \in alive THEN Destroy(File) ELSE Destroy(Program)
  /\ UNCHANGED <<internVars, driverVars>>

Compile ==
  \/ BeginFile \/ Exit \/ Open \/ Name \/ Literal \/ FinishLiteral \/ ReportError
  \/ Parsed \/ Checked \/ Generate \/ Emit \/ Assemble \/ EndFile

Memory ==
  \/ (Ask \/ Take \/ Link) /\ phase # "exited" /\ UNCHANGED driverVars
  \/ GrowArena

DriverNext == Compile \/ Memory \/ Return
DriverSpec == DriverInit /\ [][DriverNext]_allVars

-----------------------------------------------------------------------------
(* Properties.                                                             *)

\* One file's errors are its own: compileFile gives up on exactly the files an
\* error was reported for, whichever pass reported it and whatever came before.
RefusedExactly == phase = "idle" => refused = faulty

\* What is written for a file defines each of its functions and each of its
\* lowered literals once, and nothing of a file that had an error.  (A later
\* file's output also holds what earlier files left in the backend and in the
\* list of strings; that of the first is exactly its own.)
OutputExact ==
  phase = "assemble" =>
    LET times(item) == Cardinality({i \in DOMAIN out : out[i] = item})
        own == {s \in Range(strings) : s.file = file} \cup {Item("function", i) : i \in 1..functions}
    IN /\ \A item \in own : times(item) = 1
       /\ \A item \in Range(out) : item.file \notin faulty
       /\ refused \cup {file} = 1..file => Range(out) = own
=============================================================================
