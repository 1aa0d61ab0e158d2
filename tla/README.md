# TCC_Pro in TLA+

TCC_Pro is a C compiler written in C++: it lexes, parses and checks a file,
lowers it to basic blocks and prints 32-bit x86 assembly. This directory models
its passes and its memory allocator, checks the models with TLC, and proves the
main safety properties of the allocator, the interner, the driver, the symbol
table, the lexer, the types, the IR generator and the emitter's labels with TLAPS,
for every instance. Paths below are relative to `src/src/`.

## 1. Inventory

The compiler runs on one thread. A file goes through

    Lexer -> Parser -> SemanticChecker -> IRGenerator -> Backend -> as, gcc

under `Driver::compileFile`, which stops after a pass that reported an error.
`CompilerContext` owns what the passes share: two arenas, the interner, the
diagnostics, the types and the symbol table. There is no concurrency. What is
hard is state that outlives the call that made it (the allocator's chains, the
scopes, the label and slot numbers), order (which block is placed when, which
pass sees which name), look-ahead, recovery after a syntax error, and loops that
end only if every step makes progress.

| component | state | operations | with whom | correct when |
|---|---|---|---|---|
| `common/arena.cpp` | chain of blocks per arena, `last_`; one static free list | `allocate`, `reset`, `clear`, moves, destructor | every arena, through the free list | live memory is never handed out again or lost; no block is on two lists; a block is freed once |
| `lex/lexer.cpp` | `cursor_`, `line_`, current token, the saved peek | `nextToken`, `beginPeek`, `endPeek` | called by the parser, one token at a time | stays in the text, loses nothing, longest operator, right lines, a peek leaves no trace, reaches the end |
| `parse/parser.cpp` | current token, the recursion | one `parse...` method per construct | pulls tokens; builds the tree | the tree says what the text says, grouped as C groups it; it ends on any text |
| `symbol/symbol.cpp` | hash chains per scope, level, lists of functions, variables, strings, constants; counters | `enterScope`, `exitScope`, `lookupID`, `add...`, `create...` | used by checker, generator, backend | a stack of scopes; the innermost declaration is found |
| `sema/sema.cpp` | scopes while walking | one `visit` per node | first pass over the tree | declares and looks up as C scopes names; the next pass agrees |
| `ir/ir_gen.cpp` | blocks, current block, temporaries | one `visit` or `translate...` per node | second pass over the tree, same table | the blocks do what the source does; edges and layout are right |
| `codegen/x86_backend.cpp` | labels, slots, the text | `emitFunction`, `emitIR` per opcode | reads the blocks | the assembly is encodable and does what the source does |
| `driver/driver.cpp`, `common/compiler_context.cpp`, `main.cpp` | arenas, pass order, the backend's output, the table's strings | `compileFile`, `beginFile`, `endFile` | calls everything | a file is refused for its own errors and no others; its output holds what it defines, once; memory that outlives a file is not reset |
| `type/type.cpp` | types | layout of records, derived types, compatible and composite types, conversion | sema, generator (`commonRealType`, `intType`, `typeCode`) | C's rules |
| `common/string_interner.cpp` | hash chains of names | `intern` | lexer; allocates from the program's arena; names are compared by pointer | equal strings, equal pointers, for as long as the compiler runs |
| `common/diagnostics.cpp` | error count | `error`, `fatal`, `reset` | every pass; tested by the driver | the count is the file's |
| `ast/` | the tree | constructors, `accept` | built by the parser, read by the later passes | a tree without an error has every child a pass needs |
| `lex/token.cpp`, `ir/ir.cpp`, `codegen/backend.*` | tables | - | - | not modelled: tables of names and stubs |

`PROJECT.json` lists the hazards of this code line by line ("hazards"), with the
properties that guard against each.

## 2. Modules

    Arena <- ArenaLifetime <- Interner <- Driver       ScopeStack (abstract)
                                                           ^ refinement
                                                       SymbolTable <- Scoping
    Literals <- Lexer
    Layout <- Types                    IRGen, SourceC (reference) <- IRRun
                                       IRGen <- X86Emit, SourceC  <- X86Run
    Parser <- CGrammar (reference) <- Compiler, with X86Emit as an instance

    ArenaProofs   EXTENDS ArenaLifetime           TypesProofs    EXTENDS Types
    DriverProofs  EXTENDS Driver, ArenaProofs     IRGenProofs    EXTENDS IRGen
    ScopingProofs EXTENDS Scoping                 X86EmitProofs  EXTENDS X86Emit,
    LexerProofs   EXTENDS Lexer                                  IRGenProofs

`MC*` modules give constants their values; `MCTrees` holds the syntax trees the
two code-generation runs use. `PROJECT.json` maps every definition to the lines
it models.

**Arena** (`common/arena.cpp`). A node is an arena (its embedded `head_`) or a heap
block; `next`, `last`, `avail`, `cap` and `freeBlocks` are the code's fields, in units of
the alignment. `allocate` is a call in progress: `Allocate` enters it,
`TakeFreeBlock`, `MallocBlock` and `MallocFails` are the turns of its loop (a failing
`malloc` leaves null in `last_->next` and throws), `Bump` returns. `live` and `home`
are history variables: the allocations not given up, and the list each block
was last put on. **ArenaLifetime** adds move construction, move assignment and the
destructor, which walks the arena's chain and the shared free list and leaves
`freeBlocks_` as it is.

**Interner** (`common/string_interner.cpp`, and the string literals of the lexer, the
other client of that arena). A name is the memory `intern` returned. `Intern` searches
the chain; for a new text two requests are made of the arena one after the other
(`Ask`, the arena's own steps, `Take`), each of which may grow the arena or fail, and
`Link` enters the bucket. **Driver** is `compileFile` and `main` above it: `BeginFile` and
`EndFile` reset the file's arena and the error count, `Name` and `Literal` are what the lexer
allocates while the parser runs, `ReportError` an error of any pass, `Parsed` and `Checked`
the two tests, `Generate` the list of strings, `Emit` the output. `Exit` is
`Diagnostics::fatal`; a failing `malloc` ends the process too (nobody catches
`bad_alloc`). `Return` destroys the context's arenas in the order C++ does. The context
constructs two arenas and there is no third (`DriverAssumption`).

**Compiler** composes the passes on one text. The parser's own module runs until it is
done; `Check` refuses or not; `FunctionsOf` reads the parser's tree as the generator's
visitors do, class by class; then the generator's and the emitter's own modules
run. Every `ID` of a text is the same name, so when the checker meets a name it may
be declared or not, and `Check` may do either; every number is nonzero.

**ScopeStack** is what a table with nested scopes promises. **SymbolTable** is the
code: arrays of hash chains, newest first, a chain of scopes, and the function
whose list takes the variables; it maps to ScopeStack by reading the first
symbol of each name in each scope. **Scoping** is the two walks over one table. The
checker's walk makes up any tree as it goes and records it; the generator then
walks the record. (Of a `for` statement the checker visits the increment before the body and the
generator after it, `sema.cpp:97`, `ir_gen.cpp:581`. The record is in the generator's order, which for
the checker comes to the same: an increment declares nothing, and a body leaves the
checker's scopes as it found them.) The two differ in the code and in the model: the checker
opens a scope per compound statement and does not look into initialisers, calls,
unary expressions and switches; the generator has one scope per function,
declares a name before translating its initialiser, and declares an unknown
name as an extern variable.

**Layout** and **Types** (`type/type.cpp`). The heap of `Type` objects is a sequence, a
pointer an index, so types are compared by identity as in the code. `endRecord` runs one
member per step. A client says which types a run starts from and how much it
builds; `ClientAssumption` says that those are types as the context builds them
(`WellBuilt`), none of them a record yet. Every operation is modelled for whatever it is
given; what C does not let a client ask for (an array of functions, a bit-field that is
not an int, a nameless member that is held elsewhere) is left out where a client calls
it, in `Derive`, `Record` and `TypesNext`. A failed assertion ends the process (`Ended`), also in a nested
`compositeType`. Function types may share a `Signature` object, and `WriteParam` changes
all of them. `isCompatible` and `compositeType` recur over two types at once and are
functions of the depth left. `composed` is a history variable.

**Lexer** and **Literals**. A text is a sequence of characters followed by the 255 byte `open`
stores; the mapping has room for it unless the file is empty or of whole pages
(`SentinelFits`), and then the store ends the process. The loops of `skipWhiteSpace` and of the two literals are steps; every
scanner is an action. `BeginPeek` and `EndPeek` are used as `parseStatement` uses them, with
`EndPeek` restoring the cursor and not the line. Directives are followed word by word
(`NamesLine`, `QuoteAt`), as `scanPPLine` is. A cursor that leaves the mapping
goes to mode `overrun`. `again` and `reread`, the number of newlines peeks have run over twice, are history variables. A token carries the value
of an integer literal and whether the warning was given; Literals is the two-word
arithmetic of `scanIntLiteral`, for any word size. `TextAssumption` says that texts are
made of the characters the scanners tell apart.

**Parser**. The recursion is an explicit stack `work`; an action pops a task, does
what the method does before its first call and pushes the rest; `vals` holds the
nodes returned. Every method that consumes tokens or builds nodes is an action.
Token kinds the parser treats alike are one kind. `expect` consumes nothing on an
error, as in the code. `dropped` (history) notes the positions the parser passes
over. `parseTranslationUnit` does not end on some texts (section 6); `MaxExternals`
cuts that loop and `UnitStuck` names the state. **CGrammar** is the reference:
`Reference` groups an expression by splitting it at the operator that binds last,
`Reading` turns a tree back into tokens. It uses RECURSIVE operators and is never
proved about.

**IRGen**. The visitor's recursion is a stack again, and a task is the rest of a
method. Blocks have their instructions, `next`, `succs` and `preds`; `cur` is
`currentBB_`. Everything is kept that decides control: `createBBlock`, `startBBlock`,
`genJump`, `genBranch`, `translateBranch`, `translateTest`, all statements, the stubs for
break, continue and goto, and the exit block of `visit(Function)`. A constant keeps
only whether it is zero. `Trees` are the nodes of the programs' trees; `TreesAssumption`
says of them what the parser and the checker guarantee, namely that a construct has
its operands, except those the syntax makes optional (`WellFormed`).

**SourceC** is the reference semantics: a continuation machine over the same tree,
whose observable events are a test of an unknown value, a call, a store to a
variable and the return. **IRRun** runs the blocks, and **X86Run** the assembly of
**X86Emit**, in step with it: both sides run silently to their next event; a test
goes either way, the same way in both.

**X86Emit** (`codegen/x86_backend.cpp`): the text is a sequence of instructions with
operands; every case of `emitIR` is modelled, with its missing stores and its
opcodes printed as comments. Labels and slots are assigned when first printed,
as `createLabel` and `getAccessName` do.

## 3. Runs

All passing runs are complete explorations of their instance.

| run | instance | states | shows |
|---|---|---|---|
| `arena` | 2 arenas, 3 blocks, block size 1, requests 1 and 2, moves, one destructor | 143,210 | TypeOK, UniqueReference, LiveDisjoint, LiveReachable under any calls and any malloc failure |
| `driver` | 2 files, 3 texts of which 2 share a bucket, 2 literals and 1 function a file, 4 blocks | 157,134 | InternExact, NamesIntact, RefusedExactly, OutputExact; NoDangling and AllFreed to the end of main() |
| `arena_leak` | 2 arenas, 3 blocks | - | NoLeak is violated (finding 1) |
| `scoping` | 2 names in one bucket, 2 functions, nesting 1, 3 events, 8 symbols | 754,768 | refinement of ScopeStack, UsesMeant, FunctionInScope, PassesAgree, ListedTwice |
| `ir_run` | all statement forms around all test forms | 52,110 | LaidOutOnce, EdgesExact, Faithful, BlocksProgress |
| `ir_assign` | the loop of control_while.c | - | Faithful is violated (finding 2) |
| `x86_run` | all of these are emitted; those the backend can finish are run | 67,104 | LabelsDefined, OperandsEncodable, SlotsWritten, AsmFaithful |
| `x86_early_return` | a return inside an if | - | AsmFaithful is violated (finding 3) |
| `lexer` | all texts of 2 characters over 17, of 4 or 5 over each feature's characters, integers of up to 5 digits, with and without a final newline; words of 6 bits, pages of 7 characters | 354,075 | InBounds, LineExact, ValueExact, MaximalMunch, PeekTransparent, ReachesEnd |
| `parser` | some 3,900 texts, through all passes | 188,475 | KeepsTokens, GroupsLikeC, ElseNearest, DiesForCallsOnly, Halts |
| `types` | ten clients: flat records of 4 members of every sort, records in records to depth 3, derived types, function types with Signatures shared and not, old-style functions, arrays of unknown length behind pointers, qualified pointers, all pairs of arithmetic types | 259,335 | FieldsDisjoint, FieldsAligned, CompatibleSymmetric, CompositeCompatible, CompositeNarrows, ArithmeticAsC |
| `parser_grouping` | `i = i + 1;` and two like it | - | GroupsAsC is violated (finding 4) |

### Why the bounds are enough

*Arena.* Three blocks allow a chain that has been reset in the middle, a spare
block behind it and one on the free list; two arenas are what the program has,
and the least that share a list. Requests of one and two units around block size
one give blocks that fit and blocks from the list that do not. Blocks are
interchangeable, and so are the arenas where both do everything, hence the
symmetry. The safety invariants are proved for any number anyway.

*Driver.* Two files are the least for which state can be left over. Three texts make
a chain of two and one of one; a bucket and its characters together exceed a
block, so names fall across blocks and `bad_alloc` can come between the two. Four
blocks let both arenas grow, and be given back, with one to spare.

*Types.* Four members make a unit shared by two bit-fields, the member that closes
it and one behind it; two levels of records reach `addOffset`. Compatibility is
decided over all pairs of a pool of up to three derived types on each client's base, and
any two types of the pool are composed. For each condition of the two Composite
properties one client builds the types that need it: function types that share a
`Signature` or stand in two places, arrays of pointers to arrays of unknown length,
old-style functions as parameters, and qualified pointers. Without the condition the run
ends in a violation.

*Lexer.* A scanner looks at most three characters ahead, so texts of five
characters over the characters of one feature reach every way it can break off.
The 32 bits of a word are scaled to 6, with two words for values below 4096: decimal
digits then overflow either word, also by the carry of the addition alone (70), and
so do octal and hexadecimal ones. The code is the same at every width.

*Parser.* A pair of operators decides grouping; the 13 operators have one
representative per precedence at least. Four statement pieces make two open ifs
with an else and a loop or block between. Most texts are wrong on purpose. For
DiesForCallsOnly a call stands in every place of every statement and on either side
of every operator that passes a null symbol on.

*IRGen and X86.* Each statement form is combined with each test form, the tests
nest `&&`, `||`, `!` and comparisons in each other, and selected statements nest
two deep. `IRRun` then explores every outcome of every test.

*Scoping.* The record of events also says what C means by a name (`Meant`), on the text alone;
it is what UsesMeant holds the chains against. One bucket is the worst case for the chains. Two names and three
events allow a declaration, a hidden one and a use, in either pass.

### Conditions in the properties

Some properties hold only under a condition, because the code does not do better;
each is stated in the property, and the runs reach states where it is true.
`LineExact` leaves out texts with one of three shapes that swallow a newline: a `#` with
a line number (or `line`) and no file name before the end of its line, `/*` and a
backslash at the end of a line. Other directives are in. Behind a peek over line ends a token may
be ahead by the newlines that were read twice, and by no more.
`InBounds` and `ReachesEnd` are about files that end in a newline and are not of whole
pages, for which `open` writes behind its mapping (`lexer.cpp:97`); `ReachesEnd` assumes no
token begins with an illegal character (`scanBadChar` would call itself for
ever). `UsesMeant` is about the checker; `PassesAgree` is about units in which no declaration hides another.
`GroupsLikeC` is about expressions in which no operator binds tighter than one to
its left. `Halts` excludes `case` and `default` (whose handler calls itself) and
the stuck file-level loop; it is about the whole compilation, the later passes
included. `OutputExact` demands that a file's output is exactly its own only while no file
was compiled before it: a second file's also holds the first's functions and
strings, since neither the backend's text nor the table's list is reset (README.md:16
calls the pipeline re-entrant; `main` compiles one file). `OperandsEncodable` has no
condition on the program: the backend does print lines that x86 does not have, namely `leal` into a
slot for `&x`, `divl` of a constant divisor, `cmpl` into a constant for `5 < x` and `!5`, and
a `movl` into one for `++5`; the property says that a unit contains one exactly if it has such
an expression (`Misfit`), whatever surrounds it. `LabelsDefined` is about all programs too;
`AsmFaithful` and `SlotsWritten` are about those that can be assembled.

The type properties leave out what the code does not lay out or compose: a nameless
member right behind a bit-field (moved by the offset before the unit was closed)
and the members of records nested twice (moved twice), both in `Plain`; unions as nameless members, whose
members overlap by intention, in FieldsDisjoint; `long double`,
whose alignment 12 is no power of two (`MaskExact`); unions, whose size is not rounded, in
FieldsAligned; and enums in ArithmeticAsC, which `commonRealType` does not turn into integers.
Three things go wrong in `compositeType`, each with a client in the run: the composite of
qualified pointers points to a pointer (`PlainPointers`); a function type that is used twice in
the operands, or shares its Signature, is completed by its first use, and the assertion can
fail on the second (`Apart`, in CompositeCompatible); and of two arrays, or of a prototype and an
old-style function, one is taken as it stands and what the other knew of its parts is lost,
so that a parameter completed in place can become compatible with what it was not
(`NothingLost`, in CompositeNarrows). None of these is reachable from the
passes, which call only `commonRealType`, `intType` and `typeCode`.

### Fairness

Passes are sequential code: while a method can take its next step, the processor
takes it. So each model with a liveness property has weak fairness of its whole
next-state relation, and nothing stronger. The arena and scoping models are used for
safety only and have none, nor have Driver and Types. Deadlock is checked except
where the system ends: a destroyed arena, the end of main() or of the process, a
finished or stuck compilation, a client of the types that has built all it may.

## 4. Proofs

Each theorem holds for every value of the constants: any number of arenas,
blocks, files, names, any hash function, any text, any syntax tree. What they assume
is stated as named assumptions in the modules that declare the constants; TLC
evaluates them in every run. None of the properties is inductive as it stands. In
each module one invariant is, with a lemma per action; the theorems follow from it.

| module | theorem | says of every behaviour |
|---|---|---|
| ArenaProofs | TypeCorrect | `last_` is never null, and `Bump` never cuts from a head block |
| | NoSharedBlock | UniqueReference |
| | LiveMemorySafe | LiveDisjoint |
| | LiveMemoryReachable | LiveReachable |
| | LifeTypeCorrect | TypeOK, with moves and destructors |
| | SafeUntilDestroyed | NoDangling and the three above while no destructor has run |
| | SafeInFirstDestruction | LiveReachable and the others still hold of the other arenas behind the first one |
| DriverProofs | NamesAreTexts | InternExact |
| | NamesStay | NamesIntact |
| | NothingDangles, GivesAllBack | NoDangling, AllFreed, to the end of `main` |
| | RefusesExactly | RefusedExactly |
| | WritesExactly | OutputExact |
| ScopingProofs | AlwaysInFunction | FunctionInScope |
| | FindsWhatIsMeant | UsesMeant |
| | TableIsStack | ImplementsScopes: the refinement of ScopeStack |
| | PassesConcur | PassesAgree |
| | EachPassLists | ListedTwice |
| LexerProofs | StaysInBounds | InBounds |
| | CountsLines | LineExact, behind directives and peeks too |
| | TakesLongest | MaximalMunch |
| | ReadsExactly | ValueExact: an integer's value and its warning, at any word size |
| | PeeksTransparently | PeekTransparent |
| TypesProofs | TypesStaySound | every type is one that the context builds (`Sound`) |
| | FieldsNeverOverlap | FieldsDisjoint |
| | FieldsStayAligned | FieldsAligned |
| | CompatibilityIsSymmetric | CompatibleSymmetric |
| | ArithmeticIsLikeC | ArithmeticAsC |
| IRGenProofs | LaidOut | LaidOutOnce |
| | EdgesAreExact | EdgesExact |
| X86EmitProofs | LabelsAreDefined | LabelsDefined |

**Arena.** After `reset` the chain behind the first block is still linked, with its old
marks, while `last_` is back at the start: what keeps those blocks from being handed
out twice is that they can be reached only through their own arena. `IInv` says so
with the history variable `home`: every `next` pointer stays within one home (`HomeInv`),
live memory is at home in its arena, blocks never returned by malloc are on no
list (`HeapInv`), and a head block has no room and belongs to its arena (`HeadInv`). A block
that changes hands is taken from the free list, so it was at home there and holds
no live memory; `reset` and `clear` give up an arena's live memory before any of its blocks
change home. Reachability is a second layer, `KeptInv`: a walk along `next` that stops at
`last_` meets every block with live memory of the arena. Only the link of `last_` is ever
overwritten while memory is live, and it is the one the walk does not need. (Walks
are sets closed under `next`, so no induction is needed.)

**ArenaLifetime.** A destructor frees the shared list and leaves `freeBlocks_` pointing
at it, so the links of ArenaProofs are an invariant exactly while `destroyed = 0`. A move
carries a whole chain from one home to another; the embedded head is replaced by
that of the target. The types hold always.

**Interner and Driver.** That the same free list serves an arena that is reset around each
file is harmless for a reason no line of the code states, which the invariant had
to find: only the program's arena ever allocates, and it is never reset. So its
`last_` is the end of its chain, the shared list stays empty, the file's arena stays
without a block, and its destructor, the first to run, frees nothing (`ChainsInv`). What
a request has been handed is new live memory, hence no earlier name, which with the
search of the bucket gives InternExact. `DriverProofs` needs only that the error count is
zero exactly while nothing was reported for the current file, and that what the
backend's text and the table's list hold before `Generate` belongs to earlier files.

**Scoping.** `ScopeInv` relates the table (chains of symbols there are, one level per
scope), the recorded events (function and end alternate, and each function has its
symbol) and where the walk is (a scope is open exactly inside a function). `View` is what the
refinement mapping shows of a table: for each scope and name the first symbol of the chain, found by the
least-element principle. Each operation of the table is then a step of ScopeStack
or a stutter.
For UsesMeant, `TextInv` ties the open scopes to the text: each is a function or a block that is
open there, and shows for a name the latest of its declarations still known (`Shows`). A block that
is closed takes its scope and what is known in it along at the same event; a declaration goes to the
innermost scope on both sides; so what the walk outwards finds first is the latest of all.
What compares the two walks needs to know where an answer came from. While
nothing is hidden, `AgreeInv` says, what a scope shows of a name is the last event that
declared it: functions in the outermost scope (`ShowsFunctions`), variables of the function
being walked in the others (`ShowsLocals`), so the checker's answer to a use is the last
declaration before it (`FoundLast`). The generator's single scope shows the last
declaration of the function so far, or a use for which the name was made up (`ShowsLatest`);
such a use the checker had not seen, or it would have refused the unit.
Nothing of an earlier function can be met, since an "end" lies between. For the lists, each event between a
"function" and its "end" belongs to one function, `currentFunc` is that function when the
event is walked (`FunctionsInv`), and its list counts the event once per pass so far (`ListInv`).

**Lexer.** `Bounds`: the cursor of each scanner stays on the text or its terminator; for
texts that end in a newline the final newline stops every scanner that looks ahead.
`Lines`: `line_` is one more than the newlines passed and those given back by peeks, shown scanner by
scanner because each counts its own; a directive stops before the newline of its line unless
it takes it for a quote, which is the shape excluded. `Munches`: the longest
spelling that begins at the start is the one `scanOperator` returns, by cases over the
first character. The properties' conditions (section 3) are the theorems' too.

*Values.* `Holding` follows the digits through the two words of `scanIntLiteral`: with W values to a
word, the value of the digits read so far is low + W * high + W * W * k for a number
k, and the overflow flag is set exactly when k > 0. The step needs that the
carries of both words, of the multiplication and of the addition, are all counted once.
The value of the digits is a recursive function of an interval of the text; lemmas
carry it along the interval one digit at a time, so no induction is needed beyond
the behaviour's own.

*Peeks.* What a scan returns is a function of the text and of the place it starts at.
`Finds`, the least set of pairs of places and results closed backwards under the
scanners' steps, says which. The token after a peek is found from the place of the one peeked
at, and the two are compared with nothing else of the state in between.

**Types.** Six invariants hold together. `Sound`: every type is as the context
builds it; without it `isCompatible` could run round a cycle and `commonRealType` meet sizes
it does not know. `Structure`: a record being ended is not yet complete, and a complete
record's members are of types that were complete before; a record defined in place (a
nameless member) is held by one member only. `EndingOK`: the open unit belongs to the bit-field
just before. `Extents`: the members of a record that have their place lie behind each
other, all of them below its size, or below the end of the open unit. `Own` and `Held`: a record that is not held
is laid out from 0, one that is held from the offset of its holder.
The last two are what FieldsDisjoint turns on. The members of a nested record are found by
`lookupField` with offsets of the outer one, so they must stay inside the bytes of their
holder: `addOffset` moves them there when the holder gets its place, once, because nobody else holds
them. Two members of a record then lie in different holders, whose extents are disjoint, or
in one, where the record's own extents apply. Alignment adds that
the alignments other than `long double`'s are powers of two, so the smaller divides
the larger, and that a record's is the largest of its members'. Symmetry of
compatibility is an induction on the depth, for qualified, pointer, array and function
types in turn; the conversions are a case analysis of the arithmetic types.

**IRGen.** The hard invariant is about the activation stack. `Lowering` says: each block that
any pending task or instruction of the current function names is placed, or has
exactly one `start` pending; `start` tasks come for distinct fresh blocks; a task that ends in a jump
(`branch`, `test`, `jump`) is followed by a `start`, so nothing is emitted behind a jump; and every
placed block but the current one is finished, by a jump, a return or its `next`. Pushing
the tasks of a method keeps this if the pushed list satisfies the same conditions
over the created blocks (`Fits`, `PushRuns`), which is checked once per statement and
expression; it is here that `TreesAssumption` is needed. When the stack is empty nothing is
pending, so every named block is placed, and the last block ended in the return that
`FinishFunction` looks for. The edges are a second invariant (`Edges`): each list counted
against the instructions and the fall-through, and the predecessor lists against
the successor lists (`Mirrored`).

**X86Emit.** A jump takes a label and trusts that `emitBBlock` will come by its target. That it
does rests on both invariants of IRGen and a third, `WalkInv`: the entries of the functions differ,
and whatever is closed under `next` and has the entries has every block that follows another
(`Chained`). `EmInv` says of the emitter, with V the blocks it has begun: V is reached from entries along
`next` and nothing of V leads out of it except where the walk is (`Walked`); the labels printed are those of V,
each once; a jump names the label of a block with a predecessor that is placed; and such a block in V has its label printed (`Prints`).
Since no two blocks share a `next` and entries follow nothing, the walk never comes to V again; at
the end V is closed and has the entries, hence every placed block. Labels never collide
because a label once taken is kept (`TakeIs`).

*Only model-checked.* KeepsTokens, GroupsLikeC, ElseNearest and DiesForCallsOnly: `CGrammar`
and `Compiler` use RECURSIVE operators, which the prover does not accept. Faithful, AsmFaithful and
SlotsWritten relate the blocks or the assembly to SourceC's machine, and their invariant
must say of each pending task which rest of the program it stands for; that
simulation is not written. OperandsEncodable relates the text printed so far to the expressions of
the source, through the same simulation. CompositeCompatible and CompositeNarrows are not proved: they
compare two heaps through operators that recur over both. NoLeak does not hold. Every liveness property:
the provers here handle neither ENABLED nor the measures that the arguments need.

## 5. Not modelled

Arithmetic on values; the values of floating constants, characters and strings, file
names and columns; how the data segment is printed; frame offsets; the table of
constants; `as` and `gcc`; the options of `main`; the tree dumper; a `Parameter` object that two
Signatures share. A type that contains itself, which `compositeType` can make of shared Signatures,
would send `isCompatible` into endless recursion; the run's clients reach none.

Code nothing reaches: tags, typedef names and enum constants (no pass calls them),
`StringInterner::reset`, the constant folder of `sema.cpp`, and the lowering of `ConditionalExpr`,
`AssignExpr`, `CommaExpr` and `CastExpr` (the parser builds none of them).

## 6. What disagrees with the repository's own words

1. `reset` leaves the chain behind the first block linked but out of reach; the next
   `clear` or allocation overwrites the link and the blocks are lost, where README.md
   promises that arenas prevent leaks (`arena_leak`).
2. `i = i + 1;` stores nothing: `translateBinary` has no case for assignment, and the parser
   never builds an `AssignExpr` (`ir_assign`).
3. A `return` inside an `if` does not leave the function (`x86_early_return`). The test that
   relies on it, `func_recursion.c`, is refused even before: parameters are dropped, so
   its `n` is undeclared.
4. Right operands are parsed without their tighter operators: `i = i + 1` is
   `(i = i) + 1` (`parser_grouping`).

Further behaviour the models keep and the properties exclude: no progress on
`int g = 3;` at file level and on `case` (`parser.cpp:15`, `:253`), endless recursion on an illegal
character (`lexer.cpp:611`), a negation that is never stored (`x86_backend.cpp:344`), break,
continue and goto that do nothing, `--` that increments, a second destructor
that frees the shared free list again, the `U` of an integer that also has `LL` lost,
and no symbol for the value of a call: `return f();` makes the compiler dereference
null (`DiesForCallsOnly` says that nothing else does); `translateIncrement`
reads a `PostfixExpr` as the `UnaryExpr` it is not, which has the same two members in
the same order, and the model reads it so.

## 7. Plan

Done: the modules of section 2, in the order Arena, ArenaLifetime, IRGen with
SourceC and IRRun, X86Emit with X86Run, ScopeStack with SymbolTable and Scoping,
Lexer, Parser with CGrammar, Layout with Types, Interner with Driver, Compiler, Literals;
the proofs of section 4.

Left, in this order:

1. *Faithful* as a simulation: the task stack of IRGen against SourceC's continuations.
2. *OperandsEncodable*: what `emitIR` prints against the expressions, on that simulation.
3. *Frame offsets* in X86Emit, for the bound of 64 slots.
4. *The constant folder*, should a pass come to call it.
