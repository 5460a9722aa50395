# TLA+ models of the C compiler

This directory holds a verification development of the compiler in this
repository: TLA+ modules translated from the sources under `src/src`, instances
of them for the model checker TLC, and theorems with proofs that TLAPS checks.
Paths below are relative to `src/src`.

## 1. The system

`main.cpp` reads one C file and runs, depending on the option, a prefix of
this sequence: tokenize, parse, print, type check, compile to LLVM IR. The
compiler is one thread, keeps no data between runs and handles no failure of
its own: the first error anywhere (`errorloc`, `error` in `util/diagnostic.h`)
prints a message and ends the process.

| component | state it keeps | operations | made correct by |
|---|---|---|---|
| lexer, stream (`lexer/`) | file stream with its position and flags, line and column | `next`, `peek`, `read` | the longest tokens, at their places; an end in every file |
| symbol internalizer (`util/`) | set of interned strings | `internalize` | equal strings, one symbol |
| statement parser (`ast/parser.cpp`) | three tokens of look-ahead, `_labels` | `parseProgram`, `parseBlockStatement`, `parseStatement`, `parseNonDeclStatement` | dangling else, label uniqueness per function |
| expression and declarator parser (`ast/parser.cpp`) | the same look-ahead | precedence climbing, unary, postfix, declarators | precedence, associativity |
| scopes of the type checker (`ast/scope.*`) | variables, structs, functions, labels, `loop_counter`, parent | `getVarType`, `addDeclaration`, `addStruct`, `getCompleteStruct`, `addFunctionDeclaration` | innermost declaration in front of the use |
| statement type checker (`ast/statements`, `ast/function_definition.cpp`) | nothing of its own | `typecheck` of each class | accepts what can be compiled |
| types (`ast/types`) | shared type objects, struct fields filled in later | `equals`, `strong_equals`, `unifyTypes` | symmetric where it is used so |
| expressions (`ast/expressions`) | type, l-value flag, inserted casts | `typecheck`, `compileLValue`, `compileRValue` | width of values agrees with the type |
| compile scopes (`ast/compile_scope.*`) | allocas, labeled blocks, break and continue block, both IR builders | `getAlloca`, `addAlloca`, `getBreakBlock`, ... | jumps go where the statement says |
| statement code generator (`ast/statements`, `ast/function_definition.cpp`) | the LLVM function under construction, insert point of two builders | `compile` of each class | every block one terminator, at its end |
| functions and globals (`ast/program.cpp`, `ast/declaration.cpp`) | file scope, LLVM module | declaration, definition, tentative definition | declaration and definition agree |
| driver (`main.cpp`, `ast/program.cpp`) | the program | the passes in order, write the module | |

The components interact by calls: the parser pulls tokens, hands an abstract
syntax tree to the passes, and each pass walks the tree recursively, passing
scopes down as arguments. The hard behaviour is therefore not concurrency but
what a long walk leaves behind in shared, mutable state:

* two builders append to the same function, one of them at the front of the
  entry block, and blocks are created long before they are continued;
* the two walks over a body visit the statements of a block in different
  orders (`block.cpp:36-46`) and look names up in scopes of their own;
* counters, label sets and break targets are copied into new scopes at one
  moment and read at another;
* the parser decides about `else` and labels with one token of look-ahead and
  a set that outlives the function.

`PROJECT.json` lists each of these hazards at its line, with the properties
that would show it going wrong.

## 2. The modules

| module | models | source |
|---|---|---|
| `FunctionAst` | the statements of one function body, progress of a pass over them | `ast/statements/*.h` |
| `StatementParser` | parsing of the body | `ast/parser.cpp:450-605` |
| `StatementSema` | type checking of the body, scopes | `ast/scope.*`, `typecheck` in `ast/statements`, `function_definition.cpp:13-52` |
| `StatementCodegen` | compilation of the body to basic blocks | `ast/compile_scope.*`, `compile` in `ast/statements`, `function_definition.cpp:54-135` |
| `FunctionPipeline` | the three passes in order; the properties that relate them | `main.cpp`, `program.cpp` |
| `SourceOrder` | the order in which the statements of a body are executed: what happens first from a position on | (meaning of the statements) |
| `SourceExecution` | abstract specification: how the statements of a compiled body are executed | (meaning of the statements) |
| `CompiledExecution` | execution of the generated basic blocks; implements `SourceExecution` | (external: LLVM) |
| `PipelineInvariant` | the inductive invariant of `FunctionPipeline`, part by part | |
| `FunctionPipelineProofs` | proofs: the tree, the calls of the passes, labels, terminators, the order of the statements, dangling else, lookups and the loop counter of the type checker | |
| `RefinementInvariant` | what else is invariant that makes the executions of the code executions of the source | |
| `CompiledBlocksProofs` | proofs: allocas, targets and blocks of the code generator, execution of the blocks and its refinement of the source | |
| `FunctionLinkage` | declarations and definitions of the file scope, in the type checker and in the LLVM module | `ast/program.cpp`, `declaration.cpp`, `function_definition.cpp`, `scope.cpp`, `types/function.cpp`, `declarators/function.cpp` |
| `FunctionLinkageProofs` | theorems and proofs about it | |
| `ExpressionParser` | the recursive descent through an expression | `ast/parser.cpp:127-448, 607-651` |
| `DeclarationParser` | the recursive descent through a declaration, and the choice of a statement between the two | `ast/parser.cpp:6-125, 488-495, 563-567` |
| `DeclarationParserProofs` | theorems and proofs about both | |
| `DeclarationGrammar` | abstract specification: the phrases of C's declaration grammar and their trees | (C11, 6.7) |
| `ExpressionGrammar` | abstract specification: the sentences of C's expression grammar and their trees; the parser accepts these and the declarations | (C11, 6.5) |
| `ExpressionTypes` | equality and unification of types, what each operator accepts, yields and casts | `typecheck` in `ast/expressions`, `types.cpp`, `types/*.cpp` |
| `ExpressionCodegen` | type checking of an expression and its compilation into instructions and blocks | `isLvalue`, `compileLValue`, `compileRValue` in `ast/expressions` |
| `ExpressionCodegenProofs` | theorems and proofs about both: the calls of the code generator, phis, where it stops | |
| `ExpressionWidthProofs` | theorems and proofs about both: the widths of values, well-typed instructions | |
| `Characters` | classes of characters, lines and columns of a file | `lexer/lexer.cpp`, `util/diagnostic.h` |
| `CharacterStream` | reading and looking ahead on top of the flags of `std::ifstream` | `lexer/stream.*` |
| `Lexer` | `Lexer::next` and all it calls, the pool of interned strings | `lexer/lexer.cpp`, `util/symbol_internalizer.*` |
| `Tokenization` | abstract specification: a file is cut into the longest tokens, blanks and comments | (C11, 6.4) |
| `LexerTokens` | the refinement and the properties of the lexer | |
| `LexerInvariant` | what each loop of the lexer has read, as long as it runs | |
| `LexerProofs` | theorems and proofs about them | |
| `StructScopes` | struct tags in nested scopes, the objects of struct and pointer types, the operators that read them | `ast/scope.cpp`, `specifiers/struct.cpp`, `types/struct.cpp`, type rules of `suffix.cpp` and `unary.cpp` |
| `StructMeanings` | the struct that each tag means in C, told next to it | (C11, 6.2.1, 6.7.2.3) |
| `StructMeaningsProofs` | theorems and proofs about both | |
| `ExpressionExecution` | the value of the code against the value of the expression | (external: LLVM; the meaning of expressions) |
| `MC...` | instances for TLC | |

`StatementParser`, `StatementSema` and `StatementCodegen` extend `FunctionAst`
and know nothing of each other; `FunctionPipeline` composes them, and each pass
leaves the variables of the other two unchanged. `FunctionLinkage` takes the same
passes from outside: whole programs, of whose bodies it keeps what reaches the
file scope. `ExpressionParser` calls for a declaration behind `sizeof (`, which
`DeclarationParser`, an extension of it, continues; `DeclarationGrammar` and
`ExpressionGrammar` extend both in turn, but define their phrases from the grammar
alone. `ExpressionExecution` extends `ExpressionCodegen`, which extends
`ExpressionTypes`. `Lexer` extends
`CharacterStream`, and `LexerTokens` relates it to an `INSTANCE` of `Tokenization`
with which it shares nothing but `Characters`; `LexerInvariant` extends it. `StructMeanings` extends
`StructScopes` and adds to each of its actions what the same declaration says in C;
it restricts none of them.

### How state and actions correspond to the code

*Statements.* A statement is a number, in the order in which the parser starts
them; 1 is the body. `ast[n]` has the kind, the one identifier the models need,
the parent and the children.

*Recursion.* The handlers (`parseStatement`, `typecheck`, `compile`) are
recursive, and each is called once per statement and pass. `at` is the
statement whose handler is running, its ancestors are the callers, and
`status[n]` says whether the handler of `n` has been called and has returned.
One step is what a handler does between two calls of other handlers: `Check...`
and `Compile...` actions enter a handler (and return from it if it calls no
other), `CheckChild` and `CompileChild` call the next child, `LeaveChecked` and
`LeaveCompiled` are what follows the last child.

*The parser's input.* The token stream is the environment. A step chooses the
next statement head, or that no `else` or that a `}` follows; a wrong token can
come anywhere (`SyntaxError`). The one fact about a token that survives a step
is kept in `notElse`: an inner `if` has failed to `accept(TK_ELSE)` on it.
`_labels` starts with any set, since an earlier function may have left one.

*Scopes.* A `Scope` of the type checker is named by its block. The body uses the
scope of the function type, which holds the parameters. `loopCounter` is copied
when a nested block is entered and changed by the while statement in the scope
the while is in. Expressions are abstracted to the one identifier they read;
whether the types fit is a free choice (`IsIllegal`), as a failing check only
ends the compilation.

*Basic blocks.* A block is named by its role and its statement, label or the
function, and is a sequence of instructions. `cur` is the block of the main
builder. The alloca builder stays in the entry block; `SetInsertPoint(block,
begin)` in front of an empty block leaves it at the end, which is why
`allocaAtEnd` becomes false only when the block has an instruction. Break and
continue blocks are those of the `CompileScope` of the parent.

*Execution.* `CompiledExecution` adds a program counter over the instructions of
the compiled function, conditional branches are free choices. `SourceExecution`
executes the statements themselves, with loops and jumps as the language defines
them. A position of the body is the point where a statement is entered or left, and
`First` of it the first evaluation, branch, label or return from there on
(`SourceOrder`). The refinement mapping sends a block to the position it was created
for (`PositionOf`), and a place inside of it to what the next instruction does that is
no alloca and no store. A block whose code does not begin with what happens at its
position is mapped to nothing that the source could do (`Stuck`).

*The file scope.* A program of `FunctionLinkage` is a sequence of items, each a
declaration or a definition of a name, with its parameter list if it has one.
The passes take them one by one; the type checker has the types of the file scope
and of the body, the LLVM module its functions, globals and local allocas.
`FunctionDefinition::compile` uses the function that is already in the module,
whatever its type; the two loops over its arguments index the parameters of the
definition. A body is a list of statements; `BlockStatement::compile` goes over it
twice (`Loops`), for the declarations and for the rest, and passes over what is not
the turn of the running loop (`PassOver`).

*Calls of the parser.* The parser of expressions and declarations calls itself in
the middle of a function, so its model has a stack: a frame says where the caller goes
on and keeps its local variables and arguments (`minPrec`, `declKind`). A step is the
code between two calls. The tokens are chosen when the lexer delivers them, one ahead
of the current one, and the tree is written in postfix notation. That of a declarator
is written from the inside out, as it is built: `*f(int)` is identifier, function with
its parameter, pointer. The input is one statement that is an expression or a
declaration, with the semicolon behind it; a semicolon before the last one separates
the members of a struct.

*Expressions.* The nodes of an expression are checked bottom up, any operator over
what is there, and the type rules decide, as in the code, by the order of their
cases. Types are sequences, so that the recursion of `PointerType::equals` is one
over their length. A cast is kept with the operand it is put around. Compiling is
modelled with the frames of the active `compileRValue` and `compileLValue` calls: a
step emits instructions at the insert point, which branching operators move; an
operand of `&`, `.` and `=` is compiled to its address, and where it has none the
compilation fails. Instructions have the LLVM type of their result; one whose operands
have the wrong type is emitted all the same (LLVM stops there with an assertion when
it is built with `build_llvm.sh`). What the code does to the memory is compared with
what C says in `ExpressionExecution`: a variable is a cell with an address, a pointer
value the address of a cell or of none, and an expression that uses an address for
which there is no cell of the type has no meaning in C, so nothing is said about it.

*The lexer.* A file is a sequence of characters, chosen in `Init`; `stream` has the
position, line and column and the two flags of the `std::ifstream`. Operators of
`CharacterStream` take a stream and give the character and the stream afterwards,
so that the order of the reads inside a handler is that of their composition. `pc`
is the loop of `next`, or of the function it called, that runs: a step is one turn
of it. `start` is the place kept for the token, and a `Symbol` is the index of its
string in `pool`. Looking ahead is `get` and `unget` as in `stream.cpp:58`; what
`unget` does while `failbit` is set is what the standard library does, not what a
pointer into the text would do.

*Struct tags.* The compiler shares type objects, and some of its decisions depend
on which object a reference still has. So objects are numbers: `structTypes` and
`pointerTypes` are the heaps of `StructType` and of `PointerType`, a type is a kind
with such a number, and scopes, fields, variables and `expression` hold types. A
struct that is completed is a new object, put into its scope; older references keep
the incomplete one. `defining` is the object between `struct t {` and `}`.
`expression` is the type of the expression that is checked, operator by operator
from the inside out. In `StructMeanings`, `tags` says which struct of C a scope has
under a tag, `completion` the object that completed it, `stands` the struct that
an object was made for, `meant` the one that a pointer type was made to point to;
`agree` turns false for good at the first tag that the two sides take for different
structs, since from there on they are about different programs.

## 3. The runs

Everything is checked on every function body, program, token sequence or
expression up to a bound, not on chosen examples: the models generate them.

| run | instance | checks |
|---|---|---|
| `labels` | 5 statements, 2 labels, blocks, goto, while, declarations, both returns, no expressions, non-void function with two parameters | `BlocksAreComplete`, `LabelsIdentifyStatements`, `EarlyAllocasKeepEntryValid`, `Invariant` |
| `names` | 5 statements, name x the parameter and a global too, name y declared by blocks only, if, while | `TypeOK`, `LookupFindsInnermostDeclaration`, `ResolutionsAgree`, `EarlyAllocasKeepEntryValid`, `AcceptedFunctionsCompile` |
| `execution` | 6 statements out of blocks, if, while, break, continue, expressions, a label and goto | `ExecutionStaysInBlocks`, `OneTerminator`, `LoopCounterCountsLoops`, `ElseBelongsToNearestIf`, `ImplementsSource`, `CompilationEnds` |
| `allocas` | 4 statements, no parameter | `TerminatorIsLast`, which fails: see below |
| `linkage` | 3 items, two names, parameter lists of up to one parameter, one statement per body | `LinkageTypeOK`, `ArgumentsAreStoredUnlessUnlisted`, `DefinedOnce`, `ModuleImplementsProgram` |
| `block_functions` | 2 items, three names, functions declared in bodies | `AcceptedProgramsCompile`, `ArgumentsInRange` |
| `lost_arguments` | a declaration and a definition | `ArgumentsAreStored`, which fails |
| `expressions` | 7 tokens of binary operators of all levels and prefixes; 7 of `?:`, `=`, `\|\|`, minus, parentheses; 6 of indexes, calls, members, prefixes, sizeof; 8 of declarators with pointers and parameters; 9 of structs with members; 9 of sizeof and type names | `ParserTypeOK`, `AcceptsWithTheTree`, `RefusesNoSentence`, `ParsingEnds` |
| `values` | 5 nodes over int, char, null, with arithmetic, comparison, assignment; 5 over int\*, void\*, structs as well; 6 of `&&`, `\|\|`, `?:`, assignments and calls of void functions; 7 of `&`, `*`, `[]` and `=`; 6 of `.`, `->`, `&`, `*`, `=`, `?:`, sizeof and calls over structs; 6 of strings | `CodegenTypeOK`, `PhisMatchPredecessors`, `AcceptedExpressionsAreWellTyped`, `AcceptedExpressionsCompile`, `ImplementsExpression` |
| `comparison_values` | the same | `AssignmentsHaveTheTypeOfTheLeft`, which fails |
| `lexer` | files of up to 3 to 6 characters of one of eight vocabularies | `LexerTypeOK`, `LocationsFollowPositions`, `LoopsReadTheirTokens`, `LexerImplementsTokenization`, `LexingEnds` |
| `structs` | 3 open scopes, 3 declarations of one tag and one name, structs of one field, 2 operators | `ScopesTypeOK`, `ArrowFindsMeaning`, `SizeofAcceptsCompleteStructs`, `ResolutionDiffersOnlyWhereShadowed`, `InnerIsOnlyCompleted` |

*Bounds.* `MaxStatements` bounds the statements of a body, `HasRoom` keeps the
parser from starting a statement that could not be completed within it. Six
statements hold an if with an else inside a while with a jump in each branch and
code behind it, a dangling else between two ifs, and two nested loops with a
block between; five hold two labels with gotos in both directions out of and into
a loop, or a use between an outer and a later inner declaration of one name. The
other sets are one or two elements, since the properties only compare names for
equality. No variable is unbounded: a body without further statements ends.

Three items hold two declarations that differ around a definition, in each order.
Seven tokens hold three operators of different levels with their operands, so a
wrong association on either side, or a conditional in each place of another one;
with six a call of two arguments, or an index of a member. Eight hold a pointer to
a function with a parameter, a function with two parameters, or one that takes a
function; nine a struct with two members or one inside of another, and the size of a
function type that returns a pointer to one. Five nodes hold an
operator over the result of another on either side, the deepest place at which a
cast can be missing; six hold a branching operator inside each operand of another, or
a `.` of a conditional of structs in front of which an address is taken; seven an
assignment through a pointer that the expression has set before.
Ints have three bits, chars two, pointers five: an overflow, a truncation and a
negative value each happen, and a pointer can have low bits that are all 0. The
ints include the least one, which has no negative: subtracted from a pointer it
moves it, as in the code, by itself, which is outside of every array. Every store
of an expression's variables is tried; the others are 0. An input of the parser keeps
to one of six vocabularies, and so does an expression, which makes the larger bounds
affordable: what an operator does depends on its operands, not on the operators
of a different group.

The vocabularies of the lexer follow the same idea: each has the characters that one
part of it tells apart, with letters, digits and escapes represented by a few, and
one keyword for all. Six characters of `/`, `*`, a letter and a newline hold a
comment with stars in front of its end and something behind it; five a string with
an escaped backslash and a \r\n in it, or `<<=` and `%:%:` next to another token.
Three are enough for the other punctuators, which have at most two characters.

Three declarations of a tag hold an incomplete struct, a pointer made of it, and its
completion, or a struct, one that hides it, and a variable of either; with two
operators one goes through a pointer field or takes the size of what an arrow gave.
Blocks open and close freely in between, so a pointer can outlive the scope of its
struct and meet a different one of the same tag and depth. Nothing compares tags,
names or fields but for equality, and the proofs are for any number of all of them.

*Deadlock* is not checked since a compilation ends. That it does not stop
elsewhere is the liveness property `CompilationEnds`.

*Fairness.* The specifications with a liveness property (`ExecutionSpec`, those of
`DeclarationParser` and `Lexer`) assume weak fairness of their whole next-state
relation and nothing more: one thread, which goes on as long as it can. The
parser's part of it says that the input is finite (the bound on statements) and
that the next token can always be read. No branch of a choice is treated fairly: a
compiled loop may run for ever, which `CompilationEnds` does not exclude.

### What the runs show

* A body that the type checker accepts compiles without an exception and without
  a missing label, and each of its blocks, unreachable ones included, gets
  exactly one terminator.
* Execution of the blocks follows the statements (`ImplementsSource`), also for a goto into a loop or
  a break behind a nested block, and never runs off the end of a block, unreachable
  code and late allocas included.
* The type checker resolves a name to the innermost declaration in front of it.
  The code generator resolves it alike, except where an enclosing block declares
  the name *behind* the use: it compiles the declarations of a block first
  (`block.cpp:36-46`), so `int x; { x = 1; int x; }` is checked with the outer
  and compiled with the inner x. `ResolutionsAgree` says exactly that.
* `TerminatorIsLast` fails. `program.cpp:129` calls `verifyModule` to ensure a
  valid module and ignores its result. In a function with fewer than two
  parameters whose first declaration is compiled after a branch, for example
  `int f(void) { if (1) { int x; } return 0; }`, the alloca builder is still at
  the *end* of the entry block (`function_definition.cpp:90`), so the alloca
  comes behind the terminator. `EarlyAllocasKeepEntryValid` shows when this
  cannot happen: with two parameters, or with a declaration among the items of
  the body itself.

* What the type checker accepts of the file scope has one type and at most one
  definition per function, and the module has each function once, with its body.
  `ArgumentsAreStored` fails: after `int f();`, the definition `int f(int a) {...}`
  is accepted, since `strong_equals` ignores the parameters of the other type if
  its own has no list, and takes the LLVM function without arguments.
  `ArgumentsAreStoredUnlessUnlisted` shows that this is the only way to lose them;
  a declaration inside the body of another function counts, since it puts the
  function into the module too.
* The parser accepts exactly the expressions and declarations of the grammar, with
  the tree the grammar gives them, and refuses at the first token that cannot stand
  there. That includes the assignment, of which it parses the left operand before
  it knows, and the parenthesis in a declarator, about which it looks one token
  further. `DeclarationGrammar` differs from C in two places. `()` is no abstract
  declarator (`parser.cpp:62-65`), so `int f(int ())` is refused. And
  `parseDeclaration` asks an abstract declarator for its name but not a concrete one
  (`parser.cpp:48`), so `int *;` is parsed; its type checker refuses that
  (`declaration.cpp:22`), except for a member of a struct, `struct { int a; int *; }`.
* The code of an accepted expression is well typed and computes its value, with
  the effects of assignments in short circuits, except in the cases that the two
  properties name:
  a comparison is an `i1` but has type int, so arithmetic extends its 1 to -1 and
  an assignment stores one bit (`ComparisonIsValue`); `0 + 0` and `-0` compute
  with a null pointer, and `p - 0` is an int of type pointer (`ComputesWithNull`);
  structs and void values can be compared (`ComparesStructs`); a `void*` equals
  every type (`ComputesWithVoidPointer`); a `?:` of null pointer type loses its
  condition when it is cast (`BranchIsNull`); a char subtracted from a pointer is
  extended as unsigned (`SubtractsChar`); `*v` and `sizeof *v` of a `void*` and
  a variable of type void are accepted (`declaration.cpp:42` lets a function and a block
  declare one) and load a void or ask for its size (`LoadsVoid`); `sizeof *&*&"x"` is the
  size of a pointer, while one `*&` less gives that of the string (`LosesArray`); and a
  pointer that is compared with an int, or decides, is cut to 32 bits first
  (`TruncatesAddress`), against the comment at `expression.cpp:43`.
* An address is computed only of what the type checker knows to be an l-value, but for
  two kinds of accepted expressions: the code generator stops at `&"x"` with the message
  that it cannot compute the l-value, since a string literal is an l-value without a
  `compileLValue` (`primary.cpp:133`); and at `(s = t).x` or `f().x`, since `.` takes the
  l-value of its struct (`suffix.cpp:210`) but asks for one only when it is assigned
  to (`AcceptedExpressionsCompile`). An index of type char is refused, since `isInteger`
  only knows ints (`type.cpp:106`).
* `comparison_values` shows one of these against what a comment says:
  `binary.cpp:436` gives the type of an assignment.
* The lexer cuts every file as C does, with three exceptions that `Tokenization`
  states. A token whose end is only known from what is behind it, such as a word or
  `<`, must not be the last thing in the file: `unget` puts nothing back after a read
  beyond the end (`stream.cpp:58`), so the lexer returns the token, perhaps with a
  wrong text, and then never sees the end of the file but characters 0xff; behind a
  `/` it aborts (`EndIsKnown`, `Lose`). A string may contain a \r or \r\n, which is
  taken for a character of it (`IsString`). The end of the input has a wrong column
  behind a comment that ends there (`Accept`).
* The type checker takes a tag for the struct that it means in C, except in an inner
  scope that declares a tag of an outer one again: `struct t;` does not hide the outer
  struct there, and a `struct t *` within the definition that hides it still means
  the outer one (`specifiers/struct.cpp:25-32`). That is all
  (`ResolutionDiffersOnlyWhereShadowed`).
* An incomplete struct in a pointer type is replaced by the complete one at the first
  arrow, found by its tag and the depth of its scope (`suffix.cpp:243`, `scope.cpp:30`).
  Blocks side by side have equal depth; still no arrow reaches the wrong struct
  through a pointer whose struct is in scope (`ArrowFindsMeaning`). `(*p).x` has no
  such lookup: whether it is accepted depends on an arrow that was checked before.
* `sizeof` looks its struct up by the tag alone (`unary.cpp:22-32`), so it accepts every
  complete struct of the open scopes; which struct an inner scope lets it find only
  decides about the acceptance, and its value comes from the type it was given, which
  may be the incomplete object.

## 4. The proofs

Every theorem holds for every value of the constants that satisfies the named
assumptions of the modules it is about: any number of statements, labels, names and
parameters, any subset of the statement kinds, any program, file or declaration. The
assumptions say what the constants are (sets of names, bounds that are numbers);
those with content are that an absent identifier is none (`NoName \notin Name`),
that variables have some type (`Value # {}`), without which there is no program, and
that no variable has the name of another leaf (`Variable \cap Constant = {}`). The
last was found by a proof: leaves are told apart by name, and a variable called like
the string literal would be compiled as one.

### The passes over a body

All properties of `FunctionPipeline` and the two safety properties of the modules it
composes are proved of its specification:

| theorem | states | module |
|---|---|---|
| `TypeCorrect` | `[]TypeOK` | `FunctionPipelineProofs` |
| `LabelsAreUnique` | `[]LabelsIdentifyStatements` | `FunctionPipelineProofs` |
| `OneTerminatorPerBlock` | `[]OneTerminator` | `FunctionPipelineProofs` |
| `ElsesBelongToNearestIfs` | `[]ElseBelongsToNearestIf` | `FunctionPipelineProofs` |
| `LookupsFindDeclarations` | `[]LookupFindsInnermostDeclaration` | `FunctionPipelineProofs` |
| `LoopsAreCounted` | `[]LoopCounterCountsLoops` | `FunctionPipelineProofs` |
| `BlocksGetTerminators` | `[]BlocksAreComplete` | `CompiledBlocksProofs` |
| `EarlyAllocasAreSound` | `[]EarlyAllocasKeepEntryValid` | `CompiledBlocksProofs` |
| `ResolutionsAlwaysAgree` | `[]ResolutionsAgree` | `CompiledBlocksProofs` |
| `AcceptedFunctionsAreCompiled` | `AcceptedFunctionsCompile`, an action property | `CompiledBlocksProofs` |
| `InvariantHolds` | `[]Invariant`, all of the below | `CompiledBlocksProofs` |
| `ExecutionsStayInBlocks` | `[]ExecutionStaysInBlocks`, of `ExecutionSpec` | `CompiledBlocksProofs` |
| `CompiledCodeImplementsSource` | `ImplementsSource`: `ExecutionSpec` implements `SourceExecution` | `CompiledBlocksProofs` |

*The invariant.* None of the invariants is inductive; `PipelineInvariant` has what they
need, and TLC checks it as a whole in the run `labels`.

* *Tree and calls.* `TypeOK` needs that the statements form a tree (`TreeInv`), that a
  running handler was called from that of its parent (`PassInv`), and that a handler
  that calls others had a scope recorded (`ScopeInv`): otherwise `scopeOf[Parent(at)]`
  could be no scope.
* *Fresh blocks.* `OneTerminator` needs to know where the builder may go next.
  `FreshBlocks` says that the blocks a handler has still to continue in are empty and
  not current: all blocks of a statement whose handler has not been called, the end
  block of a running if or while, the else block until the else branch, the block of a
  label until its labeled statement. The last one is where the uniqueness of labels is
  used: with two statements sharing a label the second would continue behind the
  terminator of the first.
* *Order.* Statements are numbered in the order of the source, so two of them nest or
  are apart, and the children of each ascend (`ShapeInv`). While the parser runs, the
  statements that are not yet read to their end are the ancestors of `at` (`OpenInv`);
  in a pass, so are the running handlers (`PathInv`). The numbers thus say which
  activation is the innermost, and that what a handler has called lies in front.
* *Dangling else.* `ElseInv`: along the last substatements (`EndsIn`) of a branch
  behind which something follows, every if has its else.
* *Type checker.* What has been called is a prefix of the source (`OrderInv`), so the
  declarations a scope holds are those in front (`VarsInv`); the counter of a scope is
  that of the innermost running handler which uses it (`CounterInv`), since a while
  changes it in the scope it shares with others. `CheckedInv` keeps for the code
  generator what has been found out.
* *Code generator.* The declarations of a block are compiled in front of everything
  else in it (`DeclarationsFirst`), so `allocas` are all names of the enclosing blocks
  (`AllocasInv`), and whatever the type checker found, the code generator finds.
  Inside a loop there are targets for break and continue (`TargetsInv`). Every created
  block has a terminator but the current one and the `Pending` ones, which running
  handlers and labels ahead have still to continue in (`BlocksInv`); that `Pending` is
  empty at the end gives `BlocksAreComplete`. `EntryInv` follows the alloca builder:
  with two parameters, or a declaration in the body itself, it is moved to the front of
  the entry block before that has a terminator.
* *Execution.* The instruction of the program counter has a terminator at it or behind
  it, in a created block: so from `BlocksAreComplete` execution never runs off.

*The argument.* The handlers of both walks enter, call a child or return;
`WalkRun`, `WalkReturn` and `WalkChild` prove that each keeps the tree and the
call discipline, and are used by every action of both passes. For the code,
`FreshStep` proves once that a step that only writes to its own blocks leaves
everybody else's fresh, and each action shows that it does so, that the block it
continues in has no terminator, and that what it appends has at most one, at
the end. `Writes` says the same for `BlocksInv`: which blocks a step appends to, which
it creates, and where it continues.

*The refinement.* That an execution of the code is one of the source needs more about
the code than that it is complete. `Refinement` says it, and is inductive on top of
`Invariant`:

* Every block is a flow (`FlowInv`): its first instruction that is neither alloca nor
  store does what happens first at its position (`Inside`), and each later one does what
  happens behind the one in front of it (`After`). The targets of a conditional branch
  are the two sides of its statement, and an evaluation is that of a statement
  (`FitsSource`). It holds for half-written blocks and for those behind jumps too, which
  nothing reaches.
* While the code generator runs, what the builder has to append next is what happens at
  the `Continuation` of the running handler: entering it, entering the next item it
  will call that is no declaration, or leaving it (`BuilderInv`). Each action appends
  what that position shows, and moves the continuation accordingly; an if, a while or
  a jump leaves the builder in a fresh block, which owes exactly the first event of its
  position.
* For this the walk must follow the order of the source: among the children that are no
  declarations, one is called when those in front have returned (`SiblingsInOrder`),
  although the loops of a block go over it twice. The targets of a break or continue
  must be the blocks of its innermost loop (`LoopTargetsInv`), the blocks of labels
  belong to labels of the function (`LabelBlocksInv`, `LabelEventsInv`), and an if, a
  while and a labeled statement have the substatements that they take (`KidsInv`).

`FlowsAppended` and `FlowsPrepended` say once what may be written at the end of a flow or,
by the alloca builder, in front of it; `FlowOn`, `FlowElsewhere`, `FlowKept` and
`FlowAcross` what an action has to show. An execution is then easy: each of
`BeginStep`, `StartStep`, `OverStep` and `BranchStep` is one action of the source or not
seen there.

*Recursion over the tree.* `Enclosing` and `EndsIn` are recursive functions, and that
they satisfy their equations has to be proved. `Above` and `Below` define the same sets
without recursion, as the least set that contains a statement and is closed under
parents, or last children; that these satisfy the equations follows from the numbering
of the tree, by the least statement that would not. `First` is recursive along the moves
of the source, which go forwards and backwards, and no number decreases with them. The
events that every set of positions contains which is closed under the moves
(`EventsFrom`) solve its equation (`FirstUnfolds`); nothing is said about a position from
which nothing would ever happen, and the proof of the refinement does not need that there
is none.

### The file scope

`FunctionLinkageProofs` proves all six properties of the runs `linkage` and
`block_functions`, for every program over any names, types and parameter lists:
`LinkageTypeCorrect`, `FunctionsAreDefinedOnce`, `ArgumentsStayInRange`,
`ParametersAreStored`, `ModulesImplementPrograms` and `CompilationFailsOnlyThere`.
`ArgumentsInRange` needs to know that what is in the LLVM module under a name was
compiled from an item in front, with a type that agrees with the one of the file scope,
and that agreement of parameter lists makes them equally long; so the invariant relates
the two passes item by item. The other properties follow a name back from the code
generator to the type checker: every type in the file scope and in the module has an
item it came from (`IsOrigin`), what the type checker found for a use is in one of the
scopes the code generator will look in (`UsesDeclared`), and its two loops together
reach every statement of a body. That a declaration in a body can make a later
definition lose its parameters was found by the proof: an earlier form of
`ArgumentsAreStoredUnlessUnlisted`, which only looked at the file scope, holds in
programs too short to have such a body, and is false.

### Lexer and structs

*Lexer.* `LexerProofs` proves, for files of any length over any vocabularies,
`LexerIsTypeCorrect` (`Spec => []LexerTypeOK`) and `PlacesAreCorrect`
(`Spec => []LocationsFollowPositions`). The second is the invariant `Located` of
both kept streams: as long as the stream is good, its line is one more than the
newlines in front of its position, its column counts the characters since the last
one, and it is not between the two characters of a \r\n, without which the line
after the \n would be counted twice. Each operation of the stream (`Get`, `Peek`,
`GetStr`, `PeekStr`) has one lemma that it preserves this, and the actions are
compositions of them.

It also proves, for the same files, that the lexer implements the tokenization:
`LexerCutsLikeTheTokenization` (`Spec => LexerImplementsTokenization`). A turn of a loop is
a stutter of `Tokenization`, and the step that returns a token, ends a comment or refuses
the file is one of its steps. So the invariant has to say what a loop has read before
that: `LoopsReadTheirTokens` (theorem `LoopsAreCorrect`), which TLC checks in the run `lexer`.
A word or number has been collected from its first character on; in a string, every
character behind the quote may be there, the last is no backslash that escapes the next,
and `symbol` is the text so far without the \n of a \r\n; a comment is open up to the
stream, and the loop over its stars runs just when the last character is a star, without
which `**/` would be missed. Between two tokens the stream is good, or at the end of the
file with at most one column too many (`Ended`), or lost.

* *Tokenization alone* (lemmas `PieceDecides` to `ColonsCut`). The longest piece is defined
  over all pieces of the file. The first character decides what a piece may be, so of its
  five or six kinds one or two remain; then a piece is the longest if it may be cut and
  none that is longer may (`CutIs`): a word has a character in it that cannot be there, a
  string its end inside, an operator more characters than one has. `CutTo` and `SkipTo`
  collect what `Tokenization` says of a cut: its end, the kind, the look ahead.
* *The stream.* What `Get`, `Peek`, `GetStr` and `PeekStr` return where the file goes on,
  where it ends, and where the stream is lost: there, every read gives 0xff.
* *The lexer.* One lemma per action (`SkipBlankIs` to `ReadPunctuatorIs`): it is a step or
  stutter of the tokenization and keeps the invariant. A punctuator either leaves the stream
  behind the longest piece (`Kept`), or the look ahead behind it has lost the stream
  (`Gone`), which is where `Lose` is needed.

Two definitions of `Tokenization` are recursive over the file, `TextOf` and `Escaped`. They
are recursive functions of positions, so an equation defines them (`KeptIs`, `EscapeIs`), and
that the equation has one solution is proved by induction in the form the provers can use:
a set of positions that has 0, and the successor of each that it has, has all of them
(`InductionUpTo`, from the least element of the rest).

*Structs.* `StructMeaningsProofs` proves all five properties of the run `structs`, for
any tags, names and fields, any depth of blocks and programs of any length:
`ScopesAreTypeCorrect`, `ArrowIsCorrect`, `SizeofIsCorrect`, `InnerIsCorrect` and
`ResolutionIsCorrect`. None is inductive. Their common invariant `IInv` says that
references are to objects there are and none is to the object whose components are
being read (`ReferencesOK`, with that object as the parameter `d`, since a rejected
program forgets it); that an object has the tag under which a scope holds it, and an
incomplete one hides none (`TagInv`): that is what makes the lookup by tag of sizeof
find a complete one; that a struct of C has one place (`OnePlace`); that, as long as the two
sides agree, the object in a scope stands for the struct that C has there and has
that scope's depth, and only one object completes a struct (`Agrees`); and that a
pointer type still points to an object of the struct it was made for
(`PointersAgree`). For the arrow, tag and depth then identify a struct among the open
scopes, since the scopes on the way out have different depths. `Agrees` names
depths only for structs whose scope is open: a pointer that outlives its block may
be given a later struct of equal tag and depth, as the code does.

### Expressions

All four safety properties of the runs `values` and `comparison_values` that do not execute
the code are proved, for expressions of any size over any variables, constants and
operators. They follow from `CodegenInvariant` (`[]ExpressionInv`), and the last one from
`WidthInvariant` on top of it:

| theorem | states | module |
|---|---|---|
| `CodegenTypes` | `[]CodegenTypeOK` | `ExpressionCodegenProofs` |
| `PhisAreRight` | `[]PhisMatchPredecessors` | `ExpressionCodegenProofs` |
| `CodegenCompletes` | `[]AcceptedExpressionsCompile` | `ExpressionCodegenProofs` |
| `ExpressionsAreWellTyped` | `[]AcceptedExpressionsAreWellTyped` | `ExpressionWidthProofs` |

The parts of `ExpressionInv` are:

* *Nodes.* The operands of a node are in front of it, those of `&` and `=` are
  l-values, and a type has at most two pointers, one less where an address may be
  taken.
* *The stack of calls.* Each frame but the top one waits for the operand that is the
  frame above (`IsCallOf`), so `compileLValue` is only called for the operands that the
  type checker has found to be l-values, from which `AcceptedExpressionsCompile`
  follows. Only an operand of type void leaves its frame without a value (`ValuesOK`).
* *Blocks.* A branching operator owes the blocks it has created and not yet continued
  in (`Owed`). They are empty, not current, and apart from those that other frames owe;
  their predecessors are known from the place the operator has reached (`Joins`).
  `IrOK` keeps, for every phi that is already written, that it names exactly the
  predecessors of its block. An operand may itself branch, so the block the
  operator continues from need not be the one it created: the code asks the builder
  for the current one, and the proof needs that it does.

`Keeps` and `Follows` state once what an action has to show: which blocks it writes
to, that the frames below are left as they were, and that the result is of the kind
the caller waits for; each action of the type checker and of the code generator is then
one case. `Equals` and `IsLvalue` are recursive functions, which have to be shown to satisfy
their equations. Types are at most two pointers deep, so `Equals` unfolds; for `IsLvalue`,
which follows operands of any depth, the least set of nodes closed under the
equation is used, with the least node that would be a counterexample.

*Widths.* `WidthInv` adds what the type checker and the code generator agree about:

* Every node has the type and the casts of the rule of its operator (`Checked`), and the
  nodes form a tree (`IsTree`): a node that two operators used would have the cast of the
  second put around it for the first one too.
* An instruction takes operands of the types it must have (`Typed`), each a register that
  exists; and each value that a frame holds is one its caller can use (`IsValueOf`): an
  address for an l-value operand, something that can be compared with 0 for a condition, or
  else a value of the LLVM type that the operand is cast to.
* A call that returns yields the LLVM type of its node, or one bit for a comparison
  (`IsResultOf`).

`NodeRules` does the cases of the type rules once for each operator: if none of the
exceptions that `AcceptedExpressionsAreWellTyped` names occurs (`Ordinary`), the operands
of each operator are cast to types that its instruction can take (`Converts`), and the
result has the type it promises (`Promise`). Two details of the code were found in this proof.
`castArithmetics` has to try its cases in order, equal types first (`cast.cpp:56`): a null
pointer constant counts as an integer and as a pointer, and would be converted from a
pointer to a pointer by a later one. And a variable can have type void, so a
load of a void does not need a pointer to one; an earlier `LoadsVoid` only looked at
pointers, and held in the run because no variable of its instances had that type.

### The parser of expressions and declarations

`DeclarationParserProofs` proves `ParserIsTypeCorrect` (`Spec => []ParserTypeOK`) for
inputs of any length over any vocabularies. It needs to know more about the stack than
types (`ParserInv`): a caller that waits for a right operand or for that of a prefix has
the operator to write behind it, which follows from what `Binds` says of the current
token, so the level it asks for is one there is; and what returns, and what has begun a
declarator or a list of components or parameters, has left a tree, so that the type
checks by the first node of a declarator (`IsAbstract`) look at one. Each way to go on
(`Calls`, `GoesOn`, `Continues`, `CallsAgain`, `Expects`, `Rejects`) has a lemma, and
each function of the parser one with a case per action.

### What is only model-checked

* Of the expression modules: `AcceptsWithTheTree`, `RefusesNoSentence` and
  `ImplementsExpression` compare with definitions that are recursive over data, which
  TLAPS cannot induct over.
* `CompilationEnds`, `ParsingEnds` and `LexingEnds`: liveness.

## 5. Not modelled

* The wording of diagnostics, options and output files: pure I/O.
* The AST printer: formatting only.
* The layouts of structs in LLVM (`types/struct.cpp:80-134`): planned, below. The struct of
  `ExpressionCodegen` has one field; which struct an operator takes is in `StructScopes`.
* Functions as values, in expressions: a call is an operator with one parameter, or
  none. `sizeof` of a type, whose value is LLVM's.
* Types of any depth behind the parser: `FunctionLinkage`, `ExpressionTypes` and
  `StructScopes` nest a type as deep as each needs it.

## 6. Plan

The core comes first because every C program runs through it; the file scope and
the expressions complete what a program of functions over scalars needs;
declarations, structs and the lexer surround them. What is
left, in this order:

1. `ExpressionCodegen`: function designators and pointers to functions
   (`typecheckWrap`, `unwrapFunctionPointer`), with calls through them.
2. Struct layouts on top of `StructScopes`: the index of a field in the LLVM struct,
   the name of an alternative layout (`_alt_tag`), the size of an object that is still
   incomplete.
