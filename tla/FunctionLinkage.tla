---------------------------- MODULE FunctionLinkage ----------------------------
(***************************************************************************)
(* The external declarations of a program: how the functions and variables *)
(* of the file scope are declared and defined, in the Scope of the type    *)
(* checker and then in the LLVM module.                                    *)
(*                                                                         *)
(* main parses the program, type checks it and compiles it; each of the    *)
(* two passes goes through the same items in source order.  (The code      *)
(* keeps the declarations and the definitions in a vector each and a       *)
(* vector of flags to merge them.)  Of the body of a definition only what  *)
(* touches the file scope is kept: declarations and uses of names.         *)
(***************************************************************************)
EXTENDS Naturals, Sequences, FiniteSets

CONSTANTS
  Name,        \* the identifiers of the program
  External,    \* those it declares at file scope
  NoName,      \* an abstract declarator has no identifier
  Value,       \* the types of variables and parameters
  Return,      \* the return types
  MaxItems,    \* bounds: the items of the program,
  MaxParams,   \* the parameters of a declarator,
  MaxBody,     \* and the statements of a body
  BlockFunctions  \* whether bodies declare functions

Void == "void"

ASSUME LinkageAssumption ==
  /\ External \subseteq Name /\ NoName \notin Name
  /\ Value # {} /\ "undeclared" \notin Value \cup Return
  /\ MaxItems \in Nat /\ MaxParams \in Nat /\ MaxBody \in Nat
  /\ BlockFunctions \in BOOLEAN

VARIABLES
  phase,      \* the pass that runs, or how the compilation ended
  items,      \* the program as parsed
  pos,        \* the item the running pass is at
  inner,      \* 0, or the next statement of the body of that item
  fileVars,   \* Scope::_vars of the file scope: the type of each name
  defined,    \* Scope::_defined_functions of the file scope
  locals,     \* Scope::_vars of the scope of the function type
  module,     \* the symbols created for each name in the LLVM module, in order
  allocas     \* CompileScope::_allocas of the function

vars_ == <<phase, items, pos, inner, fileVars, defined, locals, module, allocas>>
semaVars == <<fileVars, defined, locals>>
codegenVars == <<module, allocas>>

(***************************************************************************)
(* What the parser delivers.  A declarator without a parameter list, f(),  *)
(* has no parameters; f(void) has the parameter void.                      *)
(***************************************************************************)
Param == [name : Name \cup {NoName}, type : Value \cup {Void}]

Declarator == [function : BOOLEAN, of : Value \cup Return, params : Seq(Param)]
Statement  == [declares : BOOLEAN, name : Name, declarator : Declarator]
Item       == [definition : BOOLEAN, name : Name \cup {NoName},
               declarator : Declarator, body : Seq(Statement)]

UpTo(S, n) == UNION {[1..k -> S] : k \in 0..n}
Objects    == [function : {FALSE}, of : Value, params : {<<>>}]
Functions  == [function : {TRUE}, of : Return, params : UpTo(Param, MaxParams)]
Declarators == Objects \cup Functions

\* A use has no declarator of its own.
AnyObject  == CHOOSE d \in Objects : TRUE
Uses       == [declares : {FALSE}, name : Name, declarator : {AnyObject}]
Statements == Uses \cup (IF BlockFunctions
                         THEN [declares : {TRUE}, name : External, declarator : Functions]
                         ELSE [declares : {TRUE}, name : Name, declarator : Objects])

(***************************************************************************)
(* Types.  "listed" is has_params: the type is a ParamFunctionType.        *)
(***************************************************************************)
Type == [function : BOOLEAN, of : Value \cup Return, listed : BOOLEAN,
         params : Seq([name : Name \cup {NoName}, type : Value])]
Undeclared == [function |-> FALSE, of |-> "undeclared", listed |-> FALSE, params |-> <<>>]
NoNames == [n \in Name |-> Undeclared]

\* FunctionDeclarator::wrapType: a single parameter void stands for none; in
\* the mutant it is a parameter.
IsVoidList(ps) == Len(ps) = 1 /\ ps[1].type = Void
VoidIsParameter(ps) == ps
WithoutVoid(ps) == IF IsVoidList(ps) THEN <<>> ELSE ps
TypeOf(d) == [function |-> d.function, of |-> d.of, listed |-> d.params # <<>>,
              params |-> WithoutVoid(d.params)]

IsWellFormed(d) ==
  IF IsVoidList(d.params) THEN d.params[1].name = NoName
  ELSE \A i \in 1..Len(d.params) : d.params[i].type # Void

\* strong_equals of Type, FunctionType and ParamFunctionType; not symmetric.
\* Mutant: without the numbers of parameters.
ParamsAgreeAsFarAs(s, t) ==
  s.listed => IF ~t.listed THEN s.params = <<>>
              ELSE \A i \in 1..Len(s.params) :
                     i <= Len(t.params) => s.params[i].type = t.params[i].type
ParamsAgree(s, t) ==
  s.listed => IF ~t.listed THEN s.params = <<>>
              ELSE /\ Len(s.params) = Len(t.params)
                   /\ \A i \in 1..Len(s.params) : s.params[i].type = t.params[i].type
StrongEquals(s, t) ==
  s.function = t.function /\ s.of = t.of /\ ParamsAgree(s, t)

ParamNames(ps) == {ps[i].name : i \in 1..Len(ps)} \ {NoName}
HasUniqueNames(ps) ==
  \A i, j \in 1..Len(ps) : ps[i].name = ps[j].name /\ ps[i].name # NoName => i = j

------------------------------------------------------------------------------
LinkageTypeOK ==
  /\ phase \in {"parse", "typecheck", "compile", "compiled", "rejected", "crashed"}
  /\ items \in Seq(Item)
  /\ pos \in Nat \ {0}
  /\ inner \in Nat
  /\ fileVars \in [Name -> Type \cup {Undeclared}]
  /\ defined \subseteq Name
  /\ locals \in [Name -> Type \cup {Undeclared}]
  /\ module \in [Name -> Seq([type : Type, body : BOOLEAN])]
  /\ allocas \subseteq Name

Init ==
  /\ phase = "parse"
  /\ items = <<>>
  /\ pos = 1 /\ inner = 0
  /\ fileVars = NoNames /\ defined = {} /\ locals = NoNames
  /\ module = [n \in Name |-> <<>>] /\ allocas = {}

(***************************************************************************)
(* parseProgram, Program::addDeclaration, Program::addFunctionDefinition.  *)
(***************************************************************************)
ParseItem ==
  /\ phase = "parse" /\ Len(items) < MaxItems
  /\ \E d \in Declarators, n \in External \cup {NoName} :
       /\ d.function => n # NoName
       /\ \/ items' = Append(items, [definition |-> FALSE, name |-> n,
                                     declarator |-> d, body |-> <<>>])
          \/ \E b \in UpTo(Statements, MaxBody) :
               items' = Append(items, [definition |-> TRUE, name |-> n,
                                       declarator |-> d, body |-> b])
  /\ UNCHANGED <<phase, pos, inner, semaVars, codegenVars>>

FinishParse ==
  /\ phase = "parse"
  /\ phase' = "typecheck"
  /\ UNCHANGED <<items, pos, inner, semaVars, codegenVars>>

\* The item or the statement the running pass is about to enter.  Compiling a
\* body takes two loops over its statements, and "inner" counts through both.
Loops(p)       == IF p = "compile" THEN 2 ELSE 1
AtItem(p)      == phase = p /\ inner = 0 /\ pos <= Len(items)
AtStatement(p) == phase = p /\ inner > 0 /\ inner <= Loops(p) * Len(items[pos].body)
AtEndOfBody(p) == phase = p /\ inner > 0 /\ inner > Loops(p) * Len(items[pos].body)

NextItem == pos' = pos + 1 /\ inner' = 0 /\ UNCHANGED <<phase, items>>
NextStatement == inner' = inner + 1 /\ UNCHANGED <<phase, items, pos>>
EnterBody == inner' = 1 /\ UNCHANGED <<phase, items, pos>>

------------------------------------------------------------------------------
(***************************************************************************)
(* The type checker.                                                       *)
(***************************************************************************)
\* unordered_map::insert
Insert(scope, n, t) == IF scope[n] = Undeclared THEN [scope EXCEPT ![n] = t] ELSE scope

\* Declaration::typecheck up to addDeclaration.
IsDeclarable(n, d) ==
  /\ n # NoName /\ IsWellFormed(d)
  /\ d.function => HasUniqueNames(TypeOf(d).params)

\* Scope::addDeclaration in the file scope, where redeclarations are legal.
FitsFileScope(n, t) ==
  StrongEquals(t, IF fileVars[n] = Undeclared THEN t ELSE fileVars[n])

CheckDeclaration ==
  LET n == items[pos].name
      t == TypeOf(items[pos].declarator) IN
  /\ AtItem("typecheck") /\ ~items[pos].definition
  /\ IsDeclarable(n, items[pos].declarator) /\ FitsFileScope(n, t)
  /\ fileVars' = Insert(fileVars, n, t)
  /\ NextItem
  /\ UNCHANGED <<defined, locals, codegenVars>>

\* Scope::addFunctionDeclaration; mutant: a definition is not remembered.
RedefinitionAllowed(n, t) == fileVars[n] # Undeclared => StrongEquals(fileVars[n], t)
FitsDefinition(n, t) ==
  /\ fileVars[n] # Undeclared => StrongEquals(fileVars[n], t)
  /\ n \notin defined

\* FunctionDefinition::typecheck up to the body.
AreNamed(ps) == \A i \in 1..Len(ps) : ps[i].name # NoName
IsDefinable(item) ==
  LET t == TypeOf(item.declarator) IN
  /\ IsWellFormed(item.declarator) /\ t.function
  /\ FitsDefinition(item.name, t)
  /\ AreNamed(t.params) /\ HasUniqueNames(t.params)

CheckDefinition ==
  LET t == TypeOf(items[pos].declarator)
      i(n) == CHOOSE k \in 1..Len(t.params) : t.params[k].name = n IN
  /\ AtItem("typecheck") /\ items[pos].definition
  /\ IsDefinable(items[pos])
  /\ fileVars' = Insert(fileVars, items[pos].name, t)
  /\ defined' = defined \cup {items[pos].name}
  /\ locals' = [n \in Name |->
                  IF n \in ParamNames(t.params)
                  THEN [Undeclared EXCEPT !.of = t.params[i(n)].type] ELSE Undeclared]
  /\ EnterBody
  /\ UNCHANGED codegenVars

\* Declaration::typecheck in the scope of the function: addDeclaration hands
\* a function on to the file scope.
CheckLocalDeclaration ==
  LET s == items[pos].body[inner]
      t == TypeOf(s.declarator) IN
  /\ AtStatement("typecheck") /\ s.declares
  /\ IsDeclarable(s.name, s.declarator)
  /\ IF t.function
     THEN /\ FitsFileScope(s.name, t)
          /\ fileVars' = Insert(fileVars, s.name, t)
          /\ UNCHANGED locals
     ELSE /\ locals[s.name] = Undeclared
          /\ locals' = Insert(locals, s.name, t)
          /\ UNCHANGED fileVars
  /\ NextStatement
  /\ UNCHANGED <<defined, codegenVars>>

\* IdentExpression::typecheck, Scope::getVarType.
IsDeclared(n) == locals[n] # Undeclared \/ fileVars[n] # Undeclared
CheckUse ==
  /\ AtStatement("typecheck") /\ ~items[pos].body[inner].declares
  /\ IsDeclared(items[pos].body[inner].name)
  /\ NextStatement
  /\ UNCHANGED <<semaVars, codegenVars>>

\* errorloc, where none of the actions above is possible.
IsIllegal ==
  \/ /\ AtItem("typecheck")
     /\ IF items[pos].definition THEN ~IsDefinable(items[pos])
        ELSE ~(/\ IsDeclarable(items[pos].name, items[pos].declarator)
               /\ FitsFileScope(items[pos].name, TypeOf(items[pos].declarator)))
  \/ /\ AtStatement("typecheck")
     /\ LET s == items[pos].body[inner] IN
        IF ~s.declares THEN ~IsDeclared(s.name)
        ELSE ~(/\ IsDeclarable(s.name, s.declarator)
               /\ IF s.declarator.function THEN FitsFileScope(s.name, TypeOf(s.declarator))
                  ELSE locals[s.name] = Undeclared)
RejectItem ==
  /\ IsIllegal
  /\ phase' = "rejected"
  /\ UNCHANGED <<items, pos, inner, semaVars, codegenVars>>

FinishTypecheck ==
  /\ phase = "typecheck" /\ inner = 0 /\ pos > Len(items)
  /\ phase' = "compile"
  /\ pos' = 1
  /\ UNCHANGED <<items, inner, semaVars, codegenVars>>

------------------------------------------------------------------------------
(***************************************************************************)
(* The code generator.  LLVM gives a symbol another name if its name is    *)
(* taken, so of the symbols created for a name the first one has it.       *)
(***************************************************************************)
Symbol(t, hasBody) == [type |-> t, body |-> hasBody]
HasSymbol(n) == module[n] # <<>>
HasFunction(n) == HasSymbol(n) /\ module[n][1].type.function

\* Declaration::compile
CompileDeclaration ==
  /\ AtItem("compile") /\ ~items[pos].definition
  /\ module' = [module EXCEPT ![items[pos].name] =
                  Append(@, Symbol(TypeOf(items[pos].declarator), FALSE))]
  /\ NextItem
  /\ UNCHANGED <<semaVars, allocas>>

\* FunctionDefinition::compile takes the function that has the name.
\* Mutant: it always creates one.
AlwaysCreates(n, t) == Append(module[n], Symbol(t, TRUE))
WithDefinition(n, t) ==
  IF HasFunction(n) THEN [module[n] EXCEPT ![1].body = TRUE]
  ELSE Append(module[n], Symbol(t, TRUE))

\* The type of the LLVM function a definition is compiled into.
FunctionFor(n, t) == IF HasFunction(n) THEN module[n][1].type ELSE t

\* If the definition has a parameter list, an alloca for each argument of that
\* function, under the name of the parameter: params is indexed without a check.
ArgumentNames(f, t) == {t.params[i].name : i \in {k \in 1..Len(t.params) : k <= Len(f.params)}}
IndexesOutOfRange(f, t) == t.listed /\ Len(f.params) > Len(t.params)

CompileDefinition ==
  LET n == items[pos].name
      t == TypeOf(items[pos].declarator)
      f == FunctionFor(n, t) IN
  /\ AtItem("compile") /\ items[pos].definition
  /\ module' = [module EXCEPT ![n] = WithDefinition(n, t)]
  /\ allocas' = ArgumentNames(f, t)
  /\ inner' = 1
  /\ phase' = IF IndexesOutOfRange(f, t) THEN "crashed" ELSE phase
  /\ UNCHANGED <<items, pos, semaVars>>

\* BlockStatement::compile: the first loop compiles the declarations and passes
\* over the other statements, the second one the other way round.
InFirstLoop == inner <= Len(items[pos].body)
LoopStatement ==
  items[pos].body[IF InFirstLoop THEN inner ELSE inner - Len(items[pos].body)]
IsTurn == LoopStatement.declares = InFirstLoop

PassOver ==
  /\ AtStatement("compile") /\ ~IsTurn
  /\ NextStatement
  /\ UNCHANGED <<semaVars, codegenVars>>

\* DeclarationStatement::compile: an alloca, which LLVM refuses for the type
\* of a function (a failed assertion, or in a build without assertions
\* undefined: it may go on).
CompileLocalDeclaration ==
  LET s == LoopStatement IN
  /\ AtStatement("compile") /\ IsTurn /\ s.declares
  /\ allocas' = allocas \cup {s.name}
  /\ \/ NextStatement
     \/ /\ s.declarator.function /\ phase' = "crashed"
        /\ UNCHANGED <<items, pos, inner>>
  /\ UNCHANGED <<semaVars, module>>

\* CompileScope::getAlloca: the function, then the module; value() of
\* std::nullopt throws.
IsFound(n) == n \in allocas \/ HasSymbol(n)
CompileUse ==
  LET s == LoopStatement IN
  /\ AtStatement("compile") /\ IsTurn /\ ~s.declares
  /\ IF IsFound(s.name) THEN NextStatement
     ELSE phase' = "crashed" /\ UNCHANGED <<items, pos, inner>>
  /\ UNCHANGED <<semaVars, codegenVars>>

FinishCompile ==
  /\ phase = "compile" /\ inner = 0 /\ pos > Len(items)
  /\ phase' = "compiled"
  /\ UNCHANGED <<items, pos, inner, semaVars, codegenVars>>

\* Both passes leave a body and the scope of its function.
LeaveBody ==
  /\ AtEndOfBody("typecheck") \/ AtEndOfBody("compile")
  /\ NextItem
  /\ UNCHANGED <<semaVars, codegenVars>>

Next ==
  \/ ParseItem \/ FinishParse
  \/ CheckDeclaration \/ CheckDefinition \/ CheckLocalDeclaration \/ CheckUse
  \/ RejectItem \/ FinishTypecheck
  \/ CompileDeclaration \/ CompileDefinition
  \/ CompileLocalDeclaration \/ CompileUse \/ PassOver
  \/ FinishCompile \/ LeaveBody

Spec == Init /\ [][Next]_vars_
------------------------------------------------------------------------------
\* Definition j follows a declaration of its function that has no parameter
\* list, at file scope or in the body of a function.
DeclaresUnlisted(s, n) ==
  s.declares /\ s.name = n /\ s.declarator.function /\ s.declarator.params = <<>>
LosesParameters(j) ==
  /\ items[j].definition /\ TypeOf(items[j].declarator).params # <<>>
  /\ \E i \in 1..(j - 1) :
       \/ /\ ~items[i].definition /\ items[i].name = items[j].name
          /\ items[i].declarator.params = <<>>
       \/ \E k \in 1..Len(items[i].body) :
            DeclaresUnlisted(items[i].body[k], items[j].name)
\* The body of definition j declares a function.
DeclaresFunction(j) ==
  \E k \in 1..Len(items[j].body) :
    items[j].body[k].declares /\ items[j].body[k].declarator.function

\* The body of the definition at pos has just been entered.
AtBody(p) == phase = p /\ inner = 1
ParametersOf(j) == ParamNames(TypeOf(items[j].declarator).params)

(***************************************************************************)
(* The loops over the arguments of the LLVM function index the parameters  *)
(* of the definition without a check.  The function may come from another  *)
(* declaration with another list, that passed strong_equals in another     *)
(* order; still it never has more arguments than the definition has        *)
(* parameters (function_definition.cpp:75-84 and 100-115).                 *)
(***************************************************************************)
ArgumentsInRange ==
  AtItem("compile") /\ items[pos].definition =>
    LET t == TypeOf(items[pos].declarator)
    IN ~IndexesOutOfRange(FunctionFor(items[pos].name, t), t)

(***************************************************************************)
(* function_definition.cpp:93: "Store all the function arguments in        *)
(* allocas".  In the body of a definition each parameter has its alloca.   *)
(***************************************************************************)
ArgumentsAreStored == AtBody("compile") => ParametersOf(pos) \subseteq allocas

(***************************************************************************)
(* The same, except behind a declaration without a parameter list: its     *)
(* LLVM function has no arguments, and if a body has it, the definition    *)
(* can take over one of a declaration f(void) (function_definition.cpp:    *)
(* 60-64, scope.cpp:59-61).                                                *)
(***************************************************************************)
ArgumentsAreStoredUnlessUnlisted ==
  AtBody("compile") => ParametersOf(pos) \subseteq allocas \/ LosesParameters(pos)

(***************************************************************************)
(* An accepted program does not use one name for a function and a variable *)
(* of the file scope, and defines no function twice, in whatever order its *)
(* items come (scope.cpp:54-99).                                           *)
(***************************************************************************)
DefinedOnce ==
  phase \in {"compile", "compiled"} =>
    \A i, j \in 1..Len(items) : items[i].name = items[j].name =>
      /\ items[i].declarator.function = items[j].declarator.function
      /\ items[i].definition /\ items[j].definition => i = j

(***************************************************************************)
(* The module of a compiled program has a symbol for each name of the file *)
(* scope, and the body of a function is in the symbol that its name refers *)
(* to, not in a renamed one (function_definition.cpp:60-64).               *)
(***************************************************************************)
ModuleImplementsProgram ==
  phase = "compiled" =>
    \A n \in Name :
      /\ HasSymbol(n) = (\E i \in 1..Len(items) : items[i].name = n)
      /\ \A k \in 1..Len(module[n]) :
           module[n][k].body =
             (k = 1 /\ \E i \in 1..Len(items) : items[i].definition /\ items[i].name = n)

(***************************************************************************)
(* primary.cpp:45 takes an identifier for found because the program was    *)
(* type checked.  That holds unless a definition lost its parameters or a  *)
(* body declares a function: the type checker puts that into the file      *)
(* scope, the code generator into no module (scope.cpp:59-61).             *)
(***************************************************************************)
AcceptedProgramsCompile ==
  phase = "crashed" =>
    \E j \in 1..Len(items) : LosesParameters(j) \/ DeclaresFunction(j)
==============================================================================
