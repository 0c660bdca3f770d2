# SYsU-lang compiler: specifications, model checking, proofs

TLA+ modules for the front end (`front-end/`) and the optimizer (`optimizer/`)
of the SYsU-lang compiler, the TLC configurations that check them, and proofs
for TLAPS. `PROJECT.json` holds the same facts in a form tools can read:
components, runs, mutants, the source lines behind each definition, hazards,
findings, theorems.

Contents: [inventory](#1-inventory), [modules](#2-modules),
[runs](#3-runs-and-bounds), [fairness](#4-fairness), [proofs](#5-proofs),
[findings](#6-findings), [what is only model-checked](#7-only-model-checked),
[what is left out](#8-not-modelled).

## 1. Inventory

The compiler is sequential: one thread, no I/O between reading the input and
writing the output. Its hard behaviours are not interleavings of processes but
walks that carry state from one node of a tree to another, graphs that are
rewritten while they are walked, and results that are read later than they were
valid. `main` runs `main_task3`; the other two tasks are called by commented-out
lines.

    main_task1   source -> lexer -> print_tokens_clang
    main_task2   source -> ANTLR parser -> Ast2Asg -> gc -> Typing -> gc -> Asg2Json
    main_task3   clang JSON -> Json2Asg -> gc -> EmitIR -> gc -> print -> verifyModule
    optimizer    LLVM IR -> Mem2Reg -> ConstantFolding -> StrengthReduction -> print -> verifyModule

| component | state | operations | interaction | what makes it correct |
|---|---|---|---|---|
| **EmitIR** (`asg/EmitIR`) | insertion block of `mCurIrb`, `mCurFunc`, the module's functions and blocks, `Obj::any` of loops, functions and variables, locals of the calls in progress | one visit per kind of node; `var_init` | reads the ASG that Json2Asg made, jumps through `loop` to `any` | every block ends exactly once; branches stay in their function; phis match predecessors; allocas precede uses; the IR evaluates what the source evaluates, in its order; initialisers leave in memory what C says |
| **Json2Asg** (`asg/Json2Asg`) | `mCurFunc`, `mCurLoop`, `mIdMap`, `mTyMap` | one function per kind of node; a recursive-descent parser of clang's type strings | makes objects of `Obj::Mgr`; links jumps and returns | each jump is linked to the loop around it, each return to its function; types are what the string says |
| **Object system** (`asg/Obj`) | ring of `__next__` pointers, two flags in each, `mRoot` | `make`, `gc`, `Walked` | `gc` calls every `__mark__`; main calls `gc` between phases | a collection frees exactly what the root does not reach, and returns |
| **ASG** (`asg/asg`) | the objects' fields; `Type::Cache` | `__mark__`, type comparison, the cache | all visitors | sharing types is not visible; `__mark__` passes every pointer field |
| **ANTLR parser** (`antlr/CParser`) | token position, the contexts in progress | one rule function per rule of `C.g4`, `adaptivePredict` | its tree is what Ast2Asg walks | the tree says what C says of the text |
| **Ast2Asg** | symbol table (a chain of maps on the C++ stack), `mCurrentFunc`, `mCurrentIter` | one visit per grammar rule; array lengths are evaluated on the way | as Json2Asg | a name means what C's scopes say; trees follow precedence; lengths are the constants' values |
| **Typing** | `Type::Cache`, the types it writes into expressions | one visit per kind of node; casts are inserted, initialisers laid out | rewrites the ASG in place | every expression gets C's type and the casts it needs; what C forbids is rejected |
| **Asg2Json** | none but the `Walked` flags | one printer per kind of node | reads the ASG | output is what the grader compares with clang's, and task 3 can read its types |
| **print_tokens** | line, file name, whitespace and line-start flags | one turn per token | reads ANTLR's tokens | positions and flags match clang's |
| **Scalar passes** (`optimizer/ConstantFolding`, `StrengthReduction`) | per block: the instructions to replace or erase | `run` | rewrite LLVM IR in place, in that order | the function computes the same values |
| **Mem2Reg** (`optimizer/Mem2Reg`, `PromoteMemoryToRegister`) | allocas and the index of each, phi maps, the renaming work list | `isAllocaPromotable`, the two shortcuts, phi placement, `RenamePass`, simplification | rewrites LLVM IR | loads become the value last stored, phis are complete, the loop ends |

Hard behaviours, each with its line and its properties, are the `hazards` of
`PROJECT.json`. The main ones:

* a statement may end its basic block at any depth (return, break, continue), and
  everything emitted after it has to notice (`EmitIR.cpp:301,371,377,387,421,500`);
* sub-expressions open blocks of their own, so "the block I am in" is stale after
  a recursive call (`EmitIR.cpp:201,410`);
* allocas are inserted elsewhere and the insertion point is restored (`:539-552`);
* jumps are resolved through pointers that another component wrote and through
  `any` fields that are null until a visit (`EmitIR.cpp:430,435`,
  `Json2Asg.cpp:530,549,556`);
* the collector rewrites the ring it walks, with flags inside the pointers
  (`Obj.cpp:9-21`), on graphs that have cycles;
* Ast2Asg resolves names while scopes open and close, visits declarators of
  parameters twice, and evaluates array lengths through links it has just made
  (`Ast2Asg.cpp:20,140,796,879`); inner braces are gone before types are known (`:612`);
* Typing shares type expressions through a cache and changes some of them later
  (`asg.cpp:24`, `Typing.cpp:760`);
* a grammar without a table of names has several trees for one text (`C.g4:223,485`);
* the reader of type strings turns its result inside out by a recursion that keeps two ends
  (`Json2Asg.cpp:690`);
* `PromoteMemToReg` keeps indices into a list that shrinks and is reordered
  (`PromoteMemoryToRegister.cpp:126`), gives up half-way (`:363`), and folds phis in
  the order of a hash table (`:697`);
* the scalar passes insert into and erase from the blocks they iterate over, and
  compute in 64 bits what the program computes in fewer
  (`ConstantFolding.cpp:57,69`, `StrengthReduction.cpp:69,91`).

## 2. Modules

| module | models | state and actions |
|---|---|---|
| `Asg` | `asg/asg.hpp`, as the visitors see it | constant data: an ASG is the sequence of visits a depth-first walk makes, one token per visit; a token knows where its subtree ends. Operators for C's notion of the enclosing loop and function |
| `Json2Asg` | `asg/Json2Asg.cpp`, the state between nodes | the position in the document, `mCurFunc`, `mCurLoop`, the links written; one action per kind of node that touches them |
| `EmitIR` | `asg/EmitIR.cpp` | the position, the C++ calls in progress with their locals (`frames`), the blocks (`bb`), `cur`, `mCurFunc`, `any`, the last value; one action per stretch of a handler between two recursive calls |
| `RunIR` | the meaning of the emitted IR (LLVM's, external) | program counter and registers; composed after `EmitIR` |
| `CSem` | the meaning of the ASG (C's, external), the abstract specification of `EmitIR` | the expression evaluated next |
| `Task3` | `main_task3` | extends `Json2Asg`, with `EmitIR` as an instance, and the hand-over |
| `TypeStrings` | the parser of type strings in `Json2Asg.cpp`, the printer of `Asg2Json.cpp` | operators on token sequences |
| `JsonDecls` | declarations, initialisers, ids and expressions of `Json2Asg.cpp`; `var_init` and `trans_init` of `EmitIR.cpp` | clang's objects read one by one, the stores they become, memory |
| `ObjGraph`, `Heap` | what `Obj::Mgr` promises: the abstract specification | live objects, their fields, the root; a collection is one step |
| `ObjMgr` | `asg/Obj.hpp`, `asg/Obj.cpp`, with the `__mark__` functions of `asg/asg.cpp` | the ring with its flags, the calls of `gc_mark_dfs`, `here`; one action per visit and per turn of the sweep |
| `Parser` | `antlr/CParser.cpp` | one definition per rule function; a parse is one step |
| `Reading` | C's trees and texts (external); what a parse tree says | operators |
| `Ast2Asg` | `Ast2Asg.cpp` | the position in the source, the chain `symtbl`, the calls in progress with their locals, the tree returned last, the links, initialisers and lengths written; one action per stretch of a visitor between two recursive calls |
| `Ast2AsgExprs` | `eval_arrlen`; C's precedence and constant expressions (external) | recursive operators, apart from `Ast2Asg` because it is proved about: its constant `ArrayLength` is `eval_arrlen` in the run |
| `CSource` | the parse tree and C's scopes (external): what `Ast2Asg` is compared with | constant data and operators |
| `Typing` | `asg/Typing.cpp`; types and their comparison, `Type::Cache` (`asg/asg.hpp`, `asg/asg.cpp`) | the heap and the cache, the items typed so far; one action per item, the visitors are operators that pass the heap on |
| `CInit`, `CTypes` | C's initialisers, types and constraints (external) | operators |
| `Task2` | `asg/Asg2Json.cpp`; `main_task2` from the ASG on | the document, written when all is typed |
| `PrintTokens` | `print_tokens.cpp` and `main_task1` | the tokens left, the variables of the printer, what was printed; one action per token |
| `IRFunc` | a function of LLVM IR and its meaning (LLVM's, external); the loop over instructions that both passes have | the function, the position in it |
| `ConstantFolding` | `optimizer/ConstantFolding.cpp` | `erase`; one action per outcome of an instruction, per erasure and per end of a block |
| `StrengthReduction` | `optimizer/StrengthReduction.cpp` | `replace`; one action per outcome of an instruction, per replacement and per end of a block |
| `Opt` | `opt` of `optimizer/main.cpp`, after Mem2Reg | the two passes in their order on one function |
| `MemIR` | functions with branches and memory, dominance, executions (LLVM's, external) | operators |
| `Mem2Reg` | `optimizer/Mem2Reg.cpp`, `PromoteMemoryToRegister.cpp` | the function, `Allocas` with its lookup, phi maps, the work list, the stage; one action per turn of a loop |
| `AsgGen`, `MC*` | - | bounded inputs; instances for TLC |
| `EmitIR_proofs`, `Task3_proofs`, `ObjMgr_proofs`, `PrintTokens_proofs`, `Opt_proofs`, `Mem2Reg_proofs`, `Mem2RegSSA_proofs`, `Ast2Asg_proofs` | - | theorems |

**From code to actions.** A recursive visitor is modelled with its call stack
explicit. `EmitIR::operator()(WhileStmt *)`, for example, calls itself twice (for
the condition and for the body), so it is three actions: `WhileBegin` up to the
first call, `WhileBody` between the calls, `WhileEnd` after the second. Locals
that live across a call (`condBeginBB`, `bodyBeginBB`, `endBB`, `condEndBB`,
`cond`) are fields of its frame; the insertion block is global, as in the code,
so that what a nested visit did to it is seen afterwards. `IRBuilder::Create*` never asks
whether the block has a terminator and neither do the actions: `Terminate`
overwrites, and `TerminatorsAreFinal` says it never has to. Where only the result of a
visit matters and nothing can come between its parts (Typing's visitors, the rule
functions of the parser, the type strings), the recursion is an operator.

**Abstraction, module by module.**

* `EmitIR`, `Json2Asg`. Expressions without control flow (loads, calls, arithmetic,
  comparisons) are one token, `atom`; `&&` and `||` are kept because they open
  blocks. A `CompoundStmt` is flattened into the list around it: its handler
  changes no state, and the check that `operator()(Stmt *)` makes on it is made again for each
  of its statements. A `NullStmt` emits nothing and is left out. Pointers to ASG nodes are
  token numbers, pointers to basic blocks are indices in the order of creation, and
  0 is `nullptr`.
* `ObjMgr`. An object has two pointer fields, for the several kinds of node; a `Walked`
  guard is taken along a path from the root, as the traversals that use it do.
* `Parser`. `adaptivePredict` is ANTLR's; the code generated around it relies on it to return the
  first alternative with which the rest of the input can be parsed, and that is the model.
* `Ast2Asg` keeps every name, operator and literal (of a literal, its digits), since scopes,
  trees and lengths are what it is about; names of types and the nesting of type expressions are
  left out.
* `Typing`. Comparisons with a null `this` (`Obj.hpp:28`) have any outcome that a build may give
  them. A type that lives on the C++ stack is unknown once its function has returned. `dcst` of a null
  pointer is a null pointer. String literals are left out: no visitor of Ast2Asg makes one.
* `Task2`. `JsonAsClang` grades the document as `test/task2/score.py` does, for a language
  whose types are `int` and arrays of it, and has task 3's reader read the type strings back.
  Value categories and cast kinds are compared by no one and left out of it. The collections
  between the phases are `ObjMgr`'s.
* `JsonDecls`. Clang's JSON is built from the source by `CInit`; braces around a scalar's
  initialiser and designators are excluded. An `ImplicitInitExpr` that is not at the head of its list,
  for which `EmitIR.cpp:98` calls itself without end, ends the walk (`Endless`); it
  takes a designator to make clang write one. The memset before the stores is taken for arrays of
  `int`. `mTyMap` is a memo and left out.
* `PrintTokens`. `lastIsWhitespace` and `lastIsDirective` have no first value in the code: any value in the
  model. Columns come from the lexer.
* The scalar passes. A function is a list of blocks of `add`, `sub`, `mul`, `sdiv`, `srem`
  (and `shl`, which the passes make) on w-bit integers. Neither pass looks at branches, so a
  straight line of blocks stands for a path through the function. Arithmetic on `int64_t` is exact
  in the model, which is right for w up to 32.
* `Mem2Reg`. Types of loads and stores are left out (EmitIR makes them equal to the
  alloca's). The order of use lists and of `DenseMap`s is any order. `AsDocumented` chooses whether
  allocas are selected as `PromoteMemToReg.hpp:7-12` says or as `isAllocaPromotable` does. Behind the
  test as it is (`PromoteMemoryToRegister.cpp:19`) nearly all of the pass is latent code: what is checked
  of it is about the pass as its header documents it (section 6).

A definition `X_Y` is `X` with a plausible slip `Y`. No action uses it; putting
it in the place of `X` shows that a property notices (`mutants` in `PROJECT.json`).

## 3. Runs and bounds

| run | question | bound |
|---|---|---|
| `run_ir` | is the control flow graph well formed at every step and at the end, and does the IR do what the source says? | with jumps linked as C defines: every function of at most 4 statements (while, if, if-else, expression, break, continue, return) with atomic expressions, and an initialised global, a prototype and a function of at most 2 statements whose expressions are an atom or one of three nestings of `&&` and `\|\|`. With jumps linked to the loop entered last, as Json2Asg does: functions of at most 5 of while, if, break, and functions of at most 2 statements with local prototypes. One call of any function of a rightly linked ASG, every outcome of every expression |
| `task3` | which links does Json2Asg get right, and what becomes of the wrong ones in EmitIR? | functions of at most 4 statements with local prototypes, pairs of functions of at most 2 statements with a prototype between them, functions of at most 5 of while, if, break |
| `json2asg_loops` | does the comment on `mCurLoop` hold? | at most 4 statements; violated, see [findings](#6-findings) |
| `obj_mgr` | does mark and sweep implement an atomic collection, and return? | 3 objects of 2 fields, any assignments between collections, one `Walked` guard at a time |
| `parser` | does the parse tree say what C says? | 6025 programs: expressions of two operators, and of three from eight levels or with names in parentheses; statements nested in statements; `for` with heads of one, two and three operators and with declarations; declarations |
| `ast2asg` | are scopes, trees and lengths those of C? | all expressions with 3 operators, one for each rule of the grammar; every function of at most 3 declarations, uses and blocks of the names `x` and `f` behind 3 kinds of globals and parameters; pairs of functions of at most 2 loops, branches and jumps; constants of 11 forms in array lengths of 7 forms, in files, functions and parameters |
| `task2` | are expressions typed, initialisers laid out, programs rejected as in C, and is the JSON clang's? | every expression of one and two operators over 17 declarations (scalars of three types, const, arrays, parameters with and without a length, functions), each after a statement that fills the cache; initialisers with and without inner braces |
| `json_decls` | are type strings read right, and do initialisers leave in memory what C says? | every type of up to 3 derivations; scalars and arrays of up to 3 dimensions with elided, full and implicit elements |
| `print_tokens` | is the token dump clang's? | files of up to 5 pieces (white space, newlines, tokens, line markers), and every pair of lexemes |
| `opt` | do the scalar passes keep what a function computes? | every function of two instructions in one or two blocks, and chains of three products and remainders, on 3-bit integers with the literals 0, 2 and -1, called with every argument; no remainder of a constant by a variable |
| `opt_rem_left` | and with such remainders? | one instruction; violated, see [findings](#6-findings) |
| `mem2reg` | does promotion keep what a function does, leave SSA form, and end? | 10 control flow graphs with joins, loops, double edges and unreachable blocks; one variable with up to 3 commands in a block, or two, one of which may hold the other's address; paths of up to 5 blocks; the test of the header |

Why the bounds are enough. Everything the emission of a statement depends on is
whether the insertion block is open, the frame around it, and the `any` of the
loop it jumps to. Four statements give three levels of nesting with a statement after the
inner ones, so that each kind of statement occurs after each way for the previous one to end, in
a branch of an `if` in a loop, and jumps leave one loop inside another. Task 3 has the
larger bound because its second case, a jump linked to a loop that was
dropped as dead code, takes five statements. For the collector three objects are
the fewest with a cycle and something that hangs off it, two neighbours deleted
in a row, and a deleted object between two that stay. Three operators show
associativity and any two levels of precedence with a third operator on either side; three items
are enough for a use behind a nested block that hides a name. A second operator is where
Typing's conversions meet (a decay under a subscript under a call, a promotion under a comparison).
Two derivations give a pointer to an array and a pointer to a function that takes
arrays, where parentheses decide; the third is what `turn_texp` loses. Two instructions are enough for
each scalar pass to feed the next instruction and the other pass, three for a replacement that uses
a replacement; with three bits each operation overflows, 2 is a power of two and -1 is not,
and the argument takes every value, the least integer included. The ten graphs of `mem2reg`
are those on which the pass behaves differently: a join needs a phi, a loop needs one for itself, a
double edge two equal entries, an unreachable block the poison ones. The theorems of section 5
hold without these bounds.

What the runs show:

* `run_ir`: at the end of the walk every block has exactly one terminator and
  branches stay within the function and never go to an entry block (`EveryBlockEnds`,
  `BranchesStayInside`: what `verifyModule` asks); while the walk goes on, an open
  block is the insertion block or belongs to exactly one call in progress
  (`OpenBlocksAccounted`), a terminator is never overwritten
  (`TerminatorsAreFinal`), code is not appended to an ended block but for allocas
  (`NoCodeAfterEnd`), phis have one entry per predecessor (`PhisMatchPreds`), an
  alloca comes before its stores in the entry block (`AllocaBeforeStore`).
  With correct links the walk reaches the end (`EmissionEnds`), and the run of the IR refines `CSem`
  under the mapping "the next atom instruction on the way from the program counter" (`ImplementsC`).
* `task3`: a jump is linked to the enclosing loop or to one nested in it, never to one
  outside or in another function (`JumpsLinkInward`); a return is linked to its function if no
  prototype lies between (`ReturnsLinkUnlessPrototype`). A wrongly linked jump passes `verifyModule`'s
  conditions unnoticed (`VerifierAccepts`). The two phases together come to their end wherever the
  links are right, and otherwise end or die, but never stop half-way (`Task3Ends`).
* `obj_mgr`: `ObjMgr` implements `Heap`: the collection takes effect when marking ends, and
  nothing the root reaches is ever freed (`ImplementsHeap`, `NoDangling`). In every step the ring has
  all objects once (`RingIsAlive`), the recursion visits no object twice (`CallsAreDistinct`), no
  flag survives (`FlagsAreClear`), and every collection returns: it is never stuck, and each of its
  steps makes a number smaller (`GcReturns`).
* `parser`: the tree of every program's text says what the program is (`ReadsAsC`). The two changes to
  `C.g4` that `README.md:63-72` of the repository documents are what it takes; undoing the first is the
  mutant. Two classes of programs are not read as in C, and the property says that these and no others are
  not. After a name in parentheses, or more that looks like a type, as in `(x) - x`, `(f)(x)` or
  `(x[1]) - x`, the grammar reads a cast (`MayCast`). And in the head of a `for`, `for (x; ...)`, `for (f(x); ...)`,
  `for (x * y; ...)` and `for (int x; ...)` read as declarations in which `x`, `f` or the declared `x` is a type
  (`MayDeclare`): `forCondition` tries `forDeclaration` first (`C.g4:481`), whose declarators are optional
  (`:485`). `for (x = 1; ...)` and `for (int x = 1; ...)` are read right.
* `ast2asg`: between any two visits every name means what C's block scopes say,
  the exceptions of section 6 apart (`ScopesAreLexical`; C's scopes are those of 6.2.1p7, where a variable is visible
  from the end of its declarator on), `eval_arrlen` yields C's value (`LengthsAreConstant`), expression trees
  are those of C's precedence and associativity (`TreesFollowPrecedence`), and the walk dies for five
  reasons only, one of which may be legal C: a name whose own initialiser or list of parameters is not over
  (`DiesOnlyOnErrors`). Jumps do *not* get the loop around them: `mCurrentIter` is
  set behind the body. Nothing in `main_task2` reads the link, and no text of the repository speaks
  about it, so there is no property of it.
* `task2`: Typing gives each expression and conversion its type in C and nothing that is typed later
  changes it (`TypedAsInC`); initialisers fill C's elements although the inner braces are gone,
  except behind a row that is not full (`InitsLandAsInC`); a program is rejected only if it is
  wrong, and an assignment to a constant is, except through a parameter. One class of legal programs is rejected:
  an array of unknown length, a parameter `int z[]`, is handed to a parameter `int w[4]`
  (`LosesLength`); every other call with every other array is judged (`RejectsRightly`); the document
  has the grader's keys with clang's values and its types, of two derivations at most, can be read back (`JsonAsClang`).
* `json_decls`: the types that are read as they are, are exactly those of at most two derivations
  (`TypesReadBack`), and a variable whose type is holds what C says once it is initialised (`MemoryAsInC`, which
  says nothing of the others: section 6).
* `print_tokens`: `PrintedAsClang`, but for what the variables without a value may make of a first token.
* `opt`: in every step of both passes the function returns the same value or traps alike
  (`MeaningKept`), every use follows its definition (`DefsDominate`), and nothing foldable is left
  behind the first pass (`FoldingComplete`).
* `mem2reg`: after every step a call passes on the values it did before (`MeaningKept`); phis have an
  entry per edge and definitions dominate uses (`SSAWellFormed`); the indices that the tables keep
  are right at any time (`LookupAgrees`); nothing that the test would choose is left (`NonePromotableLeft`); the
  loops end, since every step lowers a lexicographic measure (`PassEnds`).

Deadlock is not checked: each of these programs stops when its input is used up,
and `EmissionEnds`, `Task3Ends`, `GcReturns` and `PassEnds` say that it does
not stop before.

## 4. Fairness

`EmitIR`, `Json2Asg` and `Task3` assume `WF_vars(Next)`: one thread executes the
walk and nothing in it waits. `RunIR` assumes weak fairness of the walk, not of the execution: the
program compiled may loop forever. The other specifications assume none. That `gc` and
`promoteMemoryToRegister` end is stated by measures that every step lowers (with, for `gc`, a next
step enabled until it is over), which is more than liveness: it bounds the number of steps.

## 5. Proofs

All theorems hold for every value of the constants that the assumptions named with them admit: ASGs,
documents, heaps, files and functions of any size, integers of any width. The type invariants of the modules
but `EmitIR` are proved only, and no run spends its time on them.

### EmitIR (`EmitIR_proofs`)

| theorem | statement |
|---|---|
| `TypeCorrect` | `Spec => []TypeOK` |
| `OpenAccounted` | `Spec => []OpenBlocksAccounted` |
| `AllBlocksEnd` | `Spec => []EveryBlockEnds` |
| `TerminatorsStay` | `Spec => TerminatorsAreFinal` |
| `NoCodeAfter` | `Spec => NoCodeAfterEnd` |
| `PhisMatch` | `Spec => []PhisMatchPreds` |
| `BranchesInside` | `Spec => []BranchesStayInside` |
| `AllocaFirst` | `Spec => []AllocaBeforeStore` |

The assumption is `InputsAssumption`: an ASG is a sequence of tokens with a loop number for each; a
statement holds no function, and a jump is linked to no loop of another
function (`InOneFunction`, which only `BranchesInside` and `AllocaFirst` need). Not even that jumps are
linked correctly or that tokens nest is assumed. That what Json2Asg builds meets it is a lemma
of `Task3_proofs`.

`EveryBlockEnds` is not inductive: that all blocks have ended when the walk is
over says nothing about the states before. The invariant `IInv` that carries it is
`TypeOK /\ OpenBlocksAccounted`, whose parts need one another:

* `CallShape`: which kinds of frames lie on which. Without it a statement could be
  visited in the middle of an expression, whose `ValueIsLive` it would break.
* `OpenAreKnown`: a block without terminator is the insertion block or pending in a
  frame (its `endBB`, its `elseBeginBB`, its `condEndBB`, or its `bodyBeginBB` before the body).
* `PendingAreOpen`, `PendingAreDistinct`: a pending block is open, is not the
  insertion block and is pending once. So when a call ends it, no other call is robbed of it.
* `ValueIsLive`: where a value is computed the insertion block is open, and between
  declarations it is not. This is what the tests of `getTerminator()` establish;
  statements are dropped by the first, so that the code between the tests may
  write terminators unconditionally.
* `TargetsExist`: no branch to a block that was not created.

When the walk is over there is no frame, so no block is pending, and the insertion
block has ended: every block has a terminator. `TerminatorsStay` follows
since every action terminates the insertion block where it is open, or
a pending block.

The last four theorems rest on a summary of each action: which blocks it adds, which
it ends and with branches where to (`Step`), and that it leaves phis (`SamePhi`) or code
(`SameCode`, `Grows`) alone. Most actions are alike in that (`Plainly`); the five that are not
are treated singly. Three further invariants are inductive relative to `IInv`:

* `PhiInv`: the `endBB` of an `&&` or `||` in progress has exactly the predecessor that its frame
  keeps as `lhsBB`; the blocks that statements or jumps may branch to never have a phi and never
  are such an `endBB`. So nobody else's branch reaches it, and when the right operand is over its
  predecessors are `lhsBB` and the block the operand *ended* in.
* `InsideInv`: `mCurFunc` is the last function or global before the position; every block
  that a frame keeps is of that function and comes after another block of it; the blocks that a
  loop keeps in `any` are so for the function the loop is in, which for a jump is the same one.
* `AllocaInv`: every block has an entry block of its function, which no step changes, and the
  declaration in progress has its alloca there.

### Json2Asg (`Task3_proofs`, first part)

`TypeCorrect`, `JumpsInward` (`Spec => []JumpsLinkInward`), `ReturnsLinked`
(`Spec => []ReturnsLinkUnlessPrototype`). The invariant says what the pointers mean (the loop and the
function or prototype entered last, 0 before the first) and that every link made is what the
pointer was then. The assumption `DocsAreC` is what clang guarantees of a program it accepts:
jumps are in loops, returns in functions, functions not in one another.

### main_task3 (`Task3_proofs`, second part)

`VerifierAlwaysAccepts` (`TaskSpec => []VerifierAccepts`): on every document every block ends,
branches stay inside of functions and phis match. Json2Asg may link a jump to the wrong loop; by
`JumpsInward` that loop is inside of the enclosing one, so no function begins between it and the
jump, and the ASG handed over is one that `EmitIR` expects (`LinkedAsg`). From there the invariant of
`EmitIR_proofs`, instantiated for the variables of `Task3`, carries on. The additional assumption is
`StmtsOfDocsAreWhole`: no function or initialised global is in a statement of a document.
So `verifyModule`, whose result main does not use anyway, would find no wrong link on any document.

### Object system (`ObjMgr_proofs`)

| theorem | statement |
|---|---|
| `TypeCorrect` | `Spec => []TypeOK` |
| `NothingDangles` | `Spec => []NoDangling` |
| `CallsDistinct` | `Spec => []CallsAreDistinct` |
| `FlagsClear` | `Spec => []FlagsAreClear` |
| `GcImplementsHeap` | `Spec => ImplementsHeap`, that is `Spec => H!Spec` |
| `RingAlive` | `Spec => []RingIsAlive` |

The ring is described without following it: no two nodes have the same successor, every
successor is alive or the manager, and no proper set of nodes is closed under successors
(`RingShape`). That is inductive under insertion behind the manager and under removal of a node's
successor, and it is enough to know that a sweep that has come back to the manager has passed
everybody. `RingIsAlive`, which counts along the ring, follows from it: there are fewer nodes than
places, so one is met twice; the first to be met again is the manager, since no two nodes have the same
successor; and what is met until then is closed under successors, so it is everybody. (That the
recursive function `Ring` exists is proved from a least counterexample.) The invariant adds: dead objects are unlinked and clean (`FreeIsClean`), pointers of
the living lead to the living (`PointersAlive`), the `Walked` flags are those of the guards
(`WalkShape`), all marks are clear outside of a collection (`RunShape`), during marking the marked
objects are reached, are in one call at most, and what their fields hold is marked or still to
be followed (`MarkShape`), during the sweep the marked ones are those reached that have
not been passed (`SweepShape`). What the root reaches is the least set closed under fields
(lemmas `ReachedLeast`, `ReachedRoot`, `ReachedClosed`); so when no call is left the marks are exactly it,
`MarkEnd` maps to the collection of `Heap`, and every other step of `gc` to a stutter.

### Ast2Asg (`Ast2Asg_proofs`)

| theorem | statement |
|---|---|
| `AlwaysWalk` | `Spec => []Walk`, the inductive invariant |
| `AlwaysScopesAreLexical` | `Spec => [](ScopesAreLexical /\ FindsWhatIsEntered)` |
| `AlwaysReferencesDenote` | a link, once made, is the declaration C means, or what it hides if it is not entered yet; a name's visit aborts only if C knows none or one not entered yet |
| `AlwaysReturnsLeaveTheirFunction` | a `ReturnStmt` has the function it stands in, though `mCurrentFunc` is never reset |
| `AlwaysEndsClean` | at the end of a file no call and one map are left |

The assumption is `SourcesAssumption`: a file is a `ParseTree`. Its subtrees nest (`Nested`), a function is in nothing
else and has one signature (`SignaturesFit`), and nothing that declares or opens a scope is in an expression or
a declarator (`Flat`): all of it holds of what C.g4's rules derive and these visitors accept. Array lengths may be evaluated in any way.

C's notion of what is visible (`Visible`) looks at the text: the scopes around a place and all declarations
of the file, each with the token from which it counts: of a variable the end of its declarator, of a parameter
its own end, within its list. The code enters both later: a variable behind its initialiser
(`Ast2Asg.cpp:870-880`), parameters behind the list. So the theorems are about `Entered`, what the code has
by then, and two lemmas tie it to C: it is what is visible but for the declarations in `NotEntered`
(`EnteredIsVisibleBut`), and simply what is visible unless that is one of these (`EnteredIsVisible`). The code has only the chain of maps, and
finds its way by the C++ stack. `Walk` connects them:

* `Follow`: the calls in progress are those of the subtrees around the next token, innermost on top. So
  the call that returns is that of the subtree that ends, and what it declares is the token it began with.
* `Mirrors`: the k-th map of the chain holds, for every name, the latest declaration in the k-th scope around the
  token counted from inside, of those that count by then. A declarator declares behind its
  initialiser; its scope is still the innermost one, as nothing in it opens a scope.

The step that leaves out the rest of a list (`OperatorIgnored`) jumps over tokens, and `Walk` holds behind the
jump since a list binds nothing (`ListsBindNothing`). The rest of a proof is arithmetic on places:
which subtrees, scopes and bindings change from one token to the next.

### print_tokens (`PrintTokens_proofs`)

`AlwaysPrintedAsClang` (`Spec => []PrintedAsClang`), for files of the 34 lexemes of SysY, white space
and line markers. The assumption is `FilesAreLexed`: a line marker is followed by a
newline, and the end of the file comes last. The invariant `IInv` says that the tokens are those of
the file (`FileIsRead`), that behind the first token each flag says what stood in
front of the one to come (`FlagsAreTrue`), and that the variables for line and file are what the last
marker and the newlines since make them, one ahead on a marker's own line (`LineIsPresumed`): the printer
forgets the text it has passed, and these are all it has left of it. That the table of names gives each lexeme its type is looked up for all 34.

### Scalar passes (`Opt_proofs`)

| theorem | statement |
|---|---|
| `AlwaysTypeOK` | `Spec => []TypeOK` |
| `AlwaysDefsDominate` | `Spec => []DefsDominate` |
| `AlwaysFoldingComplete` | `Spec => []FoldingComplete` |
| `AlwaysMeaningKept` | `ProgramsAreSimple => (Spec => []MeaningKept)` |

The assumptions are `WidthAssumption` (what the width and the powers of two are) and
`ProgramsAreSSA` (the functions given are ones that `verifyModule` accepts and end in a return). `IInv`
says that each instruction is defined once and before its uses, that nothing in `erase` is used
(`ErasedAreUnused`), that each pair in `replace` is of a later instruction and one inserted in
front of it (`ReplacementsFit`), and that before the position of the first pass nothing foldable is left
but what waits in `erase` (`VisitedIsFolded`): replacing the uses of one instruction may make others foldable,
but only behind it.

`MeaningKept` speaks of `Run`, a recursive function on the places of a function. It is
characterised as the only map from places to values in which each place has what
its instruction computes of the values before it (the existence from a least counterexample), and each step is
shown to take such a map of the old function to one of the new. `MInv` adds to `IInv` that what waits in
`replace` computes the same as what it replaces, at every argument. The arithmetic behind it
(products and quotients by powers of two on two's complement, rounding towards zero, wrap-around) is proved
at any width. The hypothesis `ProgramsAreSimple` is that the functions hold the operators that
EmitIR emits and no remainders but by a constant or of the argument: of a constant, or of an instruction that may be
folded to one, by something else the theorem is false (section 6), and `udiv`, which is folded with signed
operands, is not emitted.

### Mem2Reg (`Mem2Reg_proofs`, `Mem2RegSSA_proofs`)

| theorem | statement |
|---|---|
| `AlwaysTypeOK` | `Spec => []TypeOK` |
| `AlwaysLookupAgrees` | `Spec => []LookupAgrees` |
| `AlwaysNonePromotableLeft` | `Spec => []NonePromotableLeft` |
| `AlwaysPassEnds` | `Spec => PassEnds` |
| `AlwaysSSAWellFormed` | `Spec /\ SSAWellFormed => []SSAWellFormed` |

The assumptions: the successors in a control flow graph are its blocks, and none is the first, as LLVM
asks of an entry block (`MemIRAssumption`); and each
instruction of a function is one of its own (`CodeAssumption`, with `Unique`). `AlwaysSSAWellFormed`
alone assumes that the function given is in SSA form. All hold of either test, the header's and the code's,
which lets nothing that is used through. The invariant `IInv` is
`TypeOK`, `LookupAgrees`, and:

* `Unique`: phis are new instructions, so a number still names one.
* `AllocasKept`: the allocas of the loop are in the function, each once in the list, and
  nothing but loads and stores uses them, which rewriting the loads of one of them to
  the value stored leaves so. Without it the loop could erase an alloca that another store holds.
* `UsersKept`: the loads still to be rewritten, and the stores counted by `AnalyzeAlloca`, are still in the
  function.
* `PhisKept`: each phi of `NewPhiNodes` is in the function and has one key. The steps that erase
  instructions erase none of them: `simplifyPHINode` reads them afterwards.
* `AllNumbered`: in the walk over the edges every alloca of the list has its index.
* `NoneLeft`: an alloca that was promoted has left the function.

`PassEnds` compares five numbers lexicographically: the allocas never promoted, the stage, the allocas or
blocks left, the attempts or entries of `RenamePassWorkList` left, the loads or phis left. A round
lowers the first, since what it collects it has never collected (`NoneLeft`); no other step raises
it, because none makes an alloca; and each lowers one of the others.

`AlwaysSSAWellFormed` says that the pass gives back a function that `verifyModule` accepts if it was given one.
As a hypothesis `SSAWellFormed` speaks of the initial state, that is of the function given;
the theorem says that it holds whenever a round is over. In between it is false: phis lack entries while the edges are
walked, and those from unreachable blocks until `completePhis`. `JInv` says what holds instead. It is `IInv` and:

* `UsesDefined`: what is used is defined on the way there, in every step. The rest is needed for this: when the walk
  replaces a load, the value it has for the variable must have been made in a block that dominates the load.
* `PhisKeep`: a phi that was placed is in front of its block, and has for each predecessor as many entries as
  are `Due`: one for each edge if the predecessor was visited and the edge is not in the work list, none otherwise. A
  phi that was there before has all its entries. This is why the phis with as many entries as
  the first are those that the walk placed (`ReenterBlock` finds them so), and why only unreachable blocks' entries
  are missing in the end (`AllVisited`).
* `WalkKept`: an item of the work list is the entry of the function, or an edge from a block that was visited, and
  no edge is in it twice.
* `Plans`: for each variable there are blocks `Def` and `Live` such that every store is in `Def` and every load
  that no store of its block precedes in `Live` (`Covers`); the blocks of `Def` not yet visited still hold
  their stores (`Stored`); where the variable is live, and what defines it or another phi ceases to dominate, it has a
  phi (`Flows`); and an item of the work list brings to such a block the value of the last block with a
  store or a phi above it (`Carried`). `Def` and `Live` are the stores' blocks and the blocks found by
  `ComputeLiveInBlocks` when the phis were placed; the function has since lost the stores and loads of the
  blocks visited.
* `SingleKept`: `info` counts the stores, loads and blocks of the alloca that the loop looks at as the function is
  now, so the two shortcuts replace loads that the store reaches.

The argument starts from dominance: closures, dominators, frontiers and the iterated frontier are recursive functions on
sets of blocks, and each is characterised as the least set with its property (`LeastClosedIs`, `GrownIs`). Then an edge from
a block that `d` dominates leads to another that it dominates, or to its frontier (`FrontierIs`); there the
variable has a phi if it is live (`IDFIs`), and without one what is carried on is good (`ComesFromAbove`). A phi that `simplifyPHINode` folds
into its one value other than itself may stand in a loop with others: a block that every edge enters from below `c`, or
from below itself, is below `c` (`EntersBelow`). That the phis have the right number of entries and not
only enough is a matter of counting edges, double ones included (`FullLen`).

## 6. Findings

* **`json2asg_loops`**: `Json2Asg::while_stmt` sets `mCurLoop`
  (`Json2Asg.cpp:530`) and does not restore it. After a nested loop, `break` and
  `continue` of the outer body get the inner loop, against the comment at
  `Json2Asg.hpp:31-32`. In `while (a) { while (b) {} break; }` the `break` becomes a
  branch to the end of the inner loop: an endless loop in place of an exit. `task3` shows the
  consequences: the IR is well formed, so `verifyModule` accepts it; and if the
  inner loop is dead code (after a `continue` in an `if`'s branch, say) its `any` is null
  and the compiler dies.
* **`opt_rem_left`**: `StrengthReduction.cpp:33-41` takes the constant from whichever
  side it is on, and the rewriting of a remainder (`:69`) forgets the side: `8 % x` becomes `x % 8`.
  `README.md:37` of the repository describes the rewriting for `x % n` only.

Met while modelling, and followed by the models, without a run of their own. Of the first four a
property of a passing run says exactly which inputs the code gets wrong:

* `turn_texp` (`Json2Asg.cpp:690-698`) returns the innermost part of a type expression and links to it only the
  part it was called with: of three and more derivations those in the middle are lost, against the comment in
  front of it. `int[2][3][4]` becomes `int[2][4]`, and EmitIR allocates 32 bytes for 96. `TypesReadBack` says that
  these types, and no others, are read wrong.
* A variable is entered into the symbol table behind its initialiser (`Ast2Asg.cpp:870-880`), where C makes it
  visible before (6.2.1p7), and `Ast2Asg.cpp:9` says that the table has all declarations of the scope. In `int x = x;`
  the compiler takes an outer `x`, or aborts if there is none, on a legal program. In the same way a parameter is not
  entered while its list is visited (`:796`), so `int f(int n, int a[n])` takes an outer `n` or aborts. `ScopesAreLexical` names
  these declarations (`NotEntered`) and says that what they hide is found; `DiesOnlyOnErrors` names the abort.
* `forDeclaration` still has an optional list of declarators (`C.g4:485`), though the project has made that of `declaration`
  mandatory so that the `a` of `int a;` is not taken for a type (`README.md:65-67` of the repository). In `for (int a; ...)`
  it is, and `for (x; ...)` is a declaration. `ReadsAsC` says that such heads (`MayDeclare`), and casts after a name in
  parentheses (`MayCast`), are read wrong, and nothing else.
* A call that hands an array without a length to a parameter with one is legal and rejected
  (`LosesLength` in `RejectsRightly`).
* The loop of `isAllocaPromotable` ends in `return false` (`PromoteMemoryToRegister.cpp:19`), so every alloca
  that has a user is refused, the loads and stores included that `PromoteMemToReg.hpp:7-12` lists as promotable. The
  pass as shipped removes unused allocas and promotes nothing; its contract is broken. With
  `AsDocumented = FALSE` the model is that pass, and `NonePromotableLeft` then says only that unused allocas go.

* `Json2Asg.cpp:392` sets `mCurFunc` for a local prototype too, against the comment at
  `Json2Asg.hpp:25-26`. EmitIR does not read `ReturnStmt::func`.
* `StrengthReduction.cpp:45`: a constant that is no power of two leaves the loop over the block
  (`break`) instead of going on with the next instruction; later products stay.
* `Typing.cpp:652` makes an `ImplicitCastExpr` whose category stays `kINVALID`; the model has it
  convert as a value (`ConvertsAsValue`).
* `Ast2Asg.cpp:720` sets `mCurrentIter` behind the body of the loop.
* The parser's casts after a name in parentheses (`MayCast`), and `int f(void)`, of whose
  abstract declarator Ast2Asg follows a null pointer.
* `EmitIR.cpp:98` calls itself with the same object for an `ImplicitInitExpr`; none gets there from SysY.
* `parse_linemarker` cuts file names at a space; a `#pragma` line makes it throw; comments and
  `MultiLineMacro` are printed as `unknown`.

## 7. Only model-checked

* Everything under fairness, and `GcReturns`, whose statement uses `ENABLED`.
* `ImplementsC`: `CSem` recurs over the ASG.
* The properties of `Parser`, `Ast2AsgExprs` (`LengthsAreConstant`, `TreesFollowPrecedence` and
  `DiesOnlyOnErrors`, which `ast2asg` checks), `Typing`, `Task2` and `JsonDecls`, whose models are
  `RECURSIVE` operators as their programs are recursive functions.
* `MeaningKept` of `Mem2Reg`. It compares executions along paths through loops, which needs an induction
  along the path with what each phi has on it; `AlwaysSSAWellFormed` proves what such an argument would start from.

## 8. Not modelled

* The lexer (`antlr/CLexer.cpp`) and ANTLR's error recovery: tables and generated code. Of the parser,
  structures, enumerations, `_Generic`, `_Atomic`, `_Static_assert` and the extensions of GCC and
  Visual C: no visitor of Ast2Asg accepts them.
* Vendored code, build files, file handling and arguments in the three `main` functions;
  `StaticCallCounter`, an analysis that prints.
* Names, LLVM types and arithmetic in `EmitIR`: each is one `Create*` call. Expressions have
  no effect on control other than `&&` and `||`; the `i1`-to-`int` mismatches that C expressions
  such as `(a && b) + 1` may cause are not visible in this abstraction. String literals, in
  `Typing`, `Asg2Json` and `Json2Asg`.
* That each `__mark__` of `asg.cpp` lists every field of its class: `ObjMgr` takes the list as
  given.
* In `Ast2Asg` null contexts are left out: casts, abstract declarators and `return` types without
  specifiers make the code follow a null pointer. What SysY does not have and C.g4 accepts
  (bit operations, shifts, `?:`, compound assignments) is modelled as the code treats it, first
  operand or plain `=`, and excluded from `TreesFollowPrecedence`.
* In the optimizer `udiv` is folded as a signed division (`ConstantFolding.cpp:57`); EmitIR emits
  none, so it is not among the inputs. In debug builds the assertion at
  `PromoteMemoryToRegister.cpp:594` would fail on some inputs; the model is of a release build.
* In Typing, arrays whose elements have no size would be laid out for ever; there are none in C.
