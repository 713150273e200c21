# Verification of the plank compiler

Plank (`src/plankc`) is a compiler for a small smart-contract language with compile-time
evaluation; it produces EVM bytecode. This directory keeps TLA+ models of the whole way from a file
of tokens to bytes: parsing, loading of files and names, lowering, compile-time evaluation, both
intermediate representations, the optimiser, stack scheduling, code generation and assembly. What
they are asked is what depends on a long history of steps: caches filled and read in an order the
programmer does not see, quotas, work lists, fixed points, recovery after an error, and whether a
stage means what the stage before it meant. TLC checks each model on small instances, and TLAPS
proves the central invariants for every instance.

    tlc -workers 2 -config MCComptime.cfg MCComptimeEval      # one run
    tlapm AssemblerProofs.tla                                 # one proof module

`PROJECT.json` is the machine-readable index: components, runs, mutants (a plausible bug for
every checked property, which the run must find), the map from definitions to source lines,
hazards and theorems.

## The system

The compiler is one thread. Nothing in it is concurrent, nothing survives a crash and no message
is exchanged; what makes it hard is *re-entrancy* (evaluation of one function suspended inside the
evaluation of another, both writing the same caches), *memoisation* (a result computed under one
budget replayed under another), *partial failure* (a poisoned value binds a local and evaluation
goes on) and *fixed points* (layouts, lattices, dominators, work lists that must end).

    source files -> parser -> HIR -> comptime evaluator -> MIR -> SIR -> SSA -> optimisations
                                                                           -> stack scheduling
                                                                           -> assembler -> bytecode

| component | state it keeps | operations | what is hard | what makes it correct |
|---|---|---|---|---|
| **parser** (`frontend/parser`), lexer | token cursor with fuel, arena of CST nodes, error list | one recursive-descent function per construct; views of the tree | recovery in the middle of several constructs, an error suppressed because its token was already reported, children addressed by position | exactly the language is accepted; the tree nests and reads back as the file; what is malformed is reported |
| **source loading** (`frontend/source`) | path -> source map, import lists, module registry, slots of definitions | `parse_project`, `parse_source`, `resolve_import` | a file has its number before its tree and its imports; import cycles, one file under several paths, a failing import in the middle | every needed file is read once; indices agree; every project is answered |
| session (`frontend/session`) | interned names and bytes, diagnostics, sources | `intern`, `emit`, `register_source` | none: append-only tables | an id always names the same bytes |
| **HIR lowering** (`frontend/hir`) | public names of each file, scopes, frames with captures, shared buffers of instructions, locals, fields, methods | registration, propagation of re-exports, `build_file_scope`, one function per AST node | names that arrive along several paths and through cycles; captures across several frames; nesting that shares buffers | a name stands for the one constant its imports give it; instructions do what the tree says; each fault is reported where it stands |
| values (`frontend/values`) | hash-consed values, types, big numbers | `intern`, `lookup`, naming | self-referential hashing tables | equal values have equal ids and only those |
| **comptime evaluator** (`frontend/hir-eval`) | call frames with limit and spent branches, three caches (evaluated calls, lowered functions, consts), scopes with bindings known or not, instructions emitted so far, diagnostics | `evaluate`, `evaluate_const`, `eval_call_inner`, `fold_comptime_call`, `lower_runtime_call`, statements | re-entrancy, retry after exhaustion, poison, recursion through consts and calls | caches agree with the call stack, cached values with a cache-free meaning, every failure is diagnosed, evaluation ends, what is left for run time means what the source means |
| **MIR and its lowering to both backends** (`frontend/mir*`) | functions of nested blocks; builders of the target IR, block ends to be patched, local of a value -> locals of its words | one function per MIR instruction | a nested block that returns, terminates or is itself a loop; whether a call returns is decided twice | each backend's program does in every environment what the source does |
| SIR data and builder (`sir/crates/data`) | index tables of blocks, operations, locals, cases | builder, iterators, in-place edits | spans into shared tables edited by passes | spans stay in bounds and disjoint |
| SIR text parser and printer (`sir/crates/parser`) | symbol tables | parse, emit | none of their own | used by tests |
| **SIR analyses and their cache** (`sir/crates/passes/src/analyses`) | ten lazily computed analyses with a validity bit | `get`, `get_mut`, `mark_valid`, `invalidate_all_except` | a pass keeps an analysis valid that it has made stale | a valid analysis equals a recomputed one |
| **SIR optimisation passes** | lattice and work lists (constant propagation), maps and flags (others) | `run` per pass | edges that become reachable late; values lowered twice | what a pass concludes holds in every execution |
| **SIR transforms** | dominance frontiers, rename stacks | SSA construction, critical edge splitting | several definitions reaching one join | each use has one definition that dominates it |
| **stack scheduling** (`sir/crates/stack-scheduling`) | symbolic EVM stack with spill slots, operation graph, layouts of block edges | `schedule`: greedy operand scheduling, permutation search, shuffler | swaps reach 16 deep, values used twice or never, an order chosen by effects only | each operation finds its operands, each edge the layout agreed on; the scheduled code does what the program does |
| **assembler** (`sir/crates/assembler`) | sections, bytes, mark offsets | `push_*`, `assemble` | sizes of references depend on offsets that depend on the sizes | every reference encodes the final offset of its mark |
| **release backend** (`sir/crates/release-backend`) | block work list, marks of blocks, data and return sites, data used by the run code | `ir_to_bytecode`: init code, init-only data, run code, run data | the run code is copied out of the init code; data shared by both goes to the run code; blocks shared by both are emitted twice | every mark that is referenced is emitted once; the run code needs nothing outside itself |
| **debug backend** (`sir/crates/debug-backend`) | a word of memory for every local, one area for handovers, one return word per function; marks, work list | `ir_to_bytecode`: init code, then run code by a second traversal | all handovers share one area; a block reached from both entries has two marks | the code does what the program does |
| **static memory allocator** (`sir/crates/static-memory-allocator`) | map allocation -> address, bump pointer, slots of the free pointer and of switches | `generate` per entry point | must allocate all the emitter will ask for | regions are disjoint and below dynamic memory |
| plank-core containers, plank-evm | index vectors, lists of lists, bit sets, arenas, 256-bit arithmetic | container operations | raw arenas | container laws |
| driver, cli, editor support, docs | none | glue | none | - |

The modules interact by calls only. The loader calls itself through imports, the lowerer
through nested functions, the evaluator through consts, calls, preambles and bodies; a pass calls the analysis store, which calls analyses, which call the store.

## Modules

In the order of the compilation:

| module | models |
|---|---|
| `Parser` | the parser: cursor, fuel, diagnostics, arena of nodes, every parsing function with its recovery |
| `Ast` | the views through which later stages read the tree |
| `MCParser` | the language as a grammar; what the parser promises of any file; valid files, and each with a token left out, replaced or put in |
| `ModuleSystem` | the abstract specification: what the front end promises of a project of several files |
| `ProjectLoading` | `parse_project`: imports followed depth first, one step at a time; what it promises of sources and slots |
| `ProjectLoadingProofs` | that it keeps that promise for every project (TLAPS) |
| `NameResolution` | re-exports, explanation of missing names, scopes of files, their definitions one after the other |
| `HirLowering` | the lowering of a definition to HIR |
| `HirMeaning` | what a tree does and what HIR does; which faults a tree has |
| `MCLoading` | the properties of the front end, with the refinement of `ModuleSystem`; families of projects |
| `ComptimeEval` | calls, caches, quotas and recursion of the comptime evaluator: state, one action per operation |
| `ComptimeProperties` | its reference definitions and properties |
| `MCComptimeEval` | families of small programs and the constants of the run |
| `ComptimeProofs` | type correctness of `ComptimeEval`, the stack invariant and the assertions that follow from it; the quota bounds recursion, callers and verdicts are left alone (TLAPS) |
| `ComptimeFailureProofs` | poison comes with a diagnostic, assertions fail only after recursion, exhaustion can be retried (TLAPS) |
| `Mir` | MIR: types, values, functions of nested blocks, and what they do when run |
| `RuntimeEval` | the evaluation of HIR to values and MIR |
| `MirToSir` | the lowering to SIR and the builder of SIR programs |
| `MirToSonatina` | the lowering to the IR of the Sonatina backend, and what that code does |
| `MiddleEnd`, `MCMiddle` | the stages from trees to both backends composed, and their properties; families of sources |
| `Sir` | the intermediate representation SIR: tables of functions, blocks and operations; control; arithmetic |
| `SirSemantics` | what a SIR program does, as executions: the reference of the passes |
| `SirAnalyses` | reverse post order, reachable blocks, predecessors, dominators, def-use lists, and the checks of the legalizer |
| `SsaTransform`, `MCSsa` | critical edge splitting, regular function entries, construction of SSA form, the check of the result; their properties; families of programs that assign locals many times, and the debug backend's code of each |
| `Sccp` | sparse conditional constant propagation: two work lists, the lattice, the rewriting |
| `SccpClient` | one run of it on any input; its type invariant, the descent of the lattice, its conclusions against all executions |
| `MCSccp` | that it ends; families of programs |
| `SccpProofs` | type correctness and the descent of the lattice; nothing is left to conclude when the work lists are empty, what is concluded is so, and rewriting by it keeps every execution (TLAPS) |
| `Passes` | the other optimisation passes, each as a function from program to program |
| `PassManager`, `MCPassManager` | the store of analyses, a string of passes (SCCP in the steps of `Sccp`), a run of the legalizer; what they promise; programs for both |
| `OpGraph` | the graph of operations of a block; layouts of the stack between blocks, from liveness and the bundling of edges |
| `StackOps` | the symbolic stack, the scheduling of operands and the search for permutations |
| `StackScheduling` | `schedule` as a state machine, with the shuffler |
| `MCScheduling` | a machine that runs scheduled code, and what the scheduler promises; families of programs |
| `ReleaseBackend`, `MCReleaseBackend` | memory allocator and emitter, composed with `Assembler`; what the parts expect of each other; families of programs |
| `ReleaseBackendProofs` | the emitter finds the memory it asks for, and no two uses share a byte (TLAPS) |
| `ReleaseContractProofs` | the sections handed to the assembler are a whole contract (TLAPS) |
| `DebugBackend` | the layout of memory, the code of both traversals, and a machine that runs it |
| `Assembler` | sections, their sizes, and `assemble` as a state machine: first walk, passes, emission; what `assemble` promises; layouts by definition |
| `AssemblerClient` | the assembler with a client that pushes what it likes |
| `AssemblerProofs` | the same properties for every client and any number of sections (TLAPS) |
| `SequenceLemmas` | facts the proofs share: elements of sequences, least elements, recursion and induction up to a number (TLAPS) |

### Parser, Ast

The state `p` of the parser is that of `Parser` in the code: the tokens, the position, the fuel left at
this position, the diagnostics, the nodes. Every parsing function is an operator from state to state,
with its `eat`, `check`, `expect` and recovery in the code's order; one action parses one declaration
(`ParseDecl`). A token is its kind, with a name or a number from small sets; trivia and the lexer are
left out. `Ast` reads the nodes as the code's views do, by position and kind of the children; what a
view cannot read is an `error` term, what it asserts not to meet a `panic`.

`MCParser` states the language as a grammar and decides membership by deriving, so it shares
nothing with the parser. It is `Grammar.md` where that document decides; the parser was taken where it
leaves a choice, or says something else: an expression goes on as long as it can, also behind the brace
of an `if` or a block; no struct literal stands before a block; a plain block may be a statement, and
`comptime {}` may be followed by a semicolon; an import group may be empty or of one item (a warning).
A missing semicolon can be reported twice by two rules of different name, which `ComplaintsAreRight`
allows; two unexpected-token errors at one token it does not.

### ModuleSystem, ProjectLoading, NameResolution

`ProjectLoading` keeps the call stack of `parse_source` in `frames` and what a call returns in `reply`,
so that a source has its number and its place in `path_to_source` while its imports are still being
followed (`ImportKnown` meets it in a cycle). `NameResolution` continues with the result: constants are
registered (`register_...`), public imports passed on until nothing changes, missing names explained,
then one action per file builds its scope and lowers its definitions with the operators of
`HirLowering`. A path is a sequence of names; `Canonical` is the file system: which paths exist and
which of them are the same file. The content of a file is its definitions.

`ModuleSystem` knows neither an order nor a stack: there is a set of files read, and an answer. Its
mapping takes `sources` to the files that have a tree, and the answer to the verdict on imports and
names. Kept as the code has it: a core module whose path does not exist is left out silently, one that
cannot be read is an error; the target of an import group is loaded once, also if the group has no
items; an item without a name leaves its slot empty; a `run` block without `init` is reported once in a
file that is not the entry. What the parser leaves as an error among the definitions is left out.

### HirLowering, HirMeaning

A tree is a record whose `is` names its kind. The lowerer's state has the frames of the functions around
(`scoped` and `captures` of each), the tables made so far and the errors; every statement and
expression of the language has its operator. `HirMeaning` runs trees in an environment from names to
cells of a store, and HIR on numbered locals; both leave a trace of the operations they apply, and
`Perform`, a constant, says what an operation gives. In `MCLoading` it is symbolic (the result of an
operation is the term), so two runs agree only if they apply the same operations to the same values in
the same order. `DefinitionFaults` says which faults a tree has from the names visible at each place.

Kept as the code has it: an assignment to a constant is an unresolved name; `a.b = 1` is answered by the
code's panic ("complex assignment targets not yet supported") and not in the families; in
`fn(x: T, T: ...)` with a captured `T` the parameter is refused as a duplicate, with a note "previous
parameter here" (`diagnostics.rs:157`) at what is no parameter: this is the allowance in `FaultsAreFound`.

### Mir, RuntimeEval, MirToSir, MirToSonatina, MiddleEnd

`RuntimeEval` evaluates HIR: a local is bound to a value known at compile time, to a MIR local, or to
poison, with the depth of run-time control at which it was declared; `over` is the code's `Diverge`;
`instrs` and `block` are the stack of instructions and the block last closed. Functions are lowered once
for each key of known arguments and types. Branch quotas and the cache of evaluated calls are those of
`ComptimeEval` and left out here, as recursion and retries are. The lowerings thread the state of the
builder: `MirToSir` the block under construction and the loose end to be patched, `MirToSonatina` the
block that instructions are added to. The library behind Sonatina is not part of the repository; what
its code does is modelled from how the lowering uses it and marked external in the map.

`MiddleEnd` composes them. One action lowers one definition to HIR, evaluates one entry point, lowers
to one of the backends or picks the environment the contract runs in. The reference is the *tree*:
`RunOfTree` runs it with `HirMeaning`, now with words and the environment's values, and only what is
stored and how the run ends is seen. Byte data and offsets into it, and the operators and interfaces
of the library, whose functions are ordinary ones, are left out; builtins are representatives of those
that are folded, read from the environment, have an effect or do not return.

### ComptimeEval

One behaviour is one run of `evaluate` on one program. The program is data: blocks of HIR
statements reduced to what they do to control (`call`, `const`, `branch` for one iteration of a
comptime `while`, `raise` for `@set_eval_branch_quota`, `oops` for an expression that is diagnosed
and binds poison, `fail` for `@compile_error`, `stop` for a terminating builtin, `match` and
`while` on runtime conditions, `ret`). The Rust call stack is the variable `frames`; each element
joins a `CallFrame` (function, limit, spent branches, largest quota seen) with the `Scope` that
owns it (role, remaining code, enclosing runtime branches, values received). A `Diverge` that
unwinds a block is `ending`. The caches `evaluated`, `lowered` and `consts` have the states of
`EvaluatedFunctionCache`, `LoweredFunctionsCache` and `evaluated_consts`. `panic` records which
assertion aborted the compiler; nothing runs after it.

A function evaluated at comptime pushes one frame for its preamble and turns that frame into the
body's (`FoldBegin`, `LowerBegin`), as the code does. The tails of `fold_comptime_call` and
`lower_runtime_call` are the `Fold...` and `Lower...` actions. A value is a number modulo
`ValueMod`; a body returns a literal, or a literal plus the sum of what its calls returned, so a
dropped or wrong value is visible. A local binding, a type and the MIR that is emitted are reduced
to whether they are poisoned.

A const frame is an ordinary frame of the shared stack. Reading a const that has not been evaluated
inside a function therefore charges recursive calls made by the const to that function's frame:
what a call costs depends on what was evaluated before. `CachedCostIsBounded` is stated with that
in mind.

### Assembler

A section is a mark, a span of literal bytes or a reference; the fourteen variants of
`StoredAsmSection` are one record with an optional start mark (`from`), a size (`setSize`, or
`Unsized`) and `pushed`. A literal byte is known by its index in `bytes`, so that the emitted code
can be read back; a digit of an immediate is a number below `Radix` (256 in the code). The walk of
the sections is one action per section: `PlaceMinimum` for the first walk, `Place` in a convergence
pass, `EmitPlain` and `EmitReference` in the emission. `Place` updates the offset of a mark and
*then* computes the size of the section from the offsets as they are, so that, as in the code, a
pass reads new offsets of the marks behind it and old ones of the marks ahead. `starts` is a ghost:
where each section was placed in the present pass.

`WellFormed` says what the assembler relies on: each referenced mark is placed, no mark twice, and
the start of a difference before its end. `AssemblerClient` assembles only then, and
`ContractIsWhole` says that the release backend keeps to it, which `ContractStands` proves.

### ReleaseBackend

One behaviour compiles one program: `BumpAllocateAll::generate` for the init function
(`Collect...`), `collect_runtime_datas`, the emission of the init code (`Emit...`), its data, then
the same for the main function, and at last `assemble`, whose steps are those of `Assembler`. One
action is one block taken from a work list, one operation or one block end. The program is blocks
of scheduled stack operations; an operation whose bytes do not depend on the layout is a number of
bytes (`bytes`), and the code sequence of a dynamic allocation is the number of its pushes of the
free pointer and of its other bytes. Addresses are pushed with as many bytes as they need. The
allocator walks a block twice, its operations and then its loads and stores (`AllocationOrder`). An
`expect`, an `assert` or a map index that would fail is `stage = "panic"`; the one assertion that is
meant for the user, that run code does not ask where it lies in the init code, is `stage = "refused"`
(`Introspects`).

`IsProgram` is what `ir_to_bytecode` is handed: no critical edges, as it asserts; a load behind a store
of its block (`assert_spill_alloc_invariants` of the scheduler's tests) and a return mark pushed before
its call (`IsScheduled`); one size for each allocation id (`SizesAgree`; ids are handed out one by one).
`MCReleaseBackend`'s programs satisfy it, which TLC checks (`ProgramsAssumption`). The overflow of the
32-bit address space is left out.

### DebugBackend

Without optimisations the driver hands the result of the SSA transform to the debug backend as it is,
and so does `MCSsa`: `DebugCodeRuns` compares, in every environment and from both entry points, what
`DebugCode` does on the machine of this module with what the program did before the transform. An
address counts words where the code counts bytes. A place in the code is its mark, measured from the
start of the code or of the run code; that the assembler writes the offset of the mark is the subject
of `Assembler`, and what it relies on is `PlacesAreMarked`. A jump needs a place of the section that
runs, with a `jumpdest` behind its mark. The code emitted for allocation at run time, for access to parts of
words, for data and for the offsets of sections is left out: the programs of `Sir` have no such operations.

### Sir, SirAnalyses, Sccp

A program is a record of tables; the spans the code keeps into shared tables are the sequences they
denote. Operations are represented by one of each kind that the passes tell apart: `add` and
`iszero` for those that are evaluated, `evm` for the constants of the EVM, `balance` for reads that
can be removed, `sstore` for effects, `stop` for terminators, calls. A word has `WordCount` values.

In `Sccp` the two work lists are the sequences `cfgWork` and `valueWork`, both popped at the end. A
handler of the code loops over operations, successors or uses and reads the lattice again in each
round; `todo` is what is left of the running handler, so that one action is one round: `VisitOp`,
`VisitEdge` (`process_control` with `mark_reachable`), `FlowOutput`, `VisitUse` and so on. As in the
code, a use is visited as soon as its block is *marked* reachable, so an operation may be evaluated
before its block is processed and its operands are known; it is then lowered to overdefined. This
loses constants but is sound, as the run shows. `Apply` is the rewriting of all reached blocks. An
environment of `SirSemantics` gives the EVM constants (those the pass takes to be never zero are not
zero) and what `balance` reads; two programs do the same if their traces agree as far as they run.
Undefined behaviour, reading a local that was never set, does not occur in the families of `MCSccp`
and `MCSsa`; an execution that meets it ends `undefined`. A step is defined in every state, also
where a program is not what the compiler makes: an entry point that returns ends in `no caller`, a block
whose last operation does not end it in `no terminator`, and values are handed over as far as there are
locals to take them. No program of the families gets there.

### SsaTransform, the legalizer

`SsaTransform` is `run_ssa_transform`. Its stages follow each other as in `SSATransform::run`: `Split`
visits a block of the order computed at the start and splits its critical edges with predecessors
that are not computed again; `RegularizeEntry` visits a function; `FillBlock` rewrites a block. The
recursive `read_variable` is the operator `ReadVariable`, which threads the transformer's tables
(`ssa`) through the search; an output that cannot be known yet is `Missing`, and `Resolve` settles
those of a block when it is filled. `Finish` writes the phis back as inputs and outputs, and fails
where the code unwraps an output that is still missing. `Legalize` is the `expect` at the end.
`original` is a ghost: the program before the transform.

`SirAnalyses` states each check of `Legalizer::run` as a predicate on the whole program; the code
returns the first error of the first check that fails, and which error it is does not matter here.
`PassManager` runs the checks in their order with the analyses they take from the store.
Two of them are predicates of another form than the code, which walks: scopes are the definitions
above a block in the tree of dominators (the code opens and closes them on a walk over that tree),
and acyclic calls are that no function reaches itself. `UsesAreDefined` is what scopes stand for.

### Passes, PassManager

`PassManager` runs one string of passes on one program and then the legalizer. `store` is
`AnalysesStore`: for each analysis its value, or `None` when its validity bit is not set; an analysis
that is asked for is computed from the analyses it takes from the store, in the code's order
(`WithReachable`, `WithPredecessors`, ...), and after a pass `Preserve` keeps what the pass declares
in `preserves`. Two passes write analyses into the store themselves: SCCP its reached blocks and the
block merger the predecessors it has edited edge by edge. Each pass is one action (`Run...`) around
an operator of `Passes`, except SCCP: `BeginSccp` takes the analyses, `RunSccp` is a step of `Sccp`,
`EndSccp` its rewriting. The result of an operator has `ok = FALSE` where an assertion or a lookup of
the code would fail, and then `manager = "panic"`; `GetDominators` fails where the code expects a
predecessor earlier in the order. At the start the store is empty, as for the SIR tools, or as
`run_ssa_transform` leaves it, as for the driver.

Reduced: the analyses that no pass asks for have no place in `store` (those of the stack scheduler are
computed in `OpGraph`); static allocations, data
and large constants keep their identity where the code renumbers them, so that the defragmenter's
assertion about consecutive case values is not modelled, and a switch has at least one case
(`SwitchesHaveCases`: the defragmenter looks the first one up). The order in which the inliner visits
call sites and the defragmenter lays out blocks is the code's.

### OpGraph, StackOps, StackScheduling

`StackScheduling` goes through the blocks as `schedule` does: `BeginBlock` builds the graph and the stack
that the layout of the entry gives, `BeginOperation` takes the next operation the graph allows,
`PrepareOperands` is a step of the greedy operand scheduler or the whole permutation search,
`EndOperation` emits it, and `BeginShuffle`, `Shrink`, `Grow`, `CleanUp`, `EndBlock` make the layout that
the block must leave. `code` is what has been emitted. An assertion, an `expect` or the step limit is
`stage = "panic"`. `OpGraph` orders operations by data and by effects on storage, memory and control as
`build_effectful` does; the layouts come from the liveness of locals and from edges that meet, which
share one layout (`Major`, `Channels`).

Precondition: legal programs with critical edges split, and no jump to the entry of a function, which
is what `run_ssa_transform` hands over; with critical edges the bundling of edges need not settle. Left
out: `build_simple` (not used by the compiler), `EXCHANGE`, commutative operands, the depth limit 1024 of
the symbolic stack. When the permutation search uses up its budget, code and model take the best path
found so far without verifying it; the searches of the families do not get that far.

## What the runs show

| run | question | distinct states |
|---|---|---|
| `parser` | files that reach every construct, each with every token left out, replaced, or one put in anywhere: does the tree nest and read back, is exactly the language accepted, is what later stages skip reported, once per token? | 75 thousand |
| `front_end` | projects of up to three files with every kind of import, every way a name is passed on or lost, cycles, missing and unreadable files and core modules; bodies of every kind of statement in every order, alone, in a function and at compile time: does loading do what `ModuleSystem` promises, is each import given its own file, are names exact, do instructions do what trees say, are faults found? | 175 thousand |
| `comptime` | consts calling comptime functions with three specialisations of two functions, and entry points calling functions lowered at runtime, mixed with folded and never-returning calls, mutual recursion, runtime branches, poison, quota raised and exhausted: do caches agree with the stack and with the reference meaning, which assertions hold, is failure always diagnosed, does evaluation end? | 1.1 million |
| `middle_end` | an init block, with and without a run block and shared constants: statements of a pool in every order, in the block, in a function called at run time, and in one called at compile time; sources with one mistake each: do MIR and the code of both backends do what the tree means in every environment, are mistakes reported before anything breaks? | 81 thousand |
| `ssa` | every connected graph of three blocks, switches, nested loops that swap locals: does what results do what the source does, is it legal and free of critical edges, is every phi supplied, and does the debug backend's code of it do the same? | 107 thousand |
| `sccp` | diamonds, loops, switches with repeated cases and without a default, calls with two results, a second entry point, joins visited before their inputs are known: is every conclusion true of every execution, is the result a fixed point, does it end? | 6 thousand |
| `pass_manager` | every string of three passes and that of level O2, on programs made to give each pass work; the legalizer on every graph of four blocks, a definition and a use in every place, edges and tables with mistakes: does each pass leave a legal program that does the same, is every valid analysis fresh, is an accepted program safe to run, with dominators exact and scopes that mean dominance? | 247 thousand |
| `stack_scheduling` | every small rearrangement of a stack, every small list of operands, more values than swaps reach, calls, loops, joins, switches: do the scheduler's assertions hold, is no value lost before its last use, does the code do what the program does, is every order the graph allows right? | 17 thousand |
| `release_backend` | contracts with calls, data shared or not between init and run code, spills, static and dynamic memory, all kinds of control, loops: are the parts' expectations of each other met, is the contract complete and self-contained? | 177 thousand |
| `assembler_layout` | every well-formed sequence of up to five sections over two marks, references of free and of fixed size, also four times in a row: do marks end up where references say, does the code read back, is the layout the least one, do offsets only grow, is the size error reported only when no layout exists, is the pass limit reached only if the start of a span speeds up? (it is then, by some sequences) | 1 million |
| `loop_condition`, `never_call` | two statements of the code that the middle end does not keep (findings) | - |

Bounds of `parser`: the edits change one token of a valid file. Two errors far apart are independent in
the code but for the position last reported; errors that follow from one edit meet in every
construct. Fuel is 1024 as in the code.

Bounds of `front_end`: three files are a cycle of two with a third to import from it, and a re-export of a
re-export; three names are a name, an alias and a clash. A body is three statements of a pool in
which each construct occurs, so that each is left behind by one and followed by another; loops of the
reference are followed three rounds.

Bounds of `comptime`: three keys of two functions (two specialisations of one function are needed for
charges across specialisations, a second function for recursion through another function), two consts (a
cycle of two), a default quota of 1 raised to at most 3 (enough to be exhausted by a loop, by
recursion and by the replay of a cached result), bodies of up to four statements drawn from the
families in `MCComptimeEval`. The families contain direct and mutual recursion through calls,
through consts and through preambles.

Bounds of `middle_end`: a word has four values, so that two flags, a sum and a loop count stay apart; an
environment is any caller, and one table of what is read. Loops run up to 12 rounds in the
evaluator and in MIR, 24 in the tree, and 90 blocks or operations in SIR; loops of the families end earlier
or never, and what is cut short on one side is compared as a prefix. Pools and mistakes avoid the two findings
below, which have runs of their own.

Bounds of the assembler: a byte has 3 values in `MCAssembler` and 8 in `MCReleaseBackend`, so that
offsets cross the limits of one, two and three digits within a few bytes; with 256 the same crossings
need hundreds of bytes. Two marks give references forward, backward and across themselves; five
sections are enough for two references whose sizes depend on each other, and a run of four equal
references, counted as one section, makes one size depend on many: with five sections, and not with
four, there are sequences that oscillate until the pass limit. The two marks are interchangeable
(`SYMMETRY`). Eight passes are more than any program of the families needs that settles at all.
`ConsistentLayouts`, the reference for the least layout, tries every size for every reference.
The programs of `release_backend` have an init function, a main function of two blocks and a callee, and
two data segments, so that each segment can be used by neither, one or both sides, directly or through
the callee.

`AssemblyIsCorrect` has four parts: the least layout and that it is reached (`LayoutIsLeast`,
`SteadyConverges`, stated with `OffsetsGrow` for assemblies that are `steady`), that the size error is real
(`ErrorIsReal`, which holds without that condition within the bounds) and that the code reads back.

What `steady` is about: run code encodes every jump target and return address as its distance from
`runcode_start`, so every forward jump, and most calls, stand inside the distance they encode. Such a
distance is a *span* (`Spans`), and nearly every deployed contract has some. In a pass the assembler reads
a span with its start moved already and its end not yet, so the value is too small by as much as the start
moves in this pass. Values shrink from one pass to the next, and layouts with them, only if the start moves
*farther* than in the pass before. `steady` is the history that this has not happened so far (`stride` is
how far each mark moved when last placed; neither is in the code). The first pass is exempt, and without spans
`steady` is always true.

That start is as a rule `runcode_start`, and only references of the init code stand before it. They
all move it in the first pass; afterwards it moves only when one of them crosses a power of the byte size, and
it speeds up only if more of them cross one than in the pass before. In `MCReleaseBackend`, where a byte has
8 values so that crossings are many times as frequent as with 256, 774 of the 1592 contracts assembled have a
span, and 765 of those are steady. Of the other nine, all programs with several deployments of the run code,
seven settle and two oscillate. Within the bounds of `MCAssembler` all cases
occur: spans that speed up and settle all the same, spans whose start moves again after the first pass and stay
steady, and no convergence. `Calm` is a condition on the sections alone that is sufficient for `steady`
(see below).

Bounds of `sccp`: a word has three values, of which two fit a small constant, so that additions wrap
and constants occur that are not inlined; one EVM constant is never zero and one may be. 138
programs, each run deterministic; executions are followed for 24 steps, longer than any
program of the families needs to end if it does.

Bounds of `ssa` and of the legalizer's part of `pass_manager`: three blocks besides the entry are
enough for an irreducible loop, a loop in a loop, and a join that is visited before one of its
predecessors; three locals for a swap. Executions are followed for 24 and 40 steps, longer than any
program of the families needs to end if it does. The machine of the debug backend takes up to 16
instructions for each of the 24 steps; what is cut short on one side is compared as a prefix.

Bounds of `pass_manager`: three passes are enough for one pass to make something stale, a second to
use it and a third to act on the result, and every ordered triple of the seven passes occurs; O2 is
the string `csludisumcsludisumcsud` as it is in the code. A function is small enough to inline below
size 10 (12 in the code), which the families cross in both directions. `NonZeroKinds` is empty here
because of the disagreement below: no EVM constant is taken to be never zero.
`PassesKeepTheProgramLegal` also says that no pass brings back a critical edge. The driver depends on
it: it splits edges in `run_ssa_transform`, runs O2, and hands the result to a backend that asserts
there are none, while the SIR command line splits them once more in between.

Bounds of `stack_scheduling`: swaps reach 2 deep (16 in the code) and duplicates one less, so that three
values are already too deep and spilling, shrinking and growing all happen with four or five values; the
budget of the permutation search is 100 as in the code, more than the searches here use; 40 steps are
more than any program needs.

Fairness: `Termination` of the evaluator, `SccpTermination` and the answer that `ModuleSystem` promises
are checked under weak fairness of the whole next-state relation (in `NameResolution` it is `Runs`,
which says the same of its steps without `ENABLED`: they go on for ever or there is an answer).
The compiler is one thread of straight-line Rust: as long as a step is enabled it is taken. That the
assembler's passes end is the safety property `SteadyConverges`. The other runs say that nothing stops
early by checking deadlock: only a finished or failed state may stutter. In `comptime`,
`assembler_layout`, `release_backend` and `sccp` deadlock is not checked, because a finished evaluation
or assembly stops; that the first and the last finish is what their liveness properties say, and the
code of the other two is complete when they are done (`ContractIsWhole`, `AssemblyIsCorrect`).

The findings:

- `DivergingCallsAreIncluded` (`loop_condition`): the condition of a `while` at run time is evaluated into
  a block of its own. If it never returns a value, as `while stop() {}`, `eval_runtime_while` passes its
  divergence on before the loop is emitted (`scope.rs:834`): the block with the call is dropped, and
  the program runs into `invalid` instead of stopping.
- `ConstructionIsValid` (`never_call`): a function declared to return a value may have a body that never
  does. A call of it at run time has a result by its type and none by its blocks; the builder of SIR
  refuses it and the compiler aborts at an `expect` (`mir-lower/src/lib.rs:274`).

Met while modelling, and not kept as runs:

- the assembler's passes need not end: a difference that stands between its own two marks is sized in a
  pass when its start has moved and its end has not (`lib.rs:150` saturates). With the run code's
  length used four times in the init code, a jump over the first block and 256 bytes of run code, the
  layout alternates for ever and the pass limit ends in `unreachable!("assembly didn't converge")`
  (`lib.rs:430`), although a consistent layout exists. Differences of this kind are in nearly every
  contract; the four uses of a length at a byte boundary, which make the start of the run code move by turns
  more and less, are not. `AssemblyIsCorrect` is stated for `steady` assemblies because of it;
- SCCP takes some EVM constants (the caller, the chain id) for non-zero, does not reach the zero target
  of a branch on one, but folds the branch only if its condition is a number
  (`constant_propagation.rs:108`, `192`): the next pass that trusts the stored set of reached blocks meets
  a successor outside it, and the defragmenter aborts (`defragmenter.rs:235`);
- a `match` on a run-time subject with an else arm only becomes a switch without cases, whose first case
  the defragmenter looks up (`defragmenter.rs:265`). Large constants are not modelled, so no run shows it;
- critical edges are split before function entries are made regular: an entry that is also one target of a
  branch leaves the transform with a critical edge again. The frontend does not emit such entries; SIR
  text can;
- eighteen nested prefix operators use up the parser's fuel, which is spent by looks at one token without
  moving (`token_items.rs:36`), and abort it;
- two mutually recursive comptime functions that survive the poison of the diagnosed recursion are cached
  with a value; a later const that cannot afford to replay it evaluates them again, and meets the
  assertion "cached function re-evaluation should not poison" (`functions/mod.rs:722`). Likewise
  `mark_retryable` can meet an entry that recursion has poisoned; and a replay charges the frame that
  is popped at once, where the original evaluation charged the frames of the same function further out;
- functions are lowered under a key in which a type captured from a run-time argument and a type passed at
  compile time are not told apart: two calls of different arity can share a body;
- a branch known at compile time within one at run time still counts as run-time control for a result
  that only exists at compile time, which is then rejected.

## What is proved

`ComptimeProofs` and `ComptimeFailureProofs` assume only the named assumptions of `ComptimeEval`: keys
belong to functions, bounds are natural numbers, programs are well formed. There is no bound on
the number of keys, consts, blocks, statements, branches or nesting.

- `TypeCorrect`: `Spec => []TypeOK`. `TypeOK` is not inductive: that a cached cost is a natural
  number needs `before <= spent` in every frame, and that a cache is indexed by a key needs the
  relation between a frame's role and its id. `TypeInv` adds both (`GoodFrames`).
- `RecursionDetection`: `Spec => []InProgressMatchesStack`, inductive together with `TypeInv`. A
  step moves the stack in one of four ways (replace the top, push an idle frame, begin an entry,
  return); one lemma for each shows that the correspondence survives, and each action is an
  instance of one of them.
- `AssertionsHold`: `Spec => []Unreachable`, from the stack invariant: the three assertions inspect
  the entry of the frame that is ending, which is in progress or poisoned.
- `RecursionIsBounded`: `Spec => []RecursionIsCharged`, inductive together with the stack invariant. A
  step either pushes no frame, and then leaves the account of every frame (`Settles`), or pushes one and
  charges every frame of its function (`Pushes`); the frames above are counted with the theorems about
  finite sets.
- `CallersAndVerdicts`: `Spec => CallersAndVerdictsStand`, an action property: the same case analysis says
  that no step touches the limit of a suspended frame, and that only an entry in progress changes state.
- `FailuresStand`: `Spec => []FailuresAreAccounted`. Its invariant (`FailureInv`) has three parts besides
  the stack invariant and what is proved.
  *Taint* (`TaintInv`): poison, an exhausted ending, a function that never returns to comptime, in a frame,
  in a joined arm, in the ending or in a cache, each has an excuse among the diagnostics (`Excuses`). It
  needs that a comptime frame folds what it calls and has no arms, so that nothing a runtime block may do
  unwinds one.
  *Marks* (`MarkInv`): what poisons the entry of a frame on the stack has diagnosed recursion.
  *Replay* (`ReplayInv`), for the assertions of `fold_comptime_call`: a function whose result was cached but
  cost more than the caller can spend is evaluated again, maybe after other functions and consts were
  decided, and must give what it gave. Unless recursion was diagnosed there is an *oracle*, what each
  known call and each decided const gives, such that code runs on it in one way only (`RunsOnce`), each
  call it knows gives what its own preamble and body end in when they run on it (`Explained`), the caches
  agree with it, and each comptime frame of the stack has run on it to where it is (`Coherent`). A step
  adds to the oracle at most the call that has just ended; what was explained stays explained, because
  code that ran on an oracle runs alike on one that knows more (`RunsGrown`). The result of the
  second evaluation and the one remembered are then explained by the same oracle and equal.
  The two assertions of the lowering cache follow from the marks. That preambles, consts and entry blocks
  contain no `return` is part of `WellFormed`: `eval_return` relies on the HIR lowerer for it
  (`unreachable!`), and a preamble that returned would be taken for a failed one.

`AssemblerProofs` assumes the named assumptions of `Assembler` and `AssemblerClient`: a byte has more
than one value, at least one pass, sizes are natural numbers. Sections, marks, bytes and passes are
unbounded.

- `AssemblerTypeCorrect`: `Spec => []AssemblerTypeOK`; inductive with two facts about the time before
  the first pass (`TypeInv`).
- `MarksAreExact` and `EmissionIsSafe`: `Spec => []MarksLieAtTheirOffsets` and
  `Spec => []EmissionDoesNotPanic`. Neither is inductive: that the emitter meets a mark at its offset
  follows from the sizes of everything before it. `LayoutInv` says that in a pass the sections walked
  so far are in order and their marks at the starts recorded (`Sorted`, `MarksAt`), and that as long
  as no mark has moved each starts where the one before it ends, *with the sizes that the present
  offsets give* (`Chained`). The last holds because a mark that did not move leaves all offsets as
  they are. When the pass ends without a move, the emitter's position is that of the layout, a
  difference is not negative because its marks are in order, and no reference is too small because
  the pass has computed its size from the offsets that are emitted. That marks are placed once
  (`WellFormed`) is what keeps a mark at its recorded start.

- `LayoutOnlyGrows`: `Spec => OffsetsGrow`. A pass writes offsets that it also reads, so a span mixes a new
  start with an old end. `GrowInv` remembers the offsets of the first walk (`M`), of the walk before (`P`,
  `Previous`) and of the sections walked so far (`C`, `Passing`), and says that at section `r` of the walk the
  offsets are `Wider` than those `r` was sized by in the pass before: what `r` encodes has not shrunk. If
  both marks lie on one side of `r` their distance has grown, because all sections between them have. If `r`
  stands in a span from mark `i` to mark `j`, it read `P[j] - P[i]` less the stride of `i` (`Settled`) in the
  pass before and reads `P[j] - C[i]` now, which is not less as long as `C[i] - P[i]` is at most that
  stride: this is `steady`. Larger values have larger sizes (`ValueGrows`, `SizeGrows`), so nothing moves back.
- `PassesAreEnough`: `Spec => []PassesSuffice`: not to converge takes the start of a span that speeds up, or a
  limit of at most four passes for each reference. Each pass that moves a mark makes the whole code at least
  one byte longer, and no reference is ever more than four bytes larger than in the first walk; both are parts
  of `GrowInv`.
- `LayoutStands`: `Spec => []LayoutIsBest`. Any layout that all sizes agree with (`Consistent`) stays wider
  than what the passes lay out (`Beneath`, `LeastInv`), also at a span, whose start has moved forward by then;
  so a reference too small for its offset is too small for its offset in every layout. `ConsistentLayouts`
  speaks of a recursive function of the sizes; `OffsetsOfSizes` gives it by the lemmas on recursion of
  `SequenceLemmas`.
- `CalmContractsAreSteady`: `Spec => [](Calm(asm.sections) => steady)`. `Calm` can be told of the sections before
  they are assembled: each reference that stands before the start of a span has the same size for all
  offsets between the least ones and four bytes more for each reference before the mark. With 256 values
  to a byte that is the case unless the length of the run code, or an offset the init code names, lies that
  close below a power of 256, or is 0. `Bounded` keeps every offset in that range; behind sections whose size
  cannot change a mark stays where the first pass put it (`Kept`), so it does not speed up.
- `CodeStands`: `Spec => [](Addressable => CodeReadsBack)`. What has been emitted of every section stands where
  the layout put it (`WrittenInv`); the literals emitted so far are the bytes pushed up to the section
  reached, because the spans of the sections tile the bytes pushed (`ByteInv`, kept by every
  `push`, also where it extends the last section). Digits are read back as the value they were made of
  (`DigitsReadBack`, an induction over at most four digits), for which a reference has room unless its
  value needs five digits: hence `Addressable`, which the code's 32-bit offsets stand for.
- `AssemblyStands` combines them for assemblies that have been steady, and `CalmAssemblyStands` for sections that
  can be seen to stay so: `Spec => [](Calm(asm.sections) /\ Roomy => AssemblyIsCorrect)`.

That the layout settles within 1024 passes for more than 255 references is not shown. After the start of a span
has sped up, what remains proved is that marks lie at their offsets, that the emission does not panic and
that the code reads back; that it may then fail to converge is described under the findings.

`SccpProofs` assumes the named assumptions of `Sir`, `SirSemantics` and
`SccpClient`: a word has at least two values, programs have well-formed tables, and a block hands over
as many values as its successor takes.

- `SccpTypeCorrect`: `SccpSpec => []SccpTypeOK`. Inductive together with the agreement of edges while
  the analysis runs: without it a changed output would index past the inputs of a successor. That
  the rewritten program is well formed needs that a constant selects a target of each reached
  switch, which `Apply` tests as the code does.
- `LatticeOnlyDescends`: `SccpSpec => LatticeDescends`, from the same invariant: every change of a
  local is a meet with its old value.
- `NothingIsLeftToConclude`: `SccpSpec => []FixedPoint`. Its invariant is about the time before the end:
  every operation and every edge of a reached block that does not yet agree with the lattice is *owed*
  (`Owing`), to one of the two work lists, to a task of the running handler, or to the uses of a local that
  waits on the list of changed values. An entry is dropped only by the handler that makes it agree, and
  a change of the lattice puts the local on the list before anything that reads it is forgotten. That
  lists of uses are complete for the blocks the analysis can reach is the assumption
  (`InputsAssumption`), which is what `DefUse` gives; nothing is assumed of their order.
- `ConclusionsHold`: `SccpSpec => []ConclusionsAreReal`, for executions of any length in every environment.
  At the end of the analysis the invariants above and `OpenInv` (the inputs of a listed function are
  overdefined, and its entry is reached, from the first step on) give `IsSettled`. An execution then keeps
  `RunIsSound`: each frame on its stack runs in a reached block, each local in it is unset or agrees with
  the lattice, and the locals its results go to are overdefined. One lemma for each kind of step, put
  together in `StepIsSound`; `StepsAreSound` is the induction. It assumes that `functions_rpo` lists the
  entry points and the functions that reached code calls, which `InputsAssumption` says of the inputs.
- `RewritingPreservesExecutions`: `SccpSpec => RewritingIsSafe`: when `apply` rewrites, each execution of the
  new program is that of the old one, in every environment and after any number of steps, with the same
  stores, values, frames and end, unless the old one ends `undefined`. Each operation of the rewritten
  block does what the old one did on a frame that agrees with the lattice (`RewrittenOpSteps`), a branch or
  switch on a constant goes where it went (`SimplifiedControlSteps`), and a block that is not reached is
  never entered.

`ReleaseBackendProofs` assumes the named assumptions of `ReleaseBackend`, of which `ProgramsAssumption`
says what a program is (`IsProgram`, see above). Blocks, functions, allocations and operations are
unbounded.

- `MemoryIsThere`: `Spec => []MemoryIsProvided`: no `expect` or assertion of the allocator or the emitter
  fails, and no two uses of memory share a byte. The invariant (`BackendInv`) follows two walks with work
  lists of their own. While the allocator walks, each block it has seen waits, is being walked, or is
  settled: its operations have their memory, its callees and its successors are seen (`CollectInv`).
  When both lists are empty the seen blocks are therefore closed under jumps and calls and have all they
  need (`Served`). The emitter starts at the same entry and so never leaves that set (`EmitInv`), in
  whatever order it visits it. That a load finds its word already while the allocator walks needs that
  the stores of a block keep their order in its second walk; that a call finds its return mark needs that
  `swap_remove` loses no other. Disjointness is inductive as "each slot lies below the bump pointer".
  The equation of a work list filled from a list of targets (`EnqueueMany`) is proved by the recursion
  and induction lemmas of `SequenceLemmas`.

`ReleaseContractProofs` builds on it, with the same assumptions.

- `ContractStands`: `Spec => []ContractIsWhole`: the sections are `WellFormed`, the run code refers only to
  itself, and the code and data placed are those that the entry points reach, no more and no less. While
  code is emitted references run ahead of the marks they name, so none of the three holds yet. The
  invariant (`ContractInv`) keeps four sets for the sections pushed so far (`Texts`): the marks placed,
  those placed behind `runcode_start`, and the marks that absolute and relative references may name. The
  marks that may be named are those of the blocks *seen* and of all return places handed out (`Promised`);
  those placed leave out the blocks that wait and the calls in flight (`CodeMarks`), so the two meet when
  the work list is empty. What every block done has pushed is part of it (`WalkInv`, `VisitInv`): its
  successors and callees are seen. The seen blocks are then closed and contain the entry, and each was put
  on the list by one that is reachable: they are `Reachable`. Between the two entry points (`Between`)
  only `runcode_start`, `initcode_end` and the data the run code shares with the init code are named
  and not yet placed. Marks differ because those of blocks, of returns and of data lie in ranges of their own and
  because a return mark is taken from `nextMark`, never given twice. No distance is negative because every
  difference starts at `runcode_start`, which lies before all it may name.

`ProjectLoadingProofs` assumes only `LoadingAssumption`: a text and the list of core modules have a length,
and no file goes by the name that stands for none. Files, definitions, imports, cycles and aliases of
paths are unbounded.

- `LoadingIsExact`: `LoadSpec => []FilesAreLoaded`. `LoadSpec` is loading followed by anything that uses what was
  loaded and changes none of it but `phase` and, by adding, `errors` (`UseLoaded`); the actions of
  `NameResolution` after `Load` are such steps. The property says that each source has its own file, that
  was asked for by the entry, a core module or an earlier source; that each import of a source, once
  passed, has the number of its own file in its slots, or is reported, and before that has empty slots;
  and that whenever nothing is being read, every tree is in place and every core module found so far has
  the number of its file. It is not inductive: what a read returns goes to whoever is on top of the
  stack, many files later. `StackInv` says that the innermost file was asked for by the definition at which
  the file around it stands, and so on outwards, the outermost by the entry or the next core module; so a
  reply is for the file that the top definition names. That a filled slot was empty, and that a
  definition is filled in its own place, needs that the slot index is the number of slots before the
  definition (`FrameIsAt`) and that the slots of two definitions are apart (`SlotsAreApart`). The number of
  slots is a recursive function; its equation is proved by the lemmas on recursion of `SequenceLemmas`.

Everything else is model-checked only: names, lowering and parsing, the middle end, the stack scheduler, the SSA
transform and the passes, whose operators are recursive over trees and graphs (the prover loses its
SMT backend where a RECURSIVE operator is declared); liveness; and the refinement.

## Plan

What is done is listed under Modules and under What is proved. What is left, most important first:

1. `NameResolution`: a public name stands for what public imports give it, and with it the refinement of
   `ModuleSystem`. It needs `ResolveReexport` as a function first.
2. `PassManager`: a valid analysis is fresh, from what each pass changes and declares preserved. It needs
   the recursive helpers of the passes as functions first.
3. Modules: the offsets and data of the debug backend, as a second client of `Assembler`; the remaining analyses; the SIR text
   parser; interners and dense containers against abstract maps.

## Not modelled

Listed per component in `PROJECT.json`. The lexer and the text of literals, the wording and layout of
diagnostics, the values of most builtins and the library's operators, byte data, 256-bit arithmetic,
option parsing and file I/O carry no state whose history matters. The session's tables and the
containers are append-only or small; what is left of the debug backend are sequences of fixed
instructions without choices; the SIR text parser serves tests. The end of the 32-bit address
space is not modelled. The generated tree-sitter parser and the editor integrations are not part of the
compiler.
