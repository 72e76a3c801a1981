# A TLA+ model of odinc

`odinc` is an Odin-to-LLVM compiler in C (about 30,000 lines under `src/`).
It is a batch program: it parses a file or a directory, analyses the main
program and everything it imports, generates one LLVM module, writes it,
links it and perhaps runs it. It keeps most of its state in two big contexts
(`SemContext`, `GeneratorContext`) that recursive functions change and are
meant to put back. That, and the few places where several threads or
processes meet, is where its correctness is hard to test, and what these
modules are about.

Line numbers below are those of the files under `src/`.

## 1. Inventory

| Component | State | Operations | Depends on |
|---|---|---|---|
| Driver (`main.c`) | locals of `main`: `sem_ok`, `exit_code`, `ll_file`, `exe_file`; the file system | parse arguments, parse, analyse, generate, write IR, link, run, remove temporaries, exit | everything; other compilers through `/tmp` and source directories |
| Directory parsing (`main.c` 210-400, `package_resolver.c`) | `jobs[]`, `threads[]`, the tree of each file, the merged tree | one thread per file, joins; sequential loop for imported directories; `merge_program_asts`; free | parser library |
| Package analysis (`semantic_analyser.c`, `sem_context.c`, `generator_lists.c`) | `ctx->imports[]`, `import_stack`, `import_reg_depth`, `package_name`, `pending_bundles`, scope stack, `resolved_symbol` annotations, error list | pass 1 (register), pass 2 (bodies), import handlers, preludes, usage tracking | recursion into itself for every import |
| Symbol tables (`generic_hash_table.c`, `scope.c`, `scope_lists.c`) | buckets, chains, size; chain of scopes | create, insert (with resize), lookup, remove, destroy | used by all passes |
| Statement analysis (`semantic_analyser.c` 2340-3352) | scopes of procedure bodies, loop depth | one handler per statement | expression typing |
| Expression typing (`sem_evaluate_expr.c`, `sem_check.c`) | annotations of nodes | evaluate, check, fold constants | type registry |
| Type registry and resolution (`type_descriptors.c`, `type_info.c`, `sem_type_resolver.c`) | `types[]`, at most `MAX_TYPES` descriptors; `poly_struct_cache` | get-or-create for each kind of type, canonical name and `type_id`, one resolver per type expression, templates, layout | LLVM types |
| Polymorphism (`polymorphism.c`) | `poly_env_stack`, `currently_instantiating`, `poly_expected_return_type`, cache of specializations, pending list, `when` selections, annotations on the shared AST | bind `$` names from arguments and expected type, evaluate `where`, look up or analyse the specialization, generate the pending ones | re-enters procedure analysis; drained by the generator |
| Package code generation (`llvm_ir_generator.c` 3800-4430) | `codegen_done`, `symbol->value`, LLVM module | the loop over imports, forward declarations, recopy of using imports, main program, entry wrapper | what analysis registered |
| Statement code generation (`ir_gen_statement.c`, `llvm_ir_generator.c`) | insert block, `defer_stack`, `loop_stack`, `current_scope_depth`, `fallthrough_target_bb` | one handler per statement, emission of defers | LLVM builder |
| Expression code generation (`ir_gen_*.c`) | insert block | one handler per expression | LLVM builder |
| Runtime intrinsics, entry point | list of deferred intrinsics | lazy creation, init/fini order | generator |
| Diagnostics (`error_list.c`, `sem_error.c`) | list of messages | append, print | |
| Grammar and AST | | interpreted by an external parser library | |

How they interact. `main` calls the parser (in threads for a directory), then
`sem_analyse`, then `ir_generate`, then the linker. `sem_analyse` re-enters
itself for each import. The generator walks the same trees a second time and
relies on what analysis left: the registry of packages, the scopes, and the
`resolved_symbol` of nodes.

What is hard:

* re-entrancy: every import handler saves part of the context, runs both passes
  on another package, and restores it, on error paths too;
* order: packages are registered, analysed, generated and copied in orders that
  depend on who imports whom and how;
* compile-time stacks in the generator that must follow the nesting of the
  source although exits (`return`, `break`) are generated in the middle;
* ownership when a merge fails half way;
* threads that write into memory the main thread frees;
* several compilers at once on shared files;
* a hash table that relinks itself during an insertion;
* identity of types: pointers when a program is analysed, hashes of names when it
  runs, with a registry that may be full;
* one AST for all specializations of a polymorphic procedure: what an
  instantiation notes in it, the next one overwrites.

There is no persistence, no network and no retry in this program.

## 2. Modules

| Module | Models | Proved about in |
|---|---|---|
| `PackageImports` | `sem_analyse`: passes, imports, preludes, usage tracking | `PackageImportsProofs` |
| `ImportCodegen` | `ir_generate` over packages; EXTENDS `PackageImports` and composes with it | `PackageImportsProofs` |
| `DirParse` | thread pool, sequential import loop, merge | `DirParseProofs` |
| `PackageMerge` | abstract: a directory becomes one package or fails | `DirParseProofs` |
| `StatementCodegen` | statements, defers, blocks; execution of the blocks and interpretation of the source | `StatementCodegenProofs` |
| `LocalScopes` | names in procedure bodies: the analyser's walk, the generator's walk, the life of scopes | `LocalScopesProofs` |
| `TypeRegistry` | the registry of type descriptors and the resolution of type expressions | `TypeRegistryProofs` |
| `PolyBinding` | pure: how `$` names are bound, `where` clauses and `when` conditions evaluated | `PolymorphismProofs` |
| `Polymorphism` | instantiation of polymorphic procedures and generation of the specializations; EXTENDS `PolyBinding` | `PolymorphismProofs` |
| `Driver` | compiler processes on a shared file system | `DriverProofs` |
| `HashTable` | `generic_hash_table.c` | `HashTableProofs` |
| `SymbolMap` | abstract: a map from keys to values | `HashTableProofs` |
| `MC...` | instances for TLC | |

Operators that stand directly above the definition they vary and are marked as
mutants (or named for a plausible slip: `ForgetsToCompact`, `DoesNotWait`) are
not part of the model. They show that each property can fail.

### PackageImports

`frames` is the C call stack of `sem_analyse`/`import handler` calls, with the
locals each call saves; the other variables are fields of the two contexts. A
source file is its package clause, `#+build ignore`, whether it parses, and
its top-level declarations (imports of the three kinds, procedures, constants,
variables, procedure groups), each with at most one reference in its body. One
action is one declaration in one pass, or one return from an import.

| Actions | Code |
|---|---|
| `AutoImportRuntime`, `AutoImportIntrinsics`, `SkipPrelude`, `CopyRuntimeSymbols` | the preludes at the start of pass 1 |
| `PackageClause` | the package declaration |
| `ImportFails`, `ImportCycle`, `HandleImport`, `HandleImportNamed`, `HandleImportUsing`, `ReturnImport` | `handle_import*` up to the recursive call, and after it |
| `RegisterDecl`, `RegisterVar`, `RegisterGroup` and the resolution of deferred bundles | pass 1 |
| `AnalyseDecl`, `AnalyseVar`, `AnalyseGroup`, `SkipImport` | pass 2: evaluation of the reference, mangling |
| `TrackUsage`, `FinishTrack`, `IgnoredMain`, checks after each pass | the end of `sem_analyse` |

`BundlesStayHome` is `PendingStayHome` (whose call a deferred bundle belongs to, and
that none is left over) and what the resolved bundles then hold.

### ImportCodegen

Starts when analysis accepted the program. `gi` and `gpc` are the loop
variables over imports and declarations. The LLVM module is the sequence of
bodies each name was given (`LLVMGetNamedFunction` returns an existing
function, so a second definition is appended to the first), a symbol's value
the name it denotes or `NoVal`.

`ReferencesAreDefined` has three parts: every function called under whatever name
has a body when generation ends; `CallsAreDefined`, that this body is there
because the package the called symbol comes from was generated, which usage
tracking must have seen; and `VariablesHaveValues`, that a reference to a variable of
a package generated before finds its value.

### DirParse and PackageMerge

The main thread's loops (`CreateJob`, `Join`, `JoinNothing`, `ParseNext`,
`Merge...`, `Cleanup`, `Release`) and one `ParseJob` per thread. Nodes are
`<<file, position>>`; `frees` counts how often each is freed. Joining a thread
that was never created is undefined behaviour: an error or a crash.

### StatementCodegen

Three phases in one behaviour: the generator turns a body into basic blocks;
one procedure is executed, with every condition chosen freely and recorded; the
source is then interpreted with the same choices. A deferred statement or an
expression is a call with an observable event. Two variables are history: `lossy`,
generation met a construct the code gets wrong (section 6), and `gaps`, the blocks
it left open at the two places it forgets.

`Statements` is the set that bodies and their parts are taken from, so that
`StatementsAssumption` can say what the grammar says: a part of a statement is a
block or, after `do` and in an `else if`, a single statement; a `for` has no head, a
condition or three clauses; an unrolled range has a count. (The grammar's `if x := e;
c` is never parsed as that: its ordered choice takes `x` for the condition first,
`odin_grammar.gdl:574-577`, and `unsupported_features.md:6` lists it.) `DefersIn` is the
loop that compacts `defer_stack`, one entry per turn.

`SemanticsKept` is about the bodies without a construct of section 6. `lossy` is as narrow as the
code allows: of the 424 pairs of a body and a procedure of it that the run
excuses, all but 36 do go wrong in some execution.

### LocalScopes

A text is one procedure from its open to its close: declarations, uses, deferred
uses, `return`, and the opening and closing of every statement that nests, nested
procedures included. `context` is the name the generator adds to every procedure;
nothing declares it (`Named`). `phase`
`"sem"` walks over it as `sem_pass2_node` does, `"gen"` as `ir_gen_node` does;
`gc` is the one `GeneratorContext` both use, with a heap of scopes that counts
how often each is freed. `symbolOf` is `node->resolved_symbol`; `meant` and `made`
are history: the declaration the analyser and the generator took a name for.
`defers` is a set: where a deferred name leads does not depend on the order.

| Actions | Code |
|---|---|
| `SemVar`, `SemConst`, `SemUse`, `SemReturn`, `SemOpen`, `SemClose` | the cases of `sem_pass2_node` and the statement handlers |
| `GenVar`, `GenConst`, `GenUse`, `GenDefer`, `GenReturn`, `GenOpen`, `GenSkip` | `ir_gen_node` and its handlers, with the scopes they push |
| `GenCloseDo`, `GenClose`, `GenCloseProc` | the end of a statement: its deferred statements, its scope; an unrolled body starts again |
| `Release`, `Destroy` | `generator_free_deferred_scopes`, `generator_context_destroy` |

`SameBinding` names the declarations for which the two walks differ (section 6,
procedures and constants left unanalysed in a switch case among them); for every
other shadowed name, and for every name declared once, they agree.

### TypeRegistry

`reg` is `TypeDescriptors.types`; a descriptor pointer is an index, 0 is `NULL`. A
descriptor is what its `get_or_create_*` compares (kind, children, numbers,
names) and, apart, what no lookup compares (`attrs`: default values, named
results, the symbols of a bundle, enumerators, `using`). `type_id` is the
canonical name itself, so the hash has no collisions. A program is a sequence of
type expressions whose children are type names or earlier expressions: that is
the order in which the recursion of `sem_resolve_type_expr` ends. `uses` is
history: what was asked for and what came back.

`bool`, `i8`, `i32`, `i64`, `f32` and `f64` are registered twice: once for the types of
expressions and built-in fields (`registry->i64_type`), once in `basic_types[]`, where
names are looked up. `Interned` excepts the two copies themselves, and `Copies` says
which they are. A type over one copy is another type than the same over the other
(section 6), so `AssertionFindsMember` takes types that differ only in copies for one:
the canonical name does.

| Definitions | Code |
|---|---|
| `PointerType` ... `ProcType`, `FoundIn`, `Alike`, `Create`, `GetOrCreate` | `get_or_create_*`, `register_struct_type`, `create_distinct_type`, `type_descriptor_alloc` |
| `CanonicalNames`, `WithId` | `type_write_canonical_name`, `type_compute_hash` |
| `CreateRegistry`, `BuiltinTypes` | the registry before any program |
| `Resolve...` | one action per resolver of `sem_type_resolver.c` |
| `BeginSoa`, `BeginSoaStruct`, `BuildField`, `FinishSoa` | `#soa`: one slice or array per field, each of which may fail |
| `ApplyCached`, `ApplyUnknown`, `ApplyNew`, `InferNew`, `FinishTemplate` | `sem_resolve_type_application`, `sem_infer_poly_struct_type` |
| `DeclareProc`, `DeclareBundle` | `sem_resolve_procedure_signature`, `sem_resolve_overload_bundle` |
| `AssignmentRefused`, `AssertedMember` | `sem_check_assignment`, `u.(T)` |

### PolyBinding and Polymorphism

A type is a base name under a sequence of wrappers, and so is a pattern, with `$`
names, bare names or a concrete type at the leaf. `EnvFromArgs`, `Unify`,
`BindFromReturn` build the environment of a call; `Eval` is
`poly_eval_where_expr` on a condition given as its tokens in evaluation order,
with its habit of returning -1 for "no value". `Polymorphism` walks the plain
procedures of a program; `frames` is the call stack of
`sem_analyse_procedure_literal` and `poly_resolve_call`.

| Actions | Code |
|---|---|
| `AnalyseProc`, `FinishPlain`, `SelectArm`, `EndAnalysis` | pass 2 over procedures, `when`, the end of analysis in `main` |
| `StartCall`, `FinishCall` | a call: arguments, candidates of a bundle, the annotation of the node |
| `CannotBind`, `CacheHit`, `WhereRefuses`, `Instantiate`, `FinishInstance` | the outcomes of `poly_resolve_call` |
| `GeneratePlain`, `GenerateSpec`, `EmitCall`, `EmitWhen`, `FinishBody`, `EndGeneration` | generation and the loop over pending specializations |

`Nodes[b]` is the set of statements of the program whose entry body is `b`, for
`ProgramAssumption` to say that it is a syntax tree.
`called` and `selected` belong to AST nodes, hence are keyed by statement and not
by specialization; the `calls` and `arms` of a pending specialization are history.

### Driver

`p \in Procs` are compiler processes, each with a command line. Paths are
sequences of tokens, so that name computations (`.odin` removed, last `/`, last
`.`) are what the code computes. `disk` says which process's program a file
holds. It starts with any of the files that the commands name, left by a compiler of
an `Earlier` time. Every stage may fail; after a failed write the linker is run all the
same, on whatever `.ll` file is there. Only a path that exists is a directory, so a
directory's path is not empty (`CommandsAssumption`, `main.c:285-290`). Writing a file
and linking are one step each: a file is replaced as a whole, and one that two
compilers write at the same time holds the program of one of them.

Compilers of one group, `Separate(G)`, share no file name with others. Inside it
one may run or overwrite what another wrote (section 6); `RunsOwnProgram` and
`LeavesResults` say that this is all that can happen.

### HashTable and SymbolMap

A bucket is a sequence of entries. `Insert` ends with the start of a resize;
`MoveEntry`, `NextBucket`, `EndResize` are its loop. The calls are sequential,
so nothing else happens between them; they are separate steps to state where
entries are while the loop runs. `calloc` and `malloc` may fail.

## 3. Runs

| Run | Checks | Instance |
|---|---|---|
| `package_imports` | 8 invariants, `Terminates` | main, two packages that import each other, themselves, the main program or a missing path in the three ways, private or not, with preludes; shadowing, groups before candidates; ignored and unparsable files |
| `import_codegen` | `ReferencesAreDefined` | chains m -> a -> b and diamonds, references to procedures, variables and constants |
| `dir_parse` | 4 invariants, refinement `IsOnePackage` | every directory of up to 3 files with up to 2 nodes, two package names |
| `statement_codegen` | 5 invariants | 959 bodies, at most 4 conditions and 20 events in one execution; a stack of two loops |
| `local_scopes` | 4 invariants | about 23,000 bodies with one or two nested statements of each kind and one name declared and used before, in and after them; room for two popped scopes at first |
| `type_registry` | 5 invariants | every sequence of type expressions that the bounds in `TypeRegistry.cfg` allow, over both copies of `i64`; a registry that fills up and a template cache of two entries |
| `polymorphism` | 6 invariants, no deadlock | 1,610 entry bodies of three calls over a library with `when` statements and nested, bundled, constrained and integer-parameterised procedures |
| `driver` | 2 invariants | two compilers with 17 command lines each, that share all, some or none of their files, on a disk with any old files of those names |
| `hash_table` | 2 invariants, refinement `IsMap` | 4 keys of which two always collide, 2 values, from 1 bucket to 8 |

Each of these finishes without error. The three runs expected to find a violation
(`DefersOnEarlyReturn`, `DefaultsNotShared`, `GeneratedAsAnalysed`) each refute a
sentence of the repository; the findings in `PROJECT.json` quote it.

Why the bounds are enough. Two packages besides the main program give every shape that
the handlers distinguish: self-import, cycle, diamond, an import met while another
package's registration is suspended, and the same file registered twice. Three files
of two nodes give a mismatch in the first, a middle and the last file, before and
after moved nodes. Bodies nest two constructs, with defers inside, between and around:
the code looks at the innermost entry and at one depth comparison only. Three nested
loops overflow its loop stack. `MaxEvents` cuts executions of endless loops, after
more turns than a body has statements. Two compilers, because a step meets the files
of one other at a time (that more of them do no harm is proved). The table doubles
three times, with a chain that stays a chain. A type expression depends on the
registry through one lookup, so two expressions with a third between them meet every
case of finding and missing, and the registry fills within the bound. Only the last
expression of a program is directly over the copy of `i64` that names do not find
(`HiddenLast`): the two copies differ in their places only, so it does not matter
which comes last. Instantiations nest two deep below the entry procedure and one
procedure is instantiated for different values, first directly and then from within
another: what the environment stack, the cache and the annotations of the shared AST
can confuse.

Deadlock checking is off for all runs but `hash_table` and `polymorphism`: compilers,
analyses and executions end.

Fairness. The compiler is sequential and its steps are never blocked, so
`PackageImports` and `ImportCodegen` assume weak fairness of the whole
next-state relation: the process keeps running. `DirParse` assumes weak
fairness of the main thread and of the parse threads, that is, the operating
system schedules them and parsing a file ends. `Driver`, `StatementCodegen`,
`LocalScopes`, `TypeRegistry`, `Polymorphism` and `HashTable` state safety only, without fairness.

## 4. Proofs

Proved by TLAPS for all values of the constants that satisfy the named
assumptions. The runs evaluate the assumptions on their instances.

| Assumption | Says |
|---|---|
| `ConstantsAssumption` | names and markers are distinct and programs are well-formed |
| `CodegenAssumption` | essential packages are names, `NULL` is no LLVM name |
| `TableAssumption` | hashes are naturals and `NULL` is no value |
| `DirParseAssumption` | a directory to merge has a file; a plain node is no clause |
| `RegistryAssumption` | the limits and the table of built-in types, of which a name occurs at most once in `basic_types[]` and at most once outside it; the five of `register_builtin_context_types` fit; a template has fields of the modelled forms |
| `LocalAssumption` | a text is one procedure whose tokens nest; a name is not a marker; nothing declares `context` |
| `ProgramAssumption` | a program is a syntax tree, its calls name procedures of the library |
| `CommandsAssumption`, `EarlierAssumption` | command lines are well-typed, a directory has a path; the earlier time is no process |
| `LimitsAssumption`, `StatementsAssumption` | the limits are naturals; statements are made of statements, in the forms of the grammar |

Where an invariant is not inductive as it stands, the strengthening was checked
by TLC on the run's instance before it was proved.

### PackageImportsProofs

* `TypeTheorem`: `TypeOK`. `StackTheorem`: `NoPathTwice`, inductive on its own
  (`StackInv`): a push is guarded by `OnStack` and pops remove the last element.
* `ContextTheorem`: `ScopesMatchCalls`: the scope stack and the counter
  `import_reg_depth` mirror the recursion. `DirectTheorem`: `DirectIffDeclaredByMain`.
* `AcceptedTheorem`: `AcceptedMeansResolved`: an accepted program has no reference
  that was not resolved.
* `MangledTheorem`: `MangledWithOwnName`: what a finished import defines carries
  its own package's name.
* `PendingTheorem`: `PendingStayHome`, the part of `BundlesStayHome` about the queue.
* `CallsOfGeneratedCodeAreDefined`: `CSpec => []CallsAreDefined`, and
  `VariablesOfGeneratedCodeHaveValues`: `CSpec => []VariablesHaveValues`, about the
  analysis composed with the generator, for every program and every set of
  essential packages.

The first invariant is `IInv == TypeOK /\ ControlInv /\ DirectIffDeclaredByMain`.
`ScopesMatchCalls` alone is not inductive: a return truncates the scope stack to
a count saved earlier, so one must know that the saved count of every frame on
the call stack is the number of frames below it (`CallsInv`), and that frames
below the top are suspended at an import. `DirectIffDeclaredByMain` then follows
because `import_reg_depth` is 1 exactly when the main program's own frame is
registering. On top of it, `SettledInv` says which declarations of a package have
been looked at wherever the recursion stands: up to the point its frame has
reached, all of them when its frame is gone, with each reference resolved or an
error recorded; `NamesInv` and `MangledInv` say the same of package names, of the
owners of deferred bundles and of mangled symbols.

For the generator the invariant is `CInv == AnalysisInv /\ GenInv`. A call crosses
packages through copies of symbols, so `AnalysisInv` adds where what a scope says
comes from: a procedure of another file is declared there, bears that package's
name, and is in the scope of a finished `using` import of that file (`OriginInv`);
annotations lead to symbols in packages marked as used (`ResolvedInv`); what a
package declares is in its scope (`PresentInv`). `GenInv` says which packages are
done or skipped at every point of the loops, that a done package has a body for
each procedure and a value for each variable (`GenProgress`), that a symbol's
value is its own name or, in the main program, that of the `using` import it was
copied from (`GenValues`), and the same of the references emitted (`GenRefs`).
The second copying of `using` symbols writes the scope of the main program only, when
nothing of it has been generated, so it changes no reference.

### DirParseProofs

* `ParseTypes`, `ThreadsEndFirst`, `FailureFrees`, `FreedOnce`: the four invariants
  of the run, for directories of any number and size of files. `ParseTypes` adds
  `NodesOnce`: the merged list has no node twice, and a node that is freed twice was
  moved out of the very file in which the merge failed.
* `MergesAsOnePackage`: `Spec => Package!Safety`: threads, loops and merge implement
  the safety part of `PackageMerge`, step by step; every step but the last one is a stutter.

Inductive invariant: `TypeOK /\ NoThreadOutlivesJobs /\ ParseInv /\ MergeInv /\
AttachInv /\ FreeInv`. A failure after a half-done merge frees two trees; that no
node is in both needs to know where the merge stopped (`MergeInv`), which nodes
are attached to a file still (`AttachInv`), and what each loop of the clean-up has
freed (`FreeInv`).

### StatementCodegenProofs

* `TargetsExist`: `TypeOK`: no instruction branches to a block that is never created.
* `StacksFollow`: `StacksFollowNesting`. `StacksEmpty`: `StacksEmptyAtEnd`.
* `WorkLeadsBack`: the inductive invariant.

`StacksEmptyAtEnd` says nothing before the end, so the invariant has to say that
the work that is left undoes what has been done: `WalkInv`, a walk of scope depth,
number of loop entries and "a fallthrough target may be set" from the state of
the moment through every remaining task to none of them, with each statement still
to be generated inside a scope that lies inside its loops. A statement replaces
its task by a walk with the same ends (`Goes`), one lemma per action. An exit in the
middle of a body does not move the walk; it takes away defers, which stay sorted
with depths from 1 to the scope depth. The theorems hold for every `MaxLoopDepth`: when a push is
dropped, its pop takes the entry of an outer loop, and the rest of the walk runs
with one entry less (`WalkLower`). After `do` a statement may open no scope of its own, so
two loops may lie at one depth (`<=` in `StacksFollowNesting`).

### TypeRegistryProofs

* `RegistryTypes`, `RegistryInterned`, `RegistryMeans`, `DistinctApart`: `TypeOK`,
  `Interned`, `MeansWhatWasAsked`, `DistinctKeptApart`.

Inductive invariant: the registry (`RegOK`: children precede their parents, no two
descriptors that a lookup compares equal), and what the uses so far (`UsesOK`),
the template cache (`TemplatesOK`) and a type under construction (`BuildOK`) say
about it. The registry only grows (`Grown`), so what is said of a descriptor
stays true; one lemma says what `GetOrCreate` adds.

### PolymorphismProofs

* `PolymorphismTypes`, `EnvsFollow`, `SpecsGenerated`: `TypeOK`, `EnvMatchesFrames`,
  `CalledSpecsGenerated`.

Inductive invariant: `CallsInv` (the environment stack and the saved flags are
those of the frames), `NotesInv` (an annotation names a cached specialization, and
the cache is what the queue holds) and `GenInv` (what has been generated, is
being generated, or is in the part of the queue that is not drained yet, covers
what the generated code calls). Lemmas about `PolyBinding` show that no binding
makes an environment longer than `MAX_POLY_ENV_ENTRIES`.

### LocalScopesProofs

* `ScopeTypes`, `ScopesFreedOnce`: `TypeOK`, `FreedOnceAndLate`, from `IInv`: the scope
  stack is the chain of parents of the current scope, its length is the number of
  statements around the current token, and a scope is on the stack, deferred or freed.
* `LexicalAnalysis`: `AnalyserIsLexical`. `LexInv` adds what each live scope holds:
  the declarations between its opening and the current token, the last one of each
  name; so the chain the lookup climbs yields the innermost, then last declaration.
* `SameBindingInBothWalks`: `SameBinding`. `BindInv` relates the two walks: the
  generator's stack has one scope for every statement around the token except a
  `do`, and a second one for the signature of a procedure (`Marks`, `GenLevels`).
  Every entry of every scope is a declaration that was walked past (`Entries`), so a
  name declared once can only be bound to that declaration; of a name whose
  declarations are all registered where they stand, each scope holds the last one
  before the token, as in `LexInv`; a named result is in the signature's scope. An
  unrolled body that starts again meets scopes that hold more than the text before
  the token, which is why `Entries` is about the whole text and what a step keeps is
  stated as `Richer`.

### DriverProofs

* `RunsOwn`: `RunsOwnProgram`. `ResultsLeft`: `LeavesResults`.

For every number of compilers, with any command lines, and any old files on the
disk; nothing is assumed about their names. The invariant says of every new file that
some compiler has still to remove it or leaves it as a result (`FilesInv`); of a group of
compilers that shares no name with the others, what its files hold at each
stage, its own programs from the writing and the linking on, or old ones before
(`GroupInv`); and that an executable under a name of its own stays once it is linked
(`BuiltInv`). Where the names of a compiler come from matters in one place only: its
`.ll` file is not its executable (`TwoNames`).

### HashTableProofs

* `TableTypes`, `TableCounts`: `TypeOK`, `SizeCounts`.
* `TableIsMap`: `Spec => IsMap`, that is, `HashTable` implements `SymbolMap` under
  the mapping `MapOf(Content)`.

Inductive invariant `TypeOK /\ PlaceInv /\ Counted`: each entry is in the bucket
of its hash (for the old count, or for the doubled one in the new array), no
key is in a chain twice, no key is in both arrays, and the old buckets below the
loop index are empty. A lookup or insertion looks at one chain only; that this
chain decides presence is exactly `Placed`.

### Only model-checked

* Liveness (`Terminates`, the liveness part of `IsOnePackage`): outside the prover.
* `SemanticsKept`, `AssertionFindsMember`, `SpecsSatisfyWhere`,
  `BindingsExplainArguments`, `BranchFollowsInteger`: what a recursive function
  computes for every tree, name or condition is an induction over data.
* `NeverStuck`: that every block the generator positions itself at is closed later
  is a statement about all paths through the work that is left; the run has it for
  959 bodies.
* `PrivateNeverEscapes` and what the resolved bundles of `BundlesStayHome` hold: not
  true of all programs (a package that declares a name twice, or hides a
  copied one, keeps the flags of the old symbol: `scope_lists.c:59`), but of those of the run.
* The first part of `ReferencesAreDefined`: not true of all programs (the symbols of a
  prelude are copied without a name over a using import's, section 6), but of those
  of the run. Its other two parts, `CallsAreDefined` and `VariablesHaveValues`, are proved.

## 5. Not modelled

The parser and grammar (external library, trees built bottom-up); the types of
operators, literals and built-in calls (`sem_evaluate_expr.c`); sizes,
alignments, field paths and run-time type information; expression code
generation (straight-line LLVM building); diagnostics; the entry wrapper. In
`StatementCodegen`, cases with several values; in `HashTable`,
`generic_hash_table_destroy` and the iteration helpers; in `LocalScopes`, types,
tuples, polymorphic procedures, and a scope push that runs out of memory; in
`TypeRegistry`, arena types, bit fields of more than one field, names cut at the
length of a buffer; in `Polymorphism`, intrinsic aliases, package-qualified
callees, `$` names among the dimensions of a matrix, `%`, shifts and bitwise operators in conditions, mangled names cut at
511 characters, and failing allocations.
`PROJECT.json` lists each component with the reason.

## 6. Disagreements seen while modelling, without a run

Packages, files, statements and names:

* An import cycle is printed to stderr and not added to the errors, so the program
  is accepted (`semantic_analyser.c:1521`; `package_import_plan.md:98` lists it as an
  expected failure).
* `imports[]` lists an importer before what it imports and is generated in that
  order, so a variable of an imported package has no value in its importer
  (`llvm_ir_generator.c:4346` says "Generate code for imported packages first").
* A package clause that is not the first node of its file and does not match lets
  nodes already moved be freed twice (`package_resolver.c:265`;
  `package_resolver.h:31` says children are moved). `FreedOnceWhenClauseFirst`
  states the case that is safe.
* `build` exits with 0 after a failure to generate, write or link (`main.c:634`;
  `tests/run_tests.sh:44-45` takes 0 for success).
* A build-ignored import is still registered and its symbols can be used
  (`tests/test_build_ignore_import.odin:6-7` says they are not available).
* Symbols of the main package get mangled names when it has a package name
  (`semantic_analyser.c:2555-2556` says they keep bare names).
* Usage of a using import is missed when the copied symbol's type differs
  (`semantic_analyser.c:3416-3417`). `ReferencesAreDefined` excepts this.
* The symbols of a prelude that an import holds are copied with a `using` import, and
  such a copy of `f` keeps the mangled name that the main program's symbol `f` had from
  another using import (`scope_lists.c:59`): a call of it is declared under a name
  that gets no body if the other `f` was a constant.
* A package imported from two places is generated twice (`package_import_plan.md:65`).
* Recopying after generation overwrites symbols of the main program that hide an
  imported one (`llvm_ir_generator.c:4384`).
* Statements the generator gets wrong, excepted by `SemanticsKept`: an exit inside a
  construct takes pending defers off the stack although blocks that are generated later
  need them; `fallthrough` emits no defers, and in a nested switch it may go to the next
  case of the outer one (`llvm_ir_generator.c:3391`); a defer after `do` belongs to the scope
  around; a nested procedure shares the defer stack and the loops of the enclosing
  one; the last clause of a `for` with three, or the statement after its `do`, is taken for the
  condition (`ir_gen_statement.c:652-666`); `continue` in an unrolled loop ends the loop
  (`:541`); a switch without an expression is dropped; entries beyond a full stack are lost.
* The end of the last copy of an unrolled loop (`ir_gen_statement.c:580`) and a switch
  without cases leave a block without a branch. `NeverStuck` excepts these
  two and no other.
* `continue` in a switch branches to a NULL block (`ir_gen_statement.c:783`, phase `"bad"`); a
  case with several values compares only the first.
* The generator puts loop variables, and what a `do` statement declares, into the
  scope around the statement (`ir_gen_statement.c:396`), so they hide an outer
  name after the loop; the constant value of an unrolled loop's variable stays
  with that symbol.
* The generator does not register local constants: an outer name wins over one
  (`llvm_ir_generator.c:1445`). Constants and procedures declared directly in a
  switch case are not analysed (`semantic_analyser.c:3001-3014`).
* Deferred statements and named results are looked up by name where they are
  generated, so a later declaration that hides the name is taken.
* Generating a nested procedure overwrites the `context` of the enclosing one
  (`llvm_ir_generator.c:1508-1511`; `context_implementation_plan.md:203`).
* `run` uses `/tmp/odinc_<base>`, so two runs of equally named programs share a file
  (`main.c:537`), and one may execute the program of the other. After a failed
  write an old `.ll` file is linked (`main.c:598`). `RunsOwnProgram` allows these two.
* The output name of `build ./pkg` is cut at the last dot of the whole path (`main.c:554`).
* `scopes[]` has 64 entries and import chains write it without a check
  (`semantic_analyser.c:1858`).

Types:

* The limits of `bit_set[low..high]` are read in the wrong order, so such a set has
  one bit (`sem_type_resolver.c:648-720`; `tests/test_bit_set_range.odin:5`).
* `i64` as a name and as the type of an expression are two descriptors
  (`type_descriptors.c:104`, `:144`), and so are the pointers, slices and arrays over
  them; the same for the five other types that are registered twice.
* An enum is given no tag, so all enums share one `type_id`, and so do all distinct
  types of one base; `AssertionFindsMember` is about the other types.
* A `#soa` type asked for in a full registry dereferences `NULL`
  (`type_descriptors.c:1324`), the `crashed` state of `TypeRegistry`.
* A field or parameter whose type does not resolve is left out without a message.
* A bundle is found again by its candidates' types, whatever symbols it lists, and
  a `#soa` type whatever fields are `using`.
* When `poly_struct_cache` is full, equal applications are different types; a literal
  `Box{...}` that infers its argument never looks in the cache.

Polymorphism:

* A name a `where` clause or a body does not find in its own environment is
  answered by the instantiations around it, and so is the expected type. A
  `where` clause asks them all for an integer of that name before it looks for a type
  (`polymorphism.c:645-658`): `differ`, with `where T != U`, is accepted for two equal types
  inside `rows`, whose array size is named `T`. `SpecsSatisfyWhere` is not about names
  that a surrounding call binds as the other kind.
* -1 is a value and "no value"; `SpecsSatisfyWhere` shows that no constraint holds
  because of it, but one that is -1 itself is refused.
* A polymorphic procedure that calls itself with the same types is instantiated
  without end: the cache is written after the body (`polymorphism.c:2153`).
* A call with a `$` name left unbound is accepted when another one was bound.
* `[3]$T` accepts arrays of any length; `$T: typeid, x: []T` binds `T` to the slice;
  `Maybe($T)` binds `NULL`; a second parameter `$B/[$N]$E` leaves `B` unbound.
* Candidates of an ambiguous call of a bundle stay instantiated and are generated.
* The generator's `when` goes past a condition it cannot evaluate to a later one that
  is true, and cannot evaluate `&&` and `||`; `BranchFollowsInteger` is about conditions
  of integers.

## 7. Plan

Done: the modules above, in the order package analysis, package generation,
directory parsing, statements, driver, hash table, local scopes, type registry,
polymorphism.

Proofs done: every safety invariant and refinement of the runs but those listed
at the end of section 4.

Next, as models: the entry wrapper (order of `@(init)`, `main` and `@(fini)`), and
struct layout with its offsets.
