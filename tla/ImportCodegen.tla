--------------------------- MODULE ImportCodegen ---------------------------
(***************************************************************************)
(* ir_generate (src/llvm_ir_generator.c) over the packages that the        *)
(* analysis of PackageImports registered: which packages are generated, in *)
(* which order, under which names, and what each reference becomes.        *)
(*                                                                         *)
(* The LLVM module is abstracted to the definitions a name has been given  *)
(* (LLVMGetNamedFunction returns an existing function, so a second body is *)
(* appended to it) and a symbol's value to the name it denotes.            *)
(***************************************************************************)
EXTENDS PackageImports

CONSTANTS
  Essential,  \* names of packages generated although unused: os, io, runtime, mem
  NoVal       \* symbol->value.value == NULL

LlvmNames == (Names \cup {NoName}) \X Ids

ASSUME CodegenAssumption == Essential \subseteq Names /\ NoVal \notin LlvmNames

VARIABLES
  phase,   \* where ir_generate is: "off", "imports", "recopy", "main" or "done"
  gi,      \* the import being generated, or copied again
  gpc,     \* the declaration being generated
  done,    \* the packages with codegen_done
  bodies,  \* the definitions of each LLVM name, in the order they were added
  val,     \* symbol->value.value of every symbol
  emitted  \* what each generated reference became

gvars == <<phase, gi, gpc, done, bodies, val, emitted>>
allVars == <<vars, gvars>>

GInit ==
  /\ phase = "off" /\ gi = 1 /\ gpc = 1 /\ done = {}
  /\ bodies = [n \in LlvmNames |-> <<>>]
  /\ val = << >>
  /\ emitted = {}

\* main() calls ir_generate when sem_analyse returned true.
StartCodegen ==
  /\ semOk = "ok" /\ phase = "off"
  /\ phase' = "imports"
  /\ val' = [s \in DOMAIN syms |-> [id \in Ids |-> NoVal]]
  /\ UNCHANGED <<gi, gpc, done, bodies, emitted>> /\ UNCHANGED vars

\* The conditions under which the loop over ctx->imports skips a package.
KeepsEssentialOnly(i) == i \notin done /\ ~ imports[i].ignored /\ imports[i].name \in Essential
Generates(i) ==
  /\ i \notin done /\ ~ imports[i].ignored
  /\ imports[i].used \/ imports[i].name \in Essential

\* The name a symbol is generated under.
NameOf(s, id) == IF syms[s][id].llvm # NoLlvm THEN syms[s][id].llvm ELSE <<NoName, id>>

\* The scope a generated reference is looked up in: an identifier by name in
\* the scope being generated, a qualified one where pass 2 resolved it.
LooksUp(s, k, r) ==
  IF r.pkg = NoName THEN s
  ELSE (CHOOSE x \in resolved : x.from = s /\ x.at = k /\ x.id = r.id).to

\* What a reference to symbol id of scope t becomes: ir_gen_identifier and the
\* package-qualified member access declare a procedure that has no value yet.
ValueOf(v, t, id) ==
  IF v[t][id] = NoVal /\ syms[t][id].val.kind = "proc" THEN NameOf(t, id) ELSE v[t][id]

\* An integer constant is folded (has_const_int_val) and emits no reference.
Refers(s, k, r) == r # NoRef /\ syms[LooksUp(s, k, r)][r.id].val.kind # "const"

\* ir_gen_top_level_decl, ir_gen_top_level_variable: a procedure is defined
\* and its symbol has a value before its body is generated; the initialiser
\* of a constant or a variable is generated first.
GenerateDecl(s, file, k) ==
  LET d      == prog[file].decls[k]
      n      == NameOf(s, d.id)
      own(v) == [v EXCEPT ![s][d.id] = n]
      before == IF d.op = "proc" THEN own(val) ELSE val
      t      == LooksUp(s, k, d.ref)
      target == ValueOf(before, t, d.ref.id)
  IN  IF d.op \notin {"proc", "var", "const"} THEN UNCHANGED <<bodies, val, emitted>>
      ELSE /\ bodies' = IF d.op = "const" THEN bodies
                         ELSE [bodies EXCEPT ![n] = Append(@, [scope |-> s, file |-> file, id |-> d.id])]
           /\ IF Refers(s, k, d.ref)
                THEN /\ val' = own([before EXCEPT ![t][d.ref.id] = target])
                     /\ emitted' = emitted \cup {[from |-> s, at |-> k, name |-> target]}
                ELSE val' = own(before) /\ UNCHANGED emitted

\* One declaration of the import at gi (ir_gen_process_ast).
GenerateImportDecl ==
  /\ phase = "imports" /\ gi \in DOMAIN imports /\ Generates(gi)
  /\ gpc <= Len(prog[imports[gi].file].decls)
  /\ GenerateDecl(gi, imports[gi].file, gpc)
  /\ gpc' = gpc + 1
  /\ UNCHANGED <<phase, gi, done>> /\ UNCHANGED vars

FinishImport ==
  /\ phase = "imports" /\ gi \in DOMAIN imports /\ Generates(gi)
  /\ gpc > Len(prog[imports[gi].file].decls)
  /\ done' = done \cup {gi} /\ gi' = gi + 1 /\ gpc' = 1
  /\ UNCHANGED <<phase, bodies, val, emitted>> /\ UNCHANGED vars

SkipUnused ==
  /\ phase = "imports" /\ gi \in DOMAIN imports /\ ~ Generates(gi)
  /\ gi' = gi + 1
  /\ UNCHANGED <<phase, gpc, done, bodies, val, emitted>> /\ UNCHANGED vars

EndImports ==
  /\ phase = "imports" /\ gi \notin DOMAIN imports
  /\ phase' = "recopy" /\ gi' = 1
  /\ UNCHANGED <<gpc, done, bodies, val, emitted>> /\ UNCHANGED vars

\* import_using_copy_symbol of every using package, transitive ones too, into
\* the scope of the main program.
RecopyUsing ==
  /\ phase = "recopy" /\ gi \in DOMAIN imports
  /\ IF imports[gi].isUsing
       THEN /\ syms' = [syms EXCEPT ![0] = CopyUsing(syms[gi], @)]
            /\ val' = [val EXCEPT ![0] = [id \in Ids |-> IF Exported(syms[gi][id]) THEN val[gi][id] ELSE @[id]]]
       ELSE UNCHANGED <<syms, val>>
  /\ gi' = gi + 1
  /\ UNCHANGED <<phase, gpc, done, bodies, emitted, prog, imports, scopes, importStack, regDepth,
                 pkgName, pending, resolved, errors, buildIgnored, frames, semOk>>

EndRecopy ==
  /\ phase = "recopy" /\ gi \notin DOMAIN imports
  /\ phase' = IF buildIgnored THEN "done" ELSE "main"
  /\ gpc' = 1
  /\ UNCHANGED <<gi, done, bodies, val, emitted>> /\ UNCHANGED vars

GenerateMainDecl ==
  /\ phase = "main" /\ gpc <= Len(prog[Main].decls)
  /\ GenerateDecl(0, Main, gpc)
  /\ gpc' = gpc + 1
  /\ UNCHANGED <<phase, gi, done>> /\ UNCHANGED vars

EndMain ==
  /\ phase = "main" /\ gpc > Len(prog[Main].decls)
  /\ phase' = "done"
  /\ UNCHANGED <<gi, gpc, done, bodies, val, emitted>> /\ UNCHANGED vars

-----------------------------------------------------------------------------
\* The whole front end: the analysis, then the generator.
CInit == Init /\ GInit
CNext ==
  \/ Next /\ UNCHANGED gvars
  \/ StartCodegen \/ GenerateImportDecl \/ FinishImport \/ SkipUnused \/ EndImports
  \/ RecopyUsing \/ EndRecopy \/ GenerateMainDecl \/ EndMain
CSpec == CInit /\ [][CNext]_allVars /\ WF_allVars(CNext)

Skipped(i) == imports[i].ignored \/ ~ (imports[i].used \/ imports[i].name \in Essential)

\* What the emitted reference e refers to, and the scope it was found in.
RefOf(e)    == prog[FileOf(e.from)].decls[e.at].ref
ScopeOf(e)  == LooksUp(e.from, e.at, RefOf(e))
SymbolOf(e) == syms[ScopeOf(e)][RefOf(e).id]

\* A procedure is called across packages before it is generated, under the name
\* the caller's own copy of its symbol bears.  When generation ends that
\* function has a body, unless the package it comes from is build-ignored or an
\* unmarked using import.  The symbols of a prelude are copied without a name,
\* over whatever name was there: of those this says only that the prelude
\* defines what is found in its own scope.
CallsAreDefined ==
  phase = "done" =>
    \A e \in emitted :
      LET v == SymbolOf(e).val
          t == ScopeOf(e)
      IN  v.kind = "proc" /\ (v.file \in {RuntimeFile, IntrinsicsFile} => t # 0 /\ FileOf(t) = v.file) =>
            \/ bodies[e.name] # <<>>
            \/ \E i \in DOMAIN imports : imports[i].file = v.file /\ Skipped(i) /\ (imports[i].ignored \/ imports[i].isUsing)

\* A variable is never declared ahead, yet a reference to a variable of a
\* generated package has a value when the package was generated before: every
\* import is before the main program, and before the imports registered later.
VariablesHaveValues ==
  phase = "done" =>
    \A e \in emitted :
      LET t == ScopeOf(e)
      IN  t \in done /\ (e.from = 0 \/ t < e.from)
            /\ SymbolOf(e).val = [file |-> FileOf(t), id |-> RefOf(e).id, kind |-> "var"] => e.name # NoVal

\* When generation ends every function that was called, under whatever name,
\* has a body, so the module links, up to the packages left out (two cases in
\* which the code disagrees with its comments, see the README); and variables
\* have their values.
ReferencesAreDefined ==
  /\ phase = "done" =>
       \A e \in emitted :
         e.name # NoVal =>
           bodies[e.name] # <<>> \/
             \E i \in DOMAIN imports : Skipped(i) /\ \E id \in Ids : syms[i][id] # NoSym /\ NameOf(i, id) = e.name
  /\ CallsAreDefined
  /\ VariablesHaveValues

=============================================================================
