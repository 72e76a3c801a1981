--------------------------- MODULE PackageImports ---------------------------
(***************************************************************************)
(* Semantic analysis of a program and the packages it imports, as run by   *)
(* sem_analyse in src/semantic_analyser.c.  The analyser is recursive: an  *)
(* import declaration met in pass 1 of a file parses the imported package, *)
(* appends it to the flat registry ctx->imports, pushes the package's own  *)
(* scope, runs BOTH passes over it, and restores the importer's context.   *)
(* `frames' is that C call stack; every other variable is a field of       *)
(* SemContext or GeneratorContext.                                         *)
(*                                                                         *)
(* A source file is abstracted to what the import machinery tells apart:   *)
(* its package clause, whether it parses, whether it carries               *)
(* `#+build ignore', and its top-level declarations in order.              *)
(***************************************************************************)
EXTENDS Naturals, Sequences, FiniteSets

CONSTANTS
  Files,       \* resolved paths of packages (and of the main program)
  Missing,     \* an import path that resolve_import_path cannot find
  Names,       \* package names and import aliases
  Ids,         \* top-level identifiers
  Main,        \* the program given on the command line
  RuntimeFile, IntrinsicsFile,  \* base:runtime, base:intrinsics (or Missing)
  RuntimeName, IntrinsicsName,  \* the names the preludes are registered under
  NoName,      \* a NULL package_name
  NoSym,       \* an identifier absent from a scope
  NoLlvm,      \* symbol->llvm_name == NULL
  NoRef,       \* a declaration whose body refers to nothing
  Programs     \* the programs the model is run on

ImportDecl == [op : {"import", "named", "using"}, path : Files \cup {Missing}, alias : Names]
RefType    == [pkg : Names \cup {NoName}, id : Ids] \cup {NoRef}
ConstDecl  == [op : {"proc", "const"}, id : Ids, priv : BOOLEAN, ref : RefType]
VarDecl    == [op : {"var"}, id : Ids, ref : RefType]
GroupDecl  == [op : {"group"}, id : Ids, priv : BOOLEAN, cands : SUBSET Ids]
DeclType   == ImportDecl \cup ConstDecl \cup VarDecl \cup GroupDecl
SourceType == [clause : Names, ignore : BOOLEAN, parses : BOOLEAN, decls : Seq(DeclType)]

ASSUME ConstantsAssumption ==
  /\ Main \in Files /\ Missing \notin Files
  /\ RuntimeFile \in Files \cup {Missing} /\ IntrinsicsFile \in Files \cup {Missing}
  /\ RuntimeName \in Names /\ IntrinsicsName \in Names /\ NoName \notin Names
  /\ NoSym \notin [val : [file : Files, id : Ids, kind : {"proc", "const", "var", "group", "null"}],
                   priv : BOOLEAN, llvm : (Names \X Ids) \cup {NoLlvm}]
  /\ NoLlvm \notin Names \X Ids
  /\ Programs \subseteq [Files -> SourceType]

VARIABLES
  prog,         \* the sources being compiled (never changes)
  imports,      \* ctx->imports[]
  syms,         \* scope contents; scope 0 is the global scope, i the scope of imports[i]
  scopes,       \* gen_ctx->scopes[0 .. count-1]
  importStack,  \* ctx->import_stack
  regDepth,     \* ctx->import_reg_depth
  pkgName,      \* ctx->package_name
  pending,      \* ctx->pending_bundles
  resolved,     \* resolved_symbol annotations: declaration `at' of scope `from' refers to `id' of scope `to'
  errors,       \* ctx->errors, as the set of what was reported
  buildIgnored, \* ctx->build_ignored
  frames,       \* the C call stack: the main program first
  semOk         \* what sem_analyse returns: "running", "ok" or "failed"

vars == <<prog, imports, syms, scopes, importStack, regDepth, pkgName, pending,
          resolved, errors, buildIgnored, frames, semOk>>

Values  == [file : Files, id : Ids, kind : {"proc", "const", "var", "group", "null"}]
Symbols == [val : Values, priv : BOOLEAN, llvm : (Names \X Ids) \cup {NoLlvm}]
Scope   == [Ids -> Symbols \cup {NoSym}]
\* `by' (the registry index of the importer) and `entered' (whether the passes
\* ran over the package) are history, read by properties only.
Package == [file : Files, name : Names, isUsing : BOOLEAN, direct : BOOLEAN,
            used : BOOLEAN, ignored : BOOLEAN, entered : BOOLEAN,
            prelude : {"none", "runtime", "intrinsics"}, by : Nat]
Stages  == {"enter", "runtime", "intrinsics", "copy", "clause", "pass1", "check",
            "pass2", "return", "track"}
Resolution == [from : Nat, at : Nat, to : Nat, id : Ids]
Report     == [what : {"import", "ref", "group"}, imp : Nat, at : Nat]
Pending    == [imp : Nat, file : Files, at : Nat]
Frame   == [imp : Nat, file : Files, stage : Stages, pc : Nat, savedName : Names \cup {NoName},
            savedPending : Nat, savedCount : Nat,
            how : {"main", "prelude", "import", "named", "using"}, alias : Names]

-----------------------------------------------------------------------------
(* The frame being executed, and the helpers of the C code.                *)

Depth    == Len(frames)
Top      == frames[Depth]
Decls(f) == prog[f.file].decls
AtDecl   == Top.pc <= Len(Decls(Top))
Decl     == Decls(Top)[Top.pc]

\* generator_current_scope
CurrentScope == IF Len(scopes) > 0 THEN scopes[Len(scopes)] ELSE 0

\* frames with the executing frame replaced
Goto(stage)        == [frames EXCEPT ![Depth].stage = stage]
GotoAt(stage, pc)  == [frames EXCEPT ![Depth].stage = stage, ![Depth].pc = pc]
NextDecl           == [frames EXCEPT ![Depth].pc = @ + 1]

Reported(what) == [what |-> what, imp |-> Top.imp, at |-> Top.pc]

EmptyScope == [id \in Ids |-> NoSym]

\* scope_symbols_add_entry: an existing entry only has its value replaced.
AddEntry(scope, id, v) ==
  [scope EXCEPT ![id] = IF @ = NoSym THEN [val |-> v, priv |-> FALSE, llvm |-> NoLlvm]
                                     ELSE [@ EXCEPT !.val = v]]

\* sem_set_symbol_private
SetPrivate(scope, id, p) == IF p /\ scope[id] # NoSym THEN [scope EXCEPT ![id].priv = TRUE] ELSE scope

CopiesPrivateToo(s) == s # NoSym
\* The early return of import_using_copy_symbol.
Exported(s) == s # NoSym /\ s.priv = FALSE

\* import_using_copy_symbol over every entry of a package scope.
CopyUsing(from, to) ==
  [id \in Ids |->
     IF ~ Exported(from[id]) THEN to[id]
     ELSE LET old == AddEntry(to, id, from[id].val)[id]
          IN  IF from[id].llvm = NoLlvm THEN old ELSE [old EXCEPT !.llvm = from[id].llvm]]

\* find_imported_package_by_name: the first registered package of that name.
WithName(n) == {i \in DOMAIN imports : imports[i].name = n}
FindImport(n) == CHOOSE i \in WithName(n) : \A j \in WithName(n) : i <= j

HasPrelude(p) == \E i \in DOMAIN imports : imports[i].prelude = p
RuntimeAt     == CHOOSE i \in DOMAIN imports :
                   imports[i].prelude = "runtime" /\ \A j \in 1 .. i - 1 : imports[j].prelude # "runtime"

NameLeftNull(file) ==
  [file |-> file, name |-> NoName, isUsing |-> FALSE, direct |-> FALSE,
   used |-> FALSE, ignored |-> prog[file].ignore, entered |-> FALSE,
   prelude |-> "none", by |-> Top.imp]
\* parse_imported_path: the package as parse_imported_file leaves it.
Parsed(file) ==
  [file |-> file, name |-> prog[file].clause, isUsing |-> FALSE, direct |-> FALSE,
   used |-> FALSE, ignored |-> prog[file].ignore, entered |-> FALSE,
   prelude |-> "none", by |-> Top.imp]

\* Register a parsed package, push its scope and call the passes on it.
\* `here' is the importer's frame as it resumes after the call.
Analyse(pkg, here, how, alias, stage) ==
  /\ imports' = Append(imports, [pkg EXCEPT !.entered = (stage = "enter")])
  /\ syms' = [s \in 0 .. Len(imports) + 1 |-> IF s = Len(imports) + 1 THEN EmptyScope ELSE syms[s]]
  /\ scopes' = Append(scopes, Len(imports) + 1)
  /\ pkgName' = NoName
  /\ frames' = Append(here, [imp |-> Len(imports) + 1, file |-> pkg.file, stage |-> stage, pc |-> 1,
                             savedName |-> pkgName, savedPending |-> 0, savedCount |-> Len(scopes),
                             how |-> how, alias |-> alias])

-----------------------------------------------------------------------------
(* sem_pass1_register_top_level_ex, up to its loop over the declarations.  *)

\* Only the main file (import_reg_depth == 0) may set build_ignored.
EnterPass1 ==
  /\ Top.stage = "enter"
  /\ buildIgnored' = IF regDepth = 0 THEN prog[Top.file].ignore ELSE buildIgnored
  /\ IF buildIgnored'
       THEN frames' = Goto("return") /\ regDepth' = regDepth
       ELSE /\ frames' = [frames EXCEPT ![Depth].stage = "runtime",
                                        ![Depth].savedPending = Len(pending)]
            /\ regDepth' = regDepth + 1
  /\ UNCHANGED <<prog, imports, syms, scopes, importStack, pkgName, pending, resolved, errors, semOk>>

CanImportPrelude(p, file) ==
  ~ HasPrelude(p) /\ file # Missing /\ prog[file].parses

\* sem_pass1_auto_import_runtime: an implicit `using' import, not on the
\* import stack, and never a direct import.
AutoImportRuntime ==
  /\ Top.stage = "runtime" /\ CanImportPrelude("runtime", RuntimeFile)
  /\ Analyse([Parsed(RuntimeFile) EXCEPT !.prelude = "runtime", !.isUsing = TRUE, !.name = RuntimeName],
             Goto("intrinsics"), "prelude", RuntimeName, "enter")
  /\ UNCHANGED <<prog, importStack, regDepth, pending, resolved, errors, buildIgnored, semOk>>

\* sem_pass1_auto_import_intrinsics: likewise, but referenced qualified.
AutoImportIntrinsics ==
  /\ Top.stage = "intrinsics" /\ CanImportPrelude("intrinsics", IntrinsicsFile)
  /\ Analyse([Parsed(IntrinsicsFile) EXCEPT !.prelude = "intrinsics", !.name = IntrinsicsName],
             Goto("copy"), "prelude", IntrinsicsName, "enter")
  /\ UNCHANGED <<prog, importStack, regDepth, pending, resolved, errors, buildIgnored, semOk>>

SkipPrelude ==
  /\ \/ /\ Top.stage = "runtime" /\ ~ CanImportPrelude("runtime", RuntimeFile)
        /\ frames' = Goto("intrinsics")
     \/ /\ Top.stage = "intrinsics" /\ ~ CanImportPrelude("intrinsics", IntrinsicsFile)
        /\ frames' = Goto("copy")
  /\ UNCHANGED <<prog, imports, syms, scopes, importStack, regDepth, pkgName, pending, resolved,
                 errors, buildIgnored, semOk>>

\* sem_pass1_copy_runtime_symbols: skipped inside the runtime package itself.
CopyRuntimeSymbols ==
  /\ Top.stage = "copy"
  /\ syms' = IF HasPrelude("runtime") /\ CurrentScope # RuntimeAt
               THEN [syms EXCEPT ![CurrentScope] = CopyUsing(syms[RuntimeAt], @)]
               ELSE syms
  /\ frames' = Goto("clause")
  /\ UNCHANGED <<prog, imports, scopes, importStack, regDepth, pkgName, pending, resolved, errors,
                 buildIgnored, semOk>>

\* The package clause branch of sem_pass1_register_top_level_decl.
PackageClause ==
  /\ Top.stage = "clause"
  /\ pkgName' = prog[Top.file].clause
  /\ frames' = GotoAt("pass1", 1)
  /\ UNCHANGED <<prog, imports, syms, scopes, importStack, regDepth, pending, resolved, errors,
                 buildIgnored, semOk>>

-----------------------------------------------------------------------------
(* The three import handlers of pass 1.                                    *)

ImportOps == {"import", "named", "using"}
AtImport  == Top.stage = "pass1" /\ AtDecl /\ Decl.op \in ImportOps
ChecksOnlyParent(p) == Len(importStack) > 0 /\ importStack[Len(importStack)] = p
OnStack(p) == \E k \in DOMAIN importStack : importStack[k] = p

\* resolve_import_path fails, or the file does not parse: an error, and the
\* path is off the stack again when the handler returns.
ImportFails ==
  /\ AtImport
  /\ \/ Decl.path = Missing
     \/ Decl.path \in Files /\ ~ OnStack(Decl.path) /\ ~ prog[Decl.path].parses
  /\ errors' = errors \cup {Reported("import")}
  /\ frames' = NextDecl
  /\ UNCHANGED <<prog, imports, syms, scopes, importStack, regDepth, pkgName, pending, resolved,
                 buildIgnored, semOk>>

RetriesForever ==
  /\ AtImport /\ OnStack(Decl.path)
  /\ UNCHANGED vars
\* import_push_path refuses a path on the stack: a line on stderr, the
\* declaration is skipped and nothing is added to ctx->errors.
ImportCycle ==
  /\ AtImport /\ OnStack(Decl.path)
  /\ frames' = NextDecl
  /\ UNCHANGED <<prog, imports, syms, scopes, importStack, regDepth, pkgName, pending, resolved,
                 errors, buildIgnored, semOk>>

CanImport == AtImport /\ Decl.path \in Files /\ ~ OnStack(Decl.path) /\ prog[Decl.path].parses

CountsFromOne == regDepth <= 2
IsDirect == regDepth = 1

\* sem_pass1_handle_import (import "path").
HandleImport ==
  /\ CanImport /\ Decl.op = "import"
  /\ importStack' = Append(importStack, Decl.path)
  /\ Analyse([Parsed(Decl.path) EXCEPT !.direct = IsDirect],
             NextDecl, "import", Decl.alias, "enter")
  /\ UNCHANGED <<prog, regDepth, pending, resolved, errors, buildIgnored, semOk>>

\* sem_pass1_handle_import_named (import alias "path"): the only handler that
\* skips both passes over a build-ignored package.
HandleImportNamed ==
  /\ CanImport /\ Decl.op = "named"
  /\ importStack' = Append(importStack, Decl.path)
  /\ Analyse([Parsed(Decl.path) EXCEPT !.direct = IsDirect],
             NextDecl, "named", Decl.alias, IF prog[Decl.path].ignore THEN "return" ELSE "enter")
  /\ UNCHANGED <<prog, regDepth, pending, resolved, errors, buildIgnored, semOk>>

\* sem_pass1_handle_import_using (import using "path").
HandleImportUsing ==
  /\ CanImport /\ Decl.op = "using"
  /\ importStack' = Append(importStack, Decl.path)
  /\ Analyse([Parsed(Decl.path) EXCEPT !.direct = IsDirect, !.isUsing = TRUE],
             NextDecl, "using", Decl.alias, "enter")
  /\ UNCHANGED <<prog, regDepth, pending, resolved, errors, buildIgnored, semOk>>

ForgetsName(f)  == pkgName
RestoredName(f) == f.savedName
LeavesScope(f)    == IF f.how = "using" THEN scopes ELSE SubSeq(scopes, 1, f.savedCount)
RestoredScopes(f) == SubSeq(scopes, 1, f.savedCount)
PoppedPath(f) == IF f.how = "prelude" THEN importStack ELSE SubSeq(importStack, 1, Len(importStack) - 1)

\* The tail of the handlers: restore the importer's context, pop the path;
\* a named import takes its alias, a using import copies the exported
\* symbols into the scope that is current again.
ReturnImport ==
  /\ Depth > 1
  /\ Top.stage = "return" \/ (Top.stage = "pass2" /\ ~ AtDecl)
  /\ pkgName' = RestoredName(Top)
  /\ scopes' = RestoredScopes(Top)
  /\ importStack' = PoppedPath(Top)
  /\ imports' = IF Top.how = "named" THEN [imports EXCEPT ![Top.imp].name = Top.alias] ELSE imports
  /\ LET into == IF Len(scopes') > 0 THEN scopes'[Len(scopes')] ELSE 0
     IN  syms' = IF Top.how = "using" THEN [syms EXCEPT ![into] = CopyUsing(syms[Top.imp], @)] ELSE syms
  /\ frames' = SubSeq(frames, 1, Depth - 1)
  /\ UNCHANGED <<prog, regDepth, pending, resolved, errors, buildIgnored, semOk>>

-----------------------------------------------------------------------------
(* The other declarations of pass 1.                                       *)

\* sem_register_top_level_declaration for a procedure (its signature is a
\* type) and for a constant (its type is not known before pass 2).
RegisterDecl ==
  /\ Top.stage = "pass1" /\ AtDecl /\ Decl.op \in {"proc", "const"}
  /\ syms' = [syms EXCEPT ![CurrentScope] =
       SetPrivate(AddEntry(@, Decl.id, [file |-> Top.file, id |-> Decl.id,
                                        kind |-> IF Decl.op = "proc" THEN "proc" ELSE "null"]),
                  Decl.id, Decl.priv)]
  /\ frames' = NextDecl
  /\ UNCHANGED <<prog, imports, scopes, importStack, regDepth, pkgName, pending, resolved, errors,
                 buildIgnored, semOk>>

\* sem_register_top_level_variable
RegisterVar ==
  /\ Top.stage = "pass1" /\ AtDecl /\ Decl.op = "var"
  /\ syms' = [syms EXCEPT ![CurrentScope] =
                 AddEntry(@, Decl.id, [file |-> Top.file, id |-> Decl.id, kind |-> "null"])]
  /\ frames' = NextDecl
  /\ UNCHANGED <<prog, imports, scopes, importStack, regDepth, pkgName, pending, resolved, errors,
                 buildIgnored, semOk>>

\* sem_resolve_overload_bundle: the candidates that are procedures now.
ValidCandidates(d) ==
  {c \in d.cands : syms[CurrentScope][c] # NoSym /\ syms[CurrentScope][c].val.kind = "proc"}

\* The bundle branch of sem_register_top_level_declaration: a bundle with a
\* candidate that is not (yet) a procedure is deferred.
RegisterGroup ==
  /\ Top.stage = "pass1" /\ AtDecl /\ Decl.op = "group"
  /\ LET allOk == ValidCandidates(Decl) = Decl.cands IN
     /\ pending' = IF allOk THEN pending
                    ELSE Append(pending, [imp |-> Top.imp, file |-> Top.file, at |-> Top.pc])
     /\ syms' = [syms EXCEPT ![CurrentScope] =
          SetPrivate(AddEntry(@, Decl.id, [file |-> Top.file, id |-> Decl.id,
                                           kind |-> IF allOk /\ Decl.cands # {} THEN "group" ELSE "null"]),
                     Decl.id, Decl.priv)]
  /\ frames' = NextDecl
  /\ UNCHANGED <<prog, imports, scopes, importStack, regDepth, pkgName, resolved, errors,
                 buildIgnored, semOk>>

ResolvesEverything(f) == 1 .. Len(pending)
\* The entries sem_resolve_pending_bundles(ctx, saved_pending_count) visits.
Deferred(f) == f.savedPending + 1 .. Len(pending)

\* The end of sem_pass1_register_top_level_ex.  A resolved bundle is never a
\* candidate of another, so the order in which they are resolved is immaterial.
EndPass1 ==
  /\ Top.stage = "pass1" /\ ~ AtDecl
  /\ regDepth' = regDepth - 1
  /\ LET decl(k)  == prog[pending[k].file].decls[pending[k].at]
         found(k) == \E j \in Deferred(Top) : decl(j).id = k
         value(id) == [syms[CurrentScope][id] EXCEPT !.val.kind =
                         IF \E j \in Deferred(Top) : decl(j).id = id /\ ValidCandidates(decl(j)) # {}
                           THEN "group" ELSE "null"]
     IN  /\ errors' = errors \cup {[what |-> "group", imp |-> Top.imp, at |-> pending[k].at] :
                                     k \in {j \in Deferred(Top) : ValidCandidates(decl(j)) # decl(j).cands}}
         /\ syms' = [syms EXCEPT ![CurrentScope] =
                        [id \in Ids |-> IF found(id) /\ @[id] # NoSym THEN value(id) ELSE @[id]]]
  /\ pending' = SubSeq(pending, 1, Top.savedPending)
  /\ frames' = IF Depth = 1 THEN Goto("check") ELSE GotoAt("pass2", 1)
  /\ UNCHANGED <<prog, imports, scopes, importStack, pkgName, resolved, buildIgnored, semOk>>

-----------------------------------------------------------------------------
(* Pass 2: the bodies, and what they refer to.                             *)

\* sem_evaluate_postfix_expr and sem_evaluate_identifier.  A name that is the
\* name of ANY registered package, the importer's or not, is a qualifier.
Qualified(r) == r # NoRef /\ r.pkg # NoName
Target(r)    == IF Qualified(r) THEN (IF WithName(r.pkg) = {} THEN NoName ELSE FindImport(r.pkg))
                                ELSE CurrentScope
Resolves(r) ==
  \/ r = NoRef
  \/ /\ Target(r) # NoName
     /\ syms[Target(r)][r.id] # NoSym
     /\ Qualified(r) => syms[Target(r)][r.id].priv = FALSE

\* ... annotate the reference, and mark the package of a qualified one as used.
EvalRef(r) ==
  /\ errors' = IF Resolves(r) THEN errors ELSE errors \cup {Reported("ref")}
  /\ resolved' = IF r = NoRef \/ ~ Resolves(r) THEN resolved
                  ELSE resolved \cup {[from |-> Top.imp, at |-> Top.pc, to |-> Target(r), id |-> r.id]}
  /\ imports' = IF Qualified(r) /\ Target(r) # NoName
                   THEN [imports EXCEPT ![Target(r)].used = TRUE] ELSE imports

\* Import declarations are not looked at again.
SkipImport ==
  /\ Top.stage = "pass2" /\ AtDecl /\ Decl.op \in ImportOps
  /\ frames' = NextDecl
  /\ UNCHANGED <<prog, imports, syms, scopes, importStack, regDepth, pkgName, pending, resolved,
                 errors, buildIgnored, semOk>>

\* The llvm_name of a declaration of an imported package; @(builtin) left out.
Mangle(s, id) ==
  IF importStack # <<>> /\ pkgName # NoName /\ s[id] # NoSym
    THEN [s EXCEPT ![id].llvm = <<pkgName, id>>] ELSE s

\* sem_pass2_analyse_constant_decl for a procedure or a constant.
AnalyseDecl ==
  /\ Top.stage = "pass2" /\ AtDecl /\ Decl.op \in {"proc", "const"}
  /\ EvalRef(Decl.ref)
  /\ syms' = [syms EXCEPT ![CurrentScope] =
       AddEntry(Mangle(@, Decl.id), Decl.id, [file |-> Top.file, id |-> Decl.id, kind |-> Decl.op])]
  /\ frames' = NextDecl
  /\ UNCHANGED <<prog, scopes, importStack, regDepth, pkgName, pending, buildIgnored, semOk>>

\* ... and for an overload bundle, whose candidates are looked up again.
AnalyseGroup ==
  /\ Top.stage = "pass2" /\ AtDecl /\ Decl.op = "group"
  /\ errors' = IF ValidCandidates(Decl) = Decl.cands THEN errors ELSE errors \cup {Reported("group")}
  /\ syms' = [syms EXCEPT ![CurrentScope] =
       AddEntry(Mangle(@, Decl.id), Decl.id,
                [file |-> Top.file, id |-> Decl.id,
                 kind |-> IF ValidCandidates(Decl) # {} THEN "group" ELSE "null"])]
  /\ frames' = NextDecl
  /\ UNCHANGED <<prog, imports, scopes, importStack, regDepth, pkgName, pending, resolved,
                 buildIgnored, semOk>>

\* sem_pass2_analyse_variable_decl of `x : T = init'.
AnalyseVar ==
  /\ Top.stage = "pass2" /\ AtDecl /\ Decl.op = "var"
  /\ EvalRef(Decl.ref)
  /\ syms' = [syms EXCEPT ![CurrentScope] =
                 AddEntry(@, Decl.id, [file |-> Top.file, id |-> Decl.id, kind |-> "var"])]
  /\ frames' = NextDecl
  /\ UNCHANGED <<prog, scopes, importStack, regDepth, pkgName, pending, buildIgnored, semOk>>

-----------------------------------------------------------------------------
(* sem_analyse: the main program.                                          *)

\* After pass 1: errors end the analysis.
CheckPass1 ==
  /\ Top.stage = "check"
  /\ IF errors # {} THEN semOk' = "failed" /\ frames' = Goto("return")
                    ELSE semOk' = semOk /\ frames' = GotoAt("pass2", 1)
  /\ UNCHANGED <<prog, imports, syms, scopes, importStack, regDepth, pkgName, pending, resolved,
                 errors, buildIgnored>>

\* A build-ignored main program succeeds without being analysed.
IgnoredMain ==
  /\ Depth = 1 /\ Top.stage = "return" /\ semOk = "running"
  /\ semOk' = "ok"
  /\ UNCHANGED <<prog, imports, syms, scopes, importStack, regDepth, pkgName, pending, resolved,
                 errors, buildIgnored, frames>>

IgnoresErrors ==
  /\ Depth = 1 /\ Top.stage = "pass2" /\ ~ AtDecl
  /\ semOk' = semOk /\ frames' = GotoAt("track", 1)
  /\ UNCHANGED <<prog, imports, syms, scopes, importStack, regDepth, pkgName, pending, resolved,
                 errors, buildIgnored>>
\* After pass 2, likewise.
CheckPass2 ==
  /\ Depth = 1 /\ Top.stage = "pass2" /\ ~ AtDecl
  /\ IF errors # {} THEN semOk' = "failed" /\ frames' = Goto("return")
                    ELSE semOk' = semOk /\ frames' = GotoAt("track", 1)
  /\ UNCHANGED <<prog, imports, syms, scopes, importStack, regDepth, pkgName, pending, resolved,
                 errors, buildIgnored>>

\* The type_info pointer of a symbol: one procedure type, one scalar type.
TypeOf(v) == CASE v.kind = "proc" -> <<"proc">> [] v.kind \in {"const", "var"} -> <<"int">>
               [] v.kind = "group" -> <<"group", v.file, v.id>> [] OTHER -> <<"NULL">>

\* sem_track_using_import_usage_visitor: the packages an identifier of the
\* main program may mark as used; the first of them is.
Provides(i, id) ==
  LET p == syms[i][id]
      r == syms[0][id]
  IN  /\ imports[i].isUsing /\ ~ imports[i].used /\ imports[i].direct
      /\ r # NoSym /\ p # NoSym /\ p.llvm # NoLlvm /\ r.llvm # NoLlvm
      /\ p.llvm[1] = imports[i].name
      /\ TypeOf(p.val) = TypeOf(r.val)

TracksUsage(d) ==
  d.op \in {"proc", "const", "var"} /\ d.ref # NoRef /\ ~ Qualified(d.ref)

TrackUsage ==
  /\ Top.stage = "track" /\ AtDecl
  /\ imports' =
       IF TracksUsage(Decl) /\ \E i \in DOMAIN imports : Provides(i, Decl.ref.id)
         THEN [imports EXCEPT ![CHOOSE i \in DOMAIN imports :
                                  /\ Provides(i, Decl.ref.id)
                                  /\ \A j \in 1 .. i - 1 : ~ Provides(j, Decl.ref.id)].used = TRUE]
         ELSE imports
  /\ frames' = NextDecl
  /\ UNCHANGED <<prog, syms, scopes, importStack, regDepth, pkgName, pending, resolved, errors,
                 buildIgnored, semOk>>

\* Every import that is not the main program's own is kept.
FinishTrack ==
  /\ Top.stage = "track" /\ ~ AtDecl
  /\ imports' = [i \in DOMAIN imports |->
                    IF imports[i].direct THEN imports[i] ELSE [imports[i] EXCEPT !.used = TRUE]]
  /\ semOk' = "ok"
  /\ frames' = Goto("return")
  /\ UNCHANGED <<prog, syms, scopes, importStack, regDepth, pkgName, pending, resolved, errors,
                 buildIgnored>>

-----------------------------------------------------------------------------
Init ==
  /\ prog \in Programs
  /\ imports = <<>> /\ scopes = <<>> /\ importStack = <<>> /\ pending = <<>>
  /\ syms = [s \in {0} |-> EmptyScope]
  /\ regDepth = 0 /\ pkgName = NoName
  /\ resolved = {} /\ errors = {} /\ buildIgnored = FALSE
  /\ frames = <<[imp |-> 0, file |-> Main, stage |-> "enter", pc |-> 1, savedName |-> NoName,
                 savedPending |-> 0, savedCount |-> 0, how |-> "main", alias |-> RuntimeName]>>
  /\ semOk = "running"

\* The compiler is one sequential process: until sem_analyse returns it takes
\* its next step.
Next ==
  \/ EnterPass1 \/ AutoImportRuntime \/ AutoImportIntrinsics \/ SkipPrelude \/ CopyRuntimeSymbols
  \/ PackageClause \/ ImportFails \/ ImportCycle \/ HandleImport \/ HandleImportNamed
  \/ HandleImportUsing \/ ReturnImport \/ RegisterDecl \/ RegisterVar \/ RegisterGroup
  \/ EndPass1 \/ SkipImport \/ AnalyseDecl \/ AnalyseGroup \/ AnalyseVar
  \/ CheckPass1 \/ IgnoredMain \/ CheckPass2 \/ TrackUsage \/ FinishTrack

Spec == Init /\ [][Next]_vars /\ WF_vars(Next)

-----------------------------------------------------------------------------
(* Properties.                                                             *)

\* The type invariant of SemContext and of the registry it keeps.
TypeOK ==
  /\ prog \in [Files -> SourceType]
  /\ imports \in Seq(Package)
  /\ syms \in [0 .. Len(imports) -> Scope]
  /\ scopes \in Seq(1 .. Len(imports))
  /\ importStack \in Seq(Files)
  /\ regDepth \in Nat
  /\ pkgName \in Names \cup {NoName}
  /\ pending \in Seq(Pending)
  /\ resolved \subseteq Resolution
  /\ errors \subseteq Report
  /\ buildIgnored \in BOOLEAN
  /\ frames \in Seq(Frame) /\ frames # <<>>
  /\ semOk \in {"running", "ok", "failed"}

\* Before or after its loop over the declarations a frame counts in
\* import_reg_depth; while its pass 2 runs it no longer does.
Registering(f) == f.stage \in {"runtime", "intrinsics", "copy", "clause", "pass1"}

\* Wherever the recursion stands, the saved and restored context is that of
\* the call stack: scopes[] holds the scope of every package being analysed,
\* innermost last, and only calls in the middle of their pass 1 wait for
\* another one, so import_reg_depth counts them.  A handler that returned
\* without restoring the scopes would make every later symbol of the
\* importer land in the imported package.
ScopesMatchCalls ==
  /\ Len(scopes) = Depth - 1
  /\ \A k \in DOMAIN scopes : scopes[k] = frames[k + 1].imp
  /\ \A k \in 1 .. Depth - 1 : Registering(frames[k])
  /\ regDepth = (IF Registering(Top) THEN Depth ELSE Depth - 1)

\* The recursion of the import handlers is cut at cycles: no path is on the
\* import stack twice, whatever packages import each other.
NoPathTwice ==
  \A j, k \in DOMAIN importStack : importStack[j] = importStack[k] => j = k

\* is_direct_import is set exactly for the packages the main program itself
\* declares an import of, although import_reg_depth is shared by all calls.
DirectIffDeclaredByMain ==
  \A i \in DOMAIN imports : imports[i].direct <=> (imports[i].by = 0 /\ imports[i].prelude = "none")

DeclaredPrivate(v) ==
  \E k \in DOMAIN prog[v.file].decls :
    LET d == prog[v.file].decls[k]
    IN  d.op \in {"proc", "const", "group"} /\ d.id = v.id /\ d.priv
FileOf(s) == IF s = 0 THEN Main ELSE imports[s].file

\* A @private declaration is never visible outside its package: no other
\* scope holds it, however using imports chain, and no other package's
\* reference was resolved to it.
PrivateNeverEscapes ==
  /\ \A s \in DOMAIN syms, id \in Ids :
       syms[s][id] # NoSym /\ DeclaredPrivate(syms[s][id].val) => syms[s][id].val.file = FileOf(s)
  /\ \A r \in resolved :
       r.from # r.to => ~ DeclaredPrivate([file |-> FileOf(r.to), id |-> r.id])

\* Overload bundles deferred while a package is registered are resolved in
\* that package's scope: those above the snapshot of the running call are its
\* own, those below belong to calls that wait for it; none is left over.
PendingStayHome ==
  /\ Registering(Top) => \A k \in Deferred(Top) : pending[k].imp = Top.imp
  /\ ~ Registering(Top) /\ Depth = 1 => pending = <<>>
  /\ \A k \in DOMAIN pending : \E n \in DOMAIN frames : frames[n].imp = pending[k].imp
\* So when the bodies of a package are analysed, each of its bundles with a
\* procedure among its candidates has its type, also when the bundle is
\* declared before its candidates.
BundlesStayHome ==
  /\ PendingStayHome
  /\ Top.stage = "pass2" =>
       \A k \in DOMAIN Decls(Top) :
         LET d == Decls(Top)[k]
         IN  d.op = "group" /\ ValidCandidates(d) # {} => syms[CurrentScope][d.id].val.kind = "group"

Finished(i) == \A n \in DOMAIN frames : frames[n].imp # i

\* The procedures and constants of an imported package are mangled with the
\* name of that package, not with the name of a package imported by it or of
\* one whose symbol of that name a using import had copied there before.
MangledWithOwnName ==
  \A i \in DOMAIN imports, id \in Ids :
    Finished(i) /\ imports[i].prelude = "none" /\ syms[i][id] # NoSym
      /\ syms[i][id].val.file = imports[i].file /\ syms[i][id].val.kind \in {"proc", "const", "group"}
    => syms[i][id].llvm = <<prog[imports[i].file].clause, id>>

\* A program is accepted only when every reference of every analysed package
\* was resolved, to a package the generator keeps.
AcceptedMeansResolved ==
  semOk = "ok" /\ ~ buildIgnored =>
    \A s \in DOMAIN syms : \A k \in DOMAIN prog[FileOf(s)].decls :
      LET d == prog[FileOf(s)].decls[k]
      IN  d.op \in {"proc", "const", "var"} /\ d.ref # NoRef /\ (s = 0 \/ imports[s].entered) =>
            \E r \in resolved : /\ r.from = s /\ r.at = k /\ r.id = d.ref.id
                                /\ Qualified(d.ref) => imports[r.to].used

\* The analysis of every program ends, cyclic imports included.
Terminates == <>(semOk # "running")

=============================================================================
