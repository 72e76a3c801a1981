---------------------------- MODULE LocalScopes ----------------------------
(***************************************************************************)
(* Names in procedure bodies.  A body is walked twice: pass 2 of the       *)
(* analyser pushes and pops scopes, reports duplicate and undeclared       *)
(* names, and leaves a resolved_symbol in every identifier; the generator  *)
(* pushes and pops scopes of its own, looks every identifier up again by   *)
(* name, and uses resolved_symbol only when that finds nothing.  Both use  *)
(* one GeneratorContext, which keeps popped scopes until code generation   *)
(* has ended, because the identifiers point into them.                     *)
(*                                                                         *)
(* A body is a sequence of tokens; an `open' token knows the place of its  *)
(* `close'.  Types, values and the conditions of statements are left out.  *)
(* A `when' is the block it selects, a `for' with a condition an `if'.     *)
(* Every procedure has the odin calling convention, none is polymorphic.   *)
(***************************************************************************)
EXTENDS Naturals, Sequences, FiniteSets

CONSTANTS
  Ids,            \* identifiers, `context' among them
  Context,        \* the identifier `context'
  NoId,           \* no loop variable, parameter or named result
  NoSym,          \* an identifier absent from a scope, or resolved to nothing
  Programs,       \* [globals, code] records
  FirstCapacity,  \* the first capacity of deferred_scopes (64)
  UnrollCount     \* bound: how often an unrolled loop is repeated

ScopeKinds == {"block", "if", "case", "default", "loop", "unroll"}
Loops      == {"loop", "loopdo", "unroll"}
Kinds      == ScopeKinds \cup {"do", "loopdo", "proc"}
Named      == Ids \ {Context}   \* `context' is a reserved word: nothing declares it
TokenType  ==
  [t : {"var"}, id : Named, infer : BOOLEAN] \cup [t : {"const"}, id : Named] \cup [t : {"use", "defer"}, id : Ids]
    \cup [t : {"return", "close"}]
    \cup [t : {"open"}, kind : {"proc"}, id : Named, param : Named \cup {NoId},
          result : Named \cup {NoId}, end : Nat]
    \cup [t : {"open"}, kind : Loops, id : Named \cup {NoId}, param : {NoId}, result : {NoId}, end : Nat]
    \cup [t : {"open"}, kind : Kinds \ (Loops \cup {"proc"}), id : {NoId}, param : {NoId}, result : {NoId}, end : Nat]

\* Every statement ends at a `close', every `close' ends one, and they nest.
WellNested(c) ==
  /\ \A k \in DOMAIN c : c[k].t = "open" =>
       /\ c[k].end \in DOMAIN c /\ k < c[k].end /\ c[c[k].end].t = "close"
       /\ \A j \in DOMAIN c : c[j].t = "open" /\ k < j /\ j < c[k].end => c[j].end < c[k].end
  /\ \A k \in DOMAIN c : c[k].t = "close" => \E j \in DOMAIN c : c[j].t = "open" /\ c[j].end = k
\* The text is one procedure, from its `open' to its `close'.
OneProcedure(c) == c # <<>> /\ c[1].t = "open" /\ c[1].kind = "proc" /\ c[1].end = Len(c)

ASSUME LocalAssumption ==
  /\ Context \in Ids /\ NoId \notin Ids /\ NoSym \notin Nat /\ NoSym \notin [decl : Nat, konst : Nat]
  /\ FirstCapacity \in Nat \ {0} /\ UnrollCount \in Nat \ {0}
  /\ \A p \in Programs : p \in [globals : SUBSET Named, code : Seq(TokenType)] /\ WellNested(p.code) /\ OneProcedure(p.code)

VARIABLES
  globals,   \* what pass 1 has put into the global scope
  code,      \* the procedure, its own `open' and `close' included
  phase,     \* "sem", "gen", "release", "destroy", "done"
  at,        \* the token being walked over
  gc,        \* the GeneratorContext
  symbolOf,  \* node->resolved_symbol of each token, as the scope that holds the symbol
  meant,     \* history: the declaration it stood for when it was resolved
  errors,    \* the tokens an error was reported at
  calls,     \* the generator's recursion: turns left of an unrolled loop, `closed' outside
  depth,     \* ctx->current_scope_depth
  defers,    \* ctx->defer_stack, its order left to StatementCodegen
  closed,    \* the insert block ends with a terminator
  made       \* history: what each identifier generated was bound to

vars == <<globals, code, phase, at, gc, symbolOf, meant, errors, calls, depth, defers, closed, made>>
genVars == <<calls, depth, defers, closed, made>>
semVars == <<symbolOf, meant, errors>>

Token     == code[at]
Opens     == {k \in DOMAIN code : code[k].t = "open"}
Around(u) == {k \in Opens : k < u /\ u <= code[k].end}
Innermost(u) == IF Around(u) = {} THEN 0 ELSE CHOOSE k \in Around(u) : \A j \in Around(u) : j <= k

\* The statements of a case that sem_pass2_analyse_switch_statement takes for
\* expressions: constants and procedures.
Unanalysed(k) ==
  /\ Innermost(k) # 0 /\ code[Innermost(k)].kind = "case"
  /\ code[k].t = "const" \/ (code[k].t = "open" /\ code[k].kind = "proc")

-----------------------------------------------------------------------------
(* GeneratorContext: generator_lists.c, scope.c, scope_lists.c.            *)

NoSymbols   == [id \in Ids |-> NoSym]
NewScope(p) == [parent |-> p, syms |-> NoSymbols, frees |-> 0]

\* generator_current_scope; scope 1 is the global scope.
Current(g) == IF g.scopes = <<>> THEN 1 ELSE g.scopes[Len(g.scopes)]

\* Mutant: every scope hangs below the global one.
ParentIsGlobal(g) == [g EXCEPT !.heap = Append(@, NewScope(1)), !.scopes = Append(@, Len(g.heap) + 1)]
\* generator_push_scope
Pushed(g) == [g EXCEPT !.heap = Append(@, NewScope(Current(g))), !.scopes = Append(@, Len(g.heap) + 1)]

Freed(g, s) == [g EXCEPT !.heap[s].frees = @ + 1]

\* Mutant: a popped scope is freed at once.
FreesAtOnce(g) == {Freed([g EXCEPT !.scopes = SubSeq(@, 1, Len(@) - 1)], g.scopes[Len(g.scopes)])}
\* generator_pop_scope: the scope is kept, unless the list is full and cannot grow.
Popped(g) ==
  IF g.scopes = <<>> THEN {g} ELSE
  LET s    == g.scopes[Len(g.scopes)]
      left == [g EXCEPT !.scopes = SubSeq(@, 1, Len(@) - 1)]
      kept == [left EXCEPT !.deferred = Append(@, s)]
      grown == IF g.capacity = 0 THEN FirstCapacity ELSE 2 * g.capacity
  IN  IF Len(g.deferred) < g.capacity THEN {kept}
      ELSE {[kept EXCEPT !.capacity = grown], [Freed(left, s) EXCEPT !.oom = TRUE]}

\* scope_symbols_add_entry: an entry that exists keeps all but its value.
Added(g, s, id, d) ==
  [g EXCEPT !.heap[s].syms[id] = IF @ = NoSym THEN [decl |-> d, konst |-> 0] ELSE [@ EXCEPT !.decl = d]]
AddedHere(g, id, d) == IF id = NoId THEN g ELSE Added(g, Current(g), id, d)

\* scope_find_symbol_entry from each scope (0 is no scope): up the parents.
FoundFrom(g, id) ==
  LET walk[s \in 0 .. Len(g.heap)] ==
        IF s = 0 \/ g.heap[s].syms[id] # NoSym THEN s ELSE walk[g.heap[s].parent]
  IN  walk
\* generator_find_symbol: the scope the name is found in, or 0.
Find(g, id) == FoundFrom(g, id)[Current(g)]

\* What ir_gen_identifier makes of a symbol: a constant hides its storage.
Meaning(g, s, id) == LET y == g.heap[s].syms[id] IN IF y.konst # 0 THEN y.konst ELSE y.decl

-----------------------------------------------------------------------------
(* The analyser: sem_pass2_node and its statement handlers.                *)

AtSem(t) == phase = "sem" /\ at <= Len(code) /\ Token.t = t

\* sem_pass2_analyse_variable_decl: `:=' of a name the scope has is an error.
SemVar ==
  /\ AtSem("var")
  /\ IF Token.infer /\ gc.heap[Current(gc)].syms[Token.id] # NoSym
       THEN errors' = errors \cup {at} /\ gc' = gc
       ELSE gc' = AddedHere(gc, Token.id, at) /\ errors' = errors
  /\ at' = at + 1
  /\ UNCHANGED <<globals, code, phase, symbolOf, meant, genVars>>

\* sem_pass2_analyse_constant_decl
SemConst ==
  /\ AtSem("const")
  /\ gc' = IF Unanalysed(at) THEN gc ELSE AddedHere(gc, Token.id, at)
  /\ at' = at + 1
  /\ UNCHANGED <<globals, code, phase, semVars, genVars>>

\* sem_evaluate_identifier, in a statement or in a deferred one.
SemUse ==
  /\ AtSem("use") \/ AtSem("defer")
  /\ LET s == Find(gc, Token.id)
     IN  IF s = 0 THEN errors' = errors \cup {at} /\ UNCHANGED <<symbolOf, meant>>
         ELSE /\ symbolOf' = [symbolOf EXCEPT ![at] = s]
              /\ meant' = [meant EXCEPT ![at] = gc.heap[s].syms[Token.id].decl]
              /\ errors' = errors
  /\ at' = at + 1
  /\ UNCHANGED <<globals, code, phase, gc, genVars>>

SemReturn ==
  /\ AtSem("return") /\ at' = at + 1
  /\ UNCHANGED <<globals, code, phase, gc, semVars, genVars>>

\* sem_analyse_procedure_literal: the scope with its context, parameter,
\* named result and own name, which the scope around it gets as well.
ProcScope(g, k) ==
  LET inner == AddedHere(AddedHere(AddedHere(Pushed(g), Context, k), code[k].param, k), code[k].result, k)
  IN  Added(AddedHere(inner, code[k].id, k), Current(g), code[k].id, k)

\* Mutant: the variable is added before the scope is pushed.
LoopVarOutside(g, k) == Pushed(AddedHere(g, code[k].id, k))
\* The scope of any other statement, with the loop variable if there is one.
StmtScope(g, k) == AddedHere(Pushed(g), code[k].id, k)

SemOpen ==
  /\ AtSem("open")
  /\ IF Unanalysed(at)
       THEN at' = Token.end + 1 /\ gc' = gc
       ELSE /\ gc' = IF Token.kind = "proc" THEN ProcScope(gc, at) ELSE StmtScope(gc, at)
            /\ at' = at + 1
  /\ UNCHANGED <<globals, code, phase, semVars, genVars>>

\* After a procedure its name is added once more.
SemClose ==
  /\ AtSem("close")
  /\ LET k == Innermost(at)
     IN  \E g \in Popped(gc) : gc' = IF code[k].kind = "proc" THEN AddedHere(g, code[k].id, k) ELSE g
  /\ at' = at + 1
  /\ UNCHANGED <<globals, code, phase, semVars, genVars>>

\* With errors, or for `check', main goes on to its cleanup.
SemEnd ==
  /\ phase = "sem" /\ at > Len(code)
  /\ at' = 1
  /\ phase' = "destroy" \/ (errors = {} /\ phase' = "gen")
  /\ UNCHANGED <<globals, code, gc, semVars, genVars>>

-----------------------------------------------------------------------------
(* The generator.                                                          *)

AtGen(t) == phase = "gen" /\ at <= Len(code) /\ Token.t = t

\* Mutant: the annotation of the analyser goes first.
ResolvedFirst(g, k, id) ==
  LET s == IF symbolOf[k] # 0 THEN symbolOf[k] ELSE Find(g, id)
  IN  [use |-> k, id |-> id, decl |-> Meaning(g, s, id), dangling |-> g.heap[s].frees > 0]
\* ir_gen_identifier: by name, then through resolved_symbol.
Bound(g, k, id) ==
  LET s == Find(g, id)
  IN  IF s # 0 THEN [use |-> k, id |-> id, decl |-> Meaning(g, s, id), dangling |-> FALSE]
      ELSE [use |-> k, id |-> id, decl |-> Meaning(g, symbolOf[k], id), dangling |-> g.heap[symbolOf[k]].frees > 0]
BoundAll(g, ds) == {Bound(g, x.node, code[x.node].id) : x \in ds}

AtDepth(ds, d)    == {x \in ds : x.depth = d}
NotAtDepth(ds, d) == {x \in ds : x.depth # d}

\* ir_gen_variable_decl
GenVar ==
  /\ AtGen("var")
  /\ gc' = AddedHere(gc, Token.id, at)
  /\ closed' = FALSE /\ at' = at + 1
  /\ UNCHANGED <<globals, code, phase, semVars, calls, depth, defers, made>>

\* ir_gen_nested_procedure_decl of what is no procedure does nothing.
GenConst ==
  /\ AtGen("const") /\ at' = at + 1
  /\ UNCHANGED <<globals, code, phase, gc, semVars, genVars>>

GenUse ==
  /\ AtGen("use")
  /\ made' = made \cup {Bound(gc, at, Token.id)}
  /\ closed' = FALSE /\ at' = at + 1
  /\ UNCHANGED <<globals, code, phase, gc, semVars, calls, depth, defers>>

GenDefer ==
  /\ AtGen("defer")
  /\ defers' = defers \cup {[node |-> at, depth |-> depth]}
  /\ at' = at + 1
  /\ UNCHANGED <<globals, code, phase, gc, semVars, calls, depth, closed, made>>

\* The named result of the procedure around token u, looked up by name.
Result(g, u) ==
  LET procs == {k \in Around(u) : code[k].kind = "proc"}
      p     == CHOOSE k \in procs : \A j \in procs : j <= k
      id    == code[p].result
      s     == Find(g, id)
  IN  IF id = NoId THEN {} ELSE {[use |-> u, id |-> id, decl |-> Meaning(g, s, id), dangling |-> FALSE]}

\* ir_gen_return_statement without values: all defers, then the named result.
GenReturn ==
  /\ AtGen("return")
  /\ made' = made \cup BoundAll(gc, defers) \cup Result(gc, at)
  /\ defers' = {} /\ closed' = TRUE
  /\ at' = at + 1
  /\ UNCHANGED <<globals, code, phase, gc, semVars, calls, depth>>

\* A `context' found in any scope around is overwritten.
ContextSet(g, k) ==
  LET s == Find(g, Context)
  IN  Added(g, IF s = 0 THEN Current(g) ELSE s, Context, k)

\* The scopes of a procedure: one for its signature, one for its body.
GenProcScopes(g, k) ==
  LET sig == AddedHere(AddedHere(Pushed(AddedHere(g, code[k].id, k)), code[k].param, k), code[k].result, k)
  IN  Pushed(ContextSet(sig, k))

\* ir_gen_unrolled_for_range marks the symbol of its variable as a constant.
MarkedConst(g, k) ==
  LET h == AddedHere(g, code[k].id, k) IN [h EXCEPT !.heap[Current(h)].syms[code[k].id].konst = k]

GenOpen ==
  /\ AtGen("open") /\ ~ Unanalysed(at)
  /\ gc' = CASE Token.kind = "proc"   -> GenProcScopes(gc, at)
             [] Token.kind = "loop"   -> Pushed(AddedHere(gc, Token.id, at))
             [] Token.kind = "unroll" -> Pushed(MarkedConst(gc, at))
             [] Token.kind = "loopdo" -> AddedHere(gc, Token.id, at)
             [] Token.kind = "do"     -> gc
             [] OTHER                 -> Pushed(gc)
  /\ depth' = IF Token.kind \in {"do", "loopdo"} THEN depth ELSE depth + 1
  /\ calls' = Append(calls, [again |-> UnrollCount - 1, closed |-> closed])
  /\ closed' = IF Token.kind = "block" THEN closed ELSE FALSE
  /\ at' = at + 1
  /\ UNCHANGED <<globals, code, phase, semVars, defers, made>>

\* A procedure that was not analysed has no type: it is left out.
GenSkip ==
  /\ AtGen("open") /\ Unanalysed(at)
  /\ at' = Token.end + 1
  /\ UNCHANGED <<globals, code, phase, gc, semVars, genVars>>

AtClose(kinds) == AtGen("close") /\ code[Innermost(at)].kind \in kinds
Call == calls[Len(calls)]
Returned == calls' = SubSeq(calls, 1, Len(calls) - 1)

\* `if c do s' and `for x in r do s'
GenCloseDo ==
  /\ AtClose({"do", "loopdo"})
  /\ closed' = FALSE /\ Returned /\ at' = at + 1
  /\ UNCHANGED <<globals, code, phase, gc, semVars, depth, defers, made>>

\* A compound statement or a case: its defers, then its scope.  An unrolled
\* body starts again.
GenClose ==
  /\ AtClose(ScopeKinds)
  /\ LET k    == Innermost(at)
         more == code[k].kind = "unroll" /\ Call.again > 0
         mine == AtDepth(defers, depth)
     IN  /\ made' = made \cup BoundAll(gc, mine)
         /\ \E g \in Popped(gc) : gc' = IF more THEN Pushed(g) ELSE g
         /\ closed' = (code[k].kind = "block" /\ closed /\ mine = {})
         /\ depth' = IF more THEN depth ELSE depth - 1
         /\ at' = IF more THEN k + 1 ELSE at + 1
         /\ IF more THEN calls' = [calls EXCEPT ![Len(calls)].again = @ - 1] ELSE Returned
  /\ defers' = NotAtDepth(defers, depth)
  /\ UNCHANGED <<globals, code, phase, semVars>>

\* The end of a procedure: the body's defers and scope; unless the block is
\* closed, the defers of the depth outside and (not in a nested procedure) the
\* named result; then the scope of the signature.
GenCloseProc ==
  /\ AtClose({"proc"})
  /\ LET mine  == AtDepth(defers, depth)
         rest  == NotAtDepth(defers, depth)
         falls == ~ closed \/ mine # {}
         outer == IF falls THEN AtDepth(rest, depth - 1) ELSE {}
         result(g) == IF falls /\ Innermost(Innermost(at)) = 0 THEN Result(g, at) ELSE {}
     IN  \E g \in Popped(gc) :
           /\ made' = made \cup BoundAll(gc, mine) \cup BoundAll(g, outer) \cup result(g)
           /\ gc' \in Popped(g)
           /\ defers' = IF falls THEN NotAtDepth(rest, depth - 1) ELSE rest
  /\ depth' = depth - 1 /\ closed' = Call.closed /\ Returned /\ at' = at + 1
  /\ UNCHANGED <<globals, code, phase, semVars>>

GenEnd ==
  /\ phase = "gen" /\ at > Len(code)
  /\ phase' = "release" /\ at' = 1
  /\ UNCHANGED <<globals, code, gc, semVars, genVars>>

-----------------------------------------------------------------------------
FreeAll(g, list) ==
  [g EXCEPT !.heap = [s \in DOMAIN g.heap |-> [g.heap[s] EXCEPT
     !.frees = @ + Cardinality({k \in DOMAIN list : list[k] = s})]]]

\* generator_free_deferred_scopes, after code generation.
Release ==
  /\ phase = "release" /\ phase' = "destroy"
  /\ gc' = [FreeAll(gc, gc.deferred) EXCEPT !.deferred = <<>>, !.capacity = 0]
  /\ UNCHANGED <<globals, code, at, semVars, genVars>>

\* generator_context_destroy
Destroy ==
  /\ phase = "destroy" /\ phase' = "done"
  /\ gc' = FreeAll(gc, gc.scopes \o gc.deferred \o <<1>>)
  /\ UNCHANGED <<globals, code, at, semVars, genVars>>

Init ==
  /\ \E p \in Programs : globals = p.globals /\ code = p.code
  /\ phase = "sem" /\ at = 1
  /\ gc = [heap |-> <<[parent |-> 0, frees |-> 0,
                       syms |-> [id \in Ids |-> IF id \in globals THEN [decl |-> 0, konst |-> 0] ELSE NoSym]]>>,
           scopes |-> <<>>, deferred |-> <<>>, capacity |-> 0, oom |-> FALSE]
  /\ symbolOf = [k \in DOMAIN code |-> 0] /\ meant = [k \in DOMAIN code |-> NoSym]
  /\ errors = {} /\ calls = <<>> /\ depth = 0 /\ defers = {} /\ closed = FALSE /\ made = {}

Analyse  == SemVar \/ SemConst \/ SemUse \/ SemReturn \/ SemOpen \/ SemClose \/ SemEnd
Generate == \/ GenVar \/ GenConst \/ GenUse \/ GenDefer \/ GenReturn \/ GenOpen \/ GenSkip
            \/ GenCloseDo \/ GenClose \/ GenCloseProc \/ GenEnd
Next == Analyse \/ Generate \/ Release \/ Destroy
Spec == Init /\ [][Next]_vars

-----------------------------------------------------------------------------
(* Properties.                                                             *)

\* Types; the scopes on the stack are the chain of parents of the current
\* one, all in use, and none of them waits to be freed.
TypeOK ==
  /\ phase \in {"sem", "gen", "release", "destroy", "done"} /\ at \in 1 .. Len(code) + 1
  /\ depth \in Nat /\ closed \in BOOLEAN /\ errors \subseteq DOMAIN code
  /\ \A k \in DOMAIN gc.scopes :
       /\ gc.heap[gc.scopes[k]].frees = 0
       /\ gc.heap[gc.scopes[k]].parent = IF k = 1 THEN 1 ELSE gc.scopes[k - 1]
       /\ \A j \in DOMAIN gc.deferred : gc.deferred[j] # gc.scopes[k]

Declares(k, id) ==
  \/ code[k].t \in {"var", "const"} /\ code[k].id = id
  \/ code[k].t = "open" /\ id \in {code[k].id, code[k].param, code[k].result}
  \/ code[k].t = "open" /\ code[k].kind = "proc" /\ id = Context
\* The statement a declaration is local to: a loop's variable and a
\* procedure's parameters to themselves, anything else to what is around it.
OwnerOf(k, id) ==
  IF code[k].t = "open" /\ ~ (code[k].kind = "proc" /\ code[k].id = id) THEN k ELSE Innermost(k)
Visible(u, id) == {k \in DOMAIN code : k < u /\ k \notin errors /\ Declares(k, id) /\ OwnerOf(k, id) \in Around(u) \cup {0}}
\* The declaration that name id means at token u: the innermost, then the last
\* (a redeclaration reported as an error declares nothing).
Lexical(u, id) ==
  LET V == Visible(u, id)
      before(j, k) == OwnerOf(j, id) < OwnerOf(k, id) \/ (OwnerOf(j, id) = OwnerOf(k, id) /\ j < k)
  IN  IF V # {} THEN CHOOSE k \in V : \A j \in V \ {k} : before(j, k)
      ELSE IF id \in globals THEN 0 ELSE NoSym

HiddenConst(id) == \E k \in DOMAIN code : Declares(k, id) /\ Unanalysed(k)

\* The analyser's scopes implement block structure: each name means its
\* innermost declaration, and a name with none is an error.  (A constant or a
\* procedure declared in a case is not seen.)
AnalyserIsLexical ==
  phase \in {"release", "done"} =>
    \A u \in DOMAIN code :
      code[u].t \in {"use", "defer"} /\ ~ HiddenConst(code[u].id) /\ (\A k \in Around(u) : ~ Unanalysed(k)) =>
        /\ meant[u] = Lexical(u, code[u].id)
        /\ u \in errors <=> meant[u] = NoSym

Declarations(id) == {k \in DOMAIN code : Declares(k, id)} \cup (IF id \in globals THEN {0} ELSE {})
\* Declarations the generator does not put where they belong.
Misplaced(k, id) ==
  \/ code[k].t = "open" /\ code[k].kind \in {"loop", "loopdo", "unroll"}
  \/ code[k].t = "const"
  \/ Innermost(k) # 0 /\ code[Innermost(k)].kind \in {"do", "loopdo"}
  \/ id = Context /\ Innermost(k) # 0
  \/ Unanalysed(k)
ByName(u) == code[u].t = "use"

\* The generator's second resolution gives every name the meaning the
\* analyser checked, for shadowed names too, except when one of the
\* declarations of the name is a loop variable, a constant, in a `do'
\* statement, left out in a case or the context of a nested procedure, or when
\* the name is looked up late (a deferred statement, a named result).  A name with one
\* declaration is right in all these cases as well.
SameBinding ==
  \A b \in made :
    \/ b.decl = IF code[b.use].t \in {"return", "close"}
                  THEN CHOOSE k \in Around(b.use) : /\ code[k].kind = "proc" /\ code[k].result = b.id
                                                    /\ \A j \in Around(b.use) : code[j].kind = "proc" => j <= k
                  ELSE Lexical(b.use, b.id)
    \/ \E j, k \in Declarations(b.id) : j # k /\ (~ ByName(b.use) \/ (k # 0 /\ Misplaced(k, b.id)))

\* A scope is freed once, also when a reallocation failed; the generator
\* never follows a resolved_symbol into a freed scope, unless one failed.
FreedOnceAndLate ==
  /\ \A s \in DOMAIN gc.heap : gc.heap[s].frees <= 1 /\ (phase = "done" => gc.heap[s].frees = 1)
  /\ ~ gc.oom => \A b \in made : ~ b.dangling
=============================================================================
