----------------------------- MODULE Polymorphism -----------------------------
(***************************************************************************)
(* Instantiation and generation of polymorphic procedures.                 *)
(*                                                                         *)
(* The analyser walks the plain procedures in order.  A call of a          *)
(* polymorphic one (poly_resolve_call) binds the $ names, looks the        *)
(* mangled name up in the specialization cache and, when it is new,        *)
(* analyses the callee's own AST with the bindings pushed: there is one    *)
(* AST per procedure, so what the analyser notes in it (the symbol a call  *)
(* resolves to, the arm a `when` selects) is what the last instantiation   *)
(* noted.  Specializations queue up in the order their bodies end; the IR  *)
(* generator emits the plain procedures and then drains the queue.         *)
(*                                                                         *)
(* A procedure is [poly, params, returns, where, body].  A statement is    *)
(* [k, id, callees, bundle, args, decl, conds, arms]: "call" calls its     *)
(* only callee, or resolves the overload bundle of its callees; decl is    *)
(* the type of the declaration the call initialises; "when" has one arm    *)
(* per condition, and one more for its else.                               *)
(***************************************************************************)
EXTENDS PolyBinding, Functions

CONSTANTS Procs,     \* procedure name -> procedure, the library
          Main,      \* the name of the entry procedure, analysed last
          Plain,     \* the plain procedures of the library, in declaration order
          Bodies,    \* the bodies the entry procedure may have
          Nodes      \* the statements of the program with each of these bodies

\* A program is a syntax tree: the statements of its bodies and of the arms of
\* their `when`s are nodes, a call names procedures of the library, and an id is
\* that of one node.
ASSUME ProgramAssumption ==
    /\ Main \notin DOMAIN Procs
    /\ Plain \in Seq(DOMAIN Procs)
    /\ \A p \in DOMAIN Procs :
         /\ Procs[p].poly \in BOOLEAN /\ (~Procs[p].poly => p \in Range(Plain))
         /\ Len(Procs[p].params) \in Nat
         /\ \A i \in 1 .. Len(Procs[p].params) :
              /\ Procs[p].params[i].form \in {"decl", "variadic", "value"}
              /\ Len(Procs[p].params[i].pat.wraps) \in Nat
    /\ \A b \in Bodies :
         /\ b \in Seq(Nodes[b])
         /\ \A p \in DOMAIN Procs : Procs[p].body \in Seq(Nodes[b])
         /\ \A s \in Nodes[b] :
              /\ s.arms \in Seq(Seq(Nodes[b])) /\ Len(s.conds) \in 0 .. Len(s.arms)
              /\ DOMAIN s.conds = 1 .. Len(s.conds)
              /\ s.k = "call" => s.callees \in Seq(DOMAIN Procs) /\ s.callees # <<>>
              /\ s.bundle \in BOOLEAN
              /\ \A r \in Nodes[b] : r.id = s.id => r = s

VARIABLES body,      \* the entry procedure's body
          todo,      \* plain procedures still to analyse, then to generate
          frames,    \* the procedure bodies under analysis, innermost last
          envs,      \* poly_env_stack
          instantiating,  \* currently_instantiating
          expected,  \* poly_expected_return_type
          cache,     \* the mangled names in the specialization cache
          pending,   \* pending_specializations
          called,    \* call statement -> resolved_symbol on its AST node
          selected,  \* when statement -> poly_when_selections
          errors,    \* number of errors reported and not taken back
          phase,
          gen,       \* the body being generated
          built,     \* function name -> the functions its body calls
          drained    \* pending specializations already generated

vars == <<body, todo, frames, envs, instantiating, expected, cache, pending, called,
          selected, errors, phase, gen, built, drained>>

analysis == <<envs, instantiating, expected, cache, pending, called, selected, errors>>
output   == <<gen, built, drained>>

-----------------------------------------------------------------------------
Proc(p) == IF p = Main THEN [poly |-> FALSE, params |-> <<>>, returns |-> <<>>,
                             where |-> <<>>, body |-> body]
           ELSE Procs[p]

PlainName(p) == [proc |-> p, args |-> <<>>]
None == PlainName("")

Top == frames[Len(frames)]
Below == Front(frames)
WithTop(f) == Append(Below, f)

\* The statement under analysis, and a frame at the start of a body
Now == Head(Top.rest)
Frame(p, name, prev) ==
    [proc |-> p, name |-> name, rest |-> Proc(p).body, prev |-> prev,
     busy |-> FALSE, args |-> <<>>, tries |-> <<>>, hits |-> <<>>, saved |-> Nothing,
     arms |-> <<>>, calls |-> <<>>]

\* A table with one entry set: an annotation of a node, the body of a function
Noted(table, key, value) == [k \in {key} \cup DOMAIN table |-> IF k = key THEN value ELSE table[k]]

Init ==
    /\ body \in Bodies
    /\ todo = Append(Plain, Main)
    /\ frames = <<>> /\ envs = <<>>
    /\ instantiating = FALSE
    /\ expected = Nothing
    /\ cache = {} /\ pending = <<>>
    /\ called = <<>> /\ selected = <<>>
    /\ errors = 0
    /\ phase = "analyse"
    /\ gen = Nothing /\ built = <<>> /\ drained = 0

-----------------------------------------------------------------------------
(* Semantic analysis *)

\* sem_analyse_procedure_literal from the package's second pass; a polymorphic
\* procedure is left for its calls
AnalyseProc ==
    /\ phase = "analyse" /\ frames = <<>> /\ todo # <<>>
    /\ frames' = IF ~instantiating /\ Proc(Head(todo)).poly THEN <<>>
                 ELSE <<Frame(Head(todo), PlainName(Head(todo)), instantiating)>>
    /\ todo' = Tail(todo)
    /\ UNCHANGED <<body, phase, analysis, output>>

Idle(k) == phase = "analyse" /\ frames # <<>> /\ ~Top.busy /\ Top.rest # <<>> /\ Now.k = k

\* The elements of a sequence that are in a set
Kept(s, S) ==
    LET kept[i \in 0 .. Len(s)] ==
          IF i = 0 THEN <<>> ELSE IF s[i] \in S THEN Append(kept[i - 1], s[i]) ELSE kept[i - 1]
    IN  kept[Len(s)]

PolyProcs  == {p \in DOMAIN Procs : Procs[p].poly}
PlainProcs == {p \in DOMAIN Procs : ~Procs[p].poly}

\* The plain procedures whose parameters are the arguments' types
Matching(args) ==
    {p \in PlainProcs : /\ Len(Procs[p].params) = Len(args)
                        /\ \A i \in DOMAIN args : args[i] = Resolve(Procs[p].params[i].pat, envs)}

\* The type of the declaration a call initialises is the expected one meanwhile
Expected ==
    LET want == IF Now.decl = Nothing THEN Nothing ELSE Resolve(Now.decl[1], envs)
    IN  IF want = Nothing THEN expected ELSE want

\* The arguments are typed, and the callees to try are known: a plain match of a
\* bundle leaves none
StartCall ==
    /\ Idle("call")
    /\ LET args  == [i \in DOMAIN Now.args |-> Resolve(Now.args[i], envs)]
           plain == Kept(Now.callees, IF Now.bundle THEN Matching(args) ELSE PlainProcs)
       IN  /\ expected' = Expected
           /\ frames' = WithTop([Top EXCEPT
                  !.busy = TRUE, !.args = args, !.saved = expected,
                  !.hits = [i \in DOMAIN plain |-> PlainName(plain[i])],
                  !.tries = IF plain # <<>> THEN <<>>
                            ELSE Kept(Now.callees, PolyProcs)])
    /\ UNCHANGED <<body, todo, envs, instantiating, cache, pending, called, selected,
                   errors, phase, output>>

Trying == phase = "analyse" /\ frames # <<>> /\ Top.busy /\ Top.tries # <<>>
Callee == Head(Top.tries)
NewEnv == CallEnv(Proc(Callee), Top.args, expected)
NewName == MangledName(Callee, NewEnv)

\* An attempt that takes back errors it did not report
MissedTakesBack(reported) == errors - reported

\* What a callee that cannot be specialized costs: a bundle takes back the errors
\* of the attempt, a direct call reports it
Missed(reported) == IF Now.bundle THEN errors ELSE errors + reported

NextTry == [Top EXCEPT !.tries = Tail(@)]

\* No $ name could be bound
CannotBind ==
    /\ Trying /\ NewEnv = <<>>
    /\ frames' = WithTop(NextTry)
    /\ errors' = Missed(2)
    /\ UNCHANGED <<body, todo, envs, instantiating, expected, cache, pending, called,
                   selected, phase, output>>

\* poly_cache_lookup
Cached(name) == name \in cache

CacheHit ==
    /\ Trying /\ NewEnv # <<>> /\ Cached(NewName)
    /\ frames' = WithTop([NextTry EXCEPT !.hits = Append(@, NewName)])
    /\ UNCHANGED <<body, todo, phase, analysis, output>>

\* The early return that forgets poly_env_pop
RefusedKeepsEnv == [envs |-> Append(envs, NewEnv), flag |-> instantiating]

\* The environment and the flag while the where clause is evaluated, and what is
\* left of them when it does not hold
Entered == Append(envs, NewEnv)
Refused == [envs |-> Front(Entered), flag |-> instantiating]

WhereRefuses ==
    /\ Trying /\ NewEnv # <<>> /\ ~Cached(NewName)
    /\ ~WhereHolds(Proc(Callee).where, Entered)
    /\ envs' = Refused.envs /\ instantiating' = Refused.flag
    /\ frames' = WithTop(NextTry)
    /\ errors' = Missed(1)
    /\ UNCHANGED <<body, todo, expected, cache, pending, called, selected, phase, output>>

\* The callee's body is analysed with the environment pushed
Instantiate ==
    /\ Trying /\ NewEnv # <<>> /\ ~Cached(NewName)
    /\ WhereHolds(Proc(Callee).where, Entered)
    /\ envs' = Entered
    /\ instantiating' = TRUE
    /\ frames' = Append(frames, Frame(Callee, NewName, instantiating))
    /\ UNCHANGED <<body, todo, expected, cache, pending, called, selected, errors, phase, output>>

\* The integer slots poly_resolve_call saves for the IR generator before the
\* environment is popped
Ints(env) == SelectSeq(env, LAMBDA s : s.kind = "int")

\* The body is done: environment popped, flag restored, specialization queued and
\* cached, and the caller has its answer
FinishInstance ==
    /\ phase = "analyse" /\ Len(frames) > 1 /\ Top.rest = <<>>
    /\ envs' = Front(envs)
    /\ instantiating' = Top.prev
    /\ pending' = Append(pending, [proc |-> Top.proc, name |-> Top.name, env |-> Last(envs),
                                   around |-> Front(envs), ints |-> Ints(Last(envs)),
                                   args |-> Last(Below).args, arms |-> Top.arms,
                                   calls |-> Top.calls])
    /\ cache' = cache \cup {Top.name}
    /\ frames' = Append(Front(Below),
                        [Last(Below) EXCEPT !.tries = Tail(@), !.hits = Append(@, Top.name)])
    /\ UNCHANGED <<body, todo, expected, called, selected, errors, phase, output>>

FinishPlain ==
    /\ phase = "analyse" /\ Len(frames) = 1 /\ Top.rest = <<>>
    /\ frames' = <<>>
    /\ UNCHANGED <<body, todo, phase, analysis, output>>

\* One match is the callee the node is annotated with; none or several is an error
\* of a bundle, and the declaration's type is expected no longer
FinishCall ==
    /\ phase = "analyse" /\ frames # <<>> /\ Top.busy /\ Top.tries = <<>>
    /\ LET one == Len(Top.hits) = 1
       IN  /\ called' = IF one THEN Noted(called, Now.id, Top.hits[1]) ELSE called
           /\ errors' = IF Now.bundle /\ ~one THEN errors + 1 ELSE errors
           /\ frames' = WithTop([Top EXCEPT !.busy = FALSE, !.rest = Tail(@),
                                            !.calls = IF one THEN Append(@, Top.hits[1]) ELSE @])
    /\ expected' = Top.saved
    /\ UNCHANGED <<body, todo, envs, instantiating, cache, pending, selected, phase, output>>

\* sem_analyse_when: the first condition that is not 0; one without a value is an
\* error and selects nothing
ChosenArm(values, else) ==
    LET stop == {i \in DOMAIN values : values[i] # Num(0)}
        first == CHOOSE i \in stop : \A j \in stop : i <= j
    IN  IF stop = {} THEN else
        ELSE IF values[first] = Failed THEN 0 ELSE first

ElseArm(s) == IF Len(s.arms) > Len(s.conds) THEN Len(s.arms) ELSE 0

SelectArm ==
    /\ Idle("when")
    /\ LET values == [i \in DOMAIN Now.conds |-> Eval(Now.conds[i], envs)]
           arm    == ChosenArm(values, ElseArm(Now))
           bad    == arm = 0 /\ \E i \in DOMAIN values : values[i] = Failed
       IN  /\ selected' = Noted(selected, Now.id, arm)
           /\ errors' = IF bad THEN errors + 1 ELSE errors
           /\ frames' = WithTop([Top EXCEPT
                  !.rest = (IF arm = 0 THEN <<>> ELSE Now.arms[arm]) \o Tail(@),
                  !.arms = Append(@, <<Now.id, arm>>)])
    /\ UNCHANGED <<body, todo, envs, instantiating, expected, cache, pending, called, phase, output>>

\* main: code is generated only for a program without errors
EndAnalysis ==
    /\ phase = "analyse" /\ frames = <<>> /\ todo = <<>>
    /\ phase' = IF errors = 0 THEN "generate" ELSE "rejected"
    /\ todo' = Append(Plain, Main)
    /\ UNCHANGED <<body, frames, analysis, output>>

-----------------------------------------------------------------------------
(* Code generation *)

Generating(rest) == [name |-> rest.name, rest |-> rest.body, ints |-> rest.ints,
                     calls |-> <<>>, arms |-> <<>>]

\* ir_gen_process_ast: the plain procedures; a polymorphic one has no code
GeneratePlain ==
    /\ phase = "generate" /\ gen = Nothing /\ todo # <<>>
    /\ gen' = IF Proc(Head(todo)).poly THEN Nothing
              ELSE Some(Generating([name |-> PlainName(Head(todo)),
                                    body |-> Proc(Head(todo)).body, ints |-> <<>>]))
    /\ todo' = Tail(todo)
    /\ UNCHANGED <<body, frames, phase, analysis, built, drained>>

\* A drain that takes any function made from the procedure for this one
GenerateSpecOnce ==
    /\ phase = "generate" /\ gen = Nothing /\ todo = <<>> /\ drained < Len(pending)
    /\ LET spec == pending[drained + 1]
       IN  gen' = IF \E f \in DOMAIN built : f.proc = spec.proc THEN Nothing
                  ELSE Some(Generating([name |-> spec.name, body |-> Procs[spec.proc].body,
                                        ints |-> spec.ints]))
    /\ drained' = drained + 1
    /\ UNCHANGED <<body, todo, frames, phase, analysis, built>>

\* ir_gen_pending_specialization on the next of the queue: its own integers, the
\* shared body, and nothing at all if the function has one already
GenerateSpec ==
    /\ phase = "generate" /\ gen = Nothing /\ todo = <<>> /\ drained < Len(pending)
    /\ LET spec == pending[drained + 1]
       IN  gen' = IF spec.name \in DOMAIN built THEN Nothing
                  ELSE Some(Generating([name |-> spec.name, body |-> Procs[spec.proc].body,
                                        ints |-> spec.ints]))
    /\ drained' = drained + 1
    /\ UNCHANGED <<body, todo, frames, phase, analysis, built>>

Emitting(k) == phase = "generate" /\ gen # Nothing /\ gen[1].rest # <<>> /\ Head(gen[1].rest).k = k

\* ir_gen_postfix_resolve_callee: the symbol on the node; without one, a plain
\* procedure is found by its name and anything else is an error
CalleeOf(s) ==
    IF s.id \in DOMAIN called THEN called[s.id]
    ELSE IF s.bundle \/ Proc(s.callees[1]).poly THEN None
    ELSE PlainName(s.callees[1])

EmitCall ==
    /\ Emitting("call")
    /\ gen' = Some([gen[1] EXCEPT !.rest = Tail(@), !.calls = Append(@, CalleeOf(Head(gen[1].rest)))])
    /\ UNCHANGED <<body, todo, frames, phase, analysis, built, drained>>

\* ir_gen_evaluate_constant_int: numbers, the specialization's integers and the
\* operators but for the logical ones; Nothing is "not ok"
IrStep(op, a, b) ==
    IF op \in {"and", "or"} \/ a = Nothing \/ b = Nothing THEN Nothing
    ELSE Operate(op, a[1], b[1])

IrLeaf(tok, ints) ==
    IF tok.op \in {"num", "name"} /\ (tok.op = "num" \/ LookupInt(<<ints>>, tok.type.name) # Nothing)
    THEN LeafValue(tok, <<ints>>) ELSE Nothing

IrEval(cond, ints) ==
    Last(FoldLeft(LAMBDA stack, tok :
                      Push(stack, tok, IF Arity(tok) = 0 THEN IrLeaf(tok, ints)
                                       ELSE IrStep(tok.op, FirstOperand(stack, tok), Last(stack))),
                  <<>>, cond))

\* poly_get_when_selection; 0 if the analyser selected nothing
Selection(s) == IF s.id \in DOMAIN selected THEN selected[s.id] ELSE 0

\* A generator that trusts the analyser's last selection
LastSelection(s, ints) == Selection(s)

\* ir_gen_when_statement: the first condition known not to be 0, even past one
\* that is not known; then the analyser's selection, if some are not known
EmittedArm(s, ints) ==
    LET values == [i \in DOMAIN s.conds |-> IrEval(s.conds[i], ints)]
        true   == {i \in DOMAIN values : values[i] \notin {Nothing, Some(Num(0))}}
    IN  IF true # {} THEN CHOOSE i \in true : \A j \in true : i <= j
        ELSE IF \A i \in DOMAIN values : values[i] # Nothing THEN ElseArm(s)
        ELSE Selection(s)

EmitWhen ==
    /\ Emitting("when")
    /\ LET s == Head(gen[1].rest)  arm == EmittedArm(s, gen[1].ints)
       IN  gen' = Some([gen[1] EXCEPT
                  !.rest = (IF arm = 0 THEN <<>> ELSE s.arms[arm]) \o Tail(@),
                  !.arms = Append(@, <<s.id, arm>>)])
    /\ UNCHANGED <<body, todo, frames, phase, analysis, built, drained>>

FinishBody ==
    /\ phase = "generate" /\ gen # Nothing /\ gen[1].rest = <<>>
    /\ built' = Noted(built, gen[1].name, [calls |-> gen[1].calls, arms |-> gen[1].arms])
    /\ gen' = Nothing
    /\ UNCHANGED <<body, todo, frames, phase, analysis, drained>>

Callees == UNION {Range(built[f].calls) : f \in DOMAIN built}

EndGeneration ==
    /\ phase = "generate" /\ gen = Nothing /\ todo = <<>> /\ drained = Len(pending)
    /\ phase' = IF None \in Callees THEN "failed" ELSE "done"
    /\ UNCHANGED <<body, todo, frames, analysis, output>>

Ended == phase \in {"rejected", "failed", "done"} /\ UNCHANGED vars

Next ==
    \/ AnalyseProc \/ StartCall \/ CannotBind \/ CacheHit \/ WhereRefuses \/ Instantiate
    \/ FinishInstance \/ FinishPlain \/ FinishCall \/ SelectArm \/ EndAnalysis
    \/ GeneratePlain \/ GenerateSpec \/ EmitCall \/ EmitWhen \/ FinishBody \/ EndGeneration
    \/ Ended

Spec == Init /\ [][Next]_vars

-----------------------------------------------------------------------------
(* Properties *)

Specs == Range(pending)
Known == {s.name : s \in Specs} \cup {PlainName(p) : p \in Range(Plain) \cup {Main}}

\* The state has its shape: environments hold bound or unbound slots, every frame
\* analyses a procedure of the program, and only known functions have bodies.
TypeOK ==
    /\ \A e \in Range(envs) : /\ e # <<>> /\ Len(e) <= MaxEntries
                               /\ \A i \in DOMAIN e : e[i].kind \in {"type", "int"}
    /\ \A f \in Range(frames) : f.proc \in DOMAIN Procs \cup {Main}
    /\ instantiating \in BOOLEAN
    /\ errors \in Nat
    /\ cache = {s.name : s \in Specs}
    /\ DOMAIN built \subseteq Known
    /\ drained \in 0 .. Len(pending)
    /\ phase \in {"analyse", "generate", "rejected", "failed", "done"}

\* The environment stack and the flag follow the bodies under analysis, through
\* refused where clauses, failed bundle candidates and nested instantiations: the
\* i-th instance sees its own bindings on top of those of the instances around it.
EnvMatchesFrames ==
    /\ Len(envs) = IF frames = <<>> THEN 0 ELSE Len(frames) - 1
    /\ \A i \in DOMAIN envs : frames[i + 1].name = MangledName(frames[i + 1].proc, envs[i])
    /\ instantiating = (Len(frames) > 1)

\* A condition's value when "no value" and -1 are told apart
TrueStep(op, a, b) == IF a = Nothing \/ b = Nothing THEN Nothing ELSE Operate(op, a[1], b[1])

TrueValue(cond, env) ==
    Last(FoldLeft(LAMBDA stack, tok :
                      Push(stack, tok, IF Arity(tok) = 0 THEN LeafValue(tok, <<env>>)
                                       ELSE TrueStep(tok.op, FirstOperand(stack, tok), Last(stack))),
                  <<>>, cond))

\* The names a constraint mentions, array sizes included
Mentions(cond) ==
    UNION {LET p == cond[j].type
           IN  (IF p.leaf = "name" THEN {p.name} ELSE {}) \cup
                 ({p.wraps[i].size.var : i \in DOMAIN p.wraps} \ {""})
           : j \in {k \in DOMAIN cond : Arity(cond[k]) = 0}}

\* The kinds of the slots a name has in an environment
Kinds(env, n) == {env[i].kind : i \in SlotsOf(env, n)}

\* The names a specialization binds, and no call around it binds as the other
\* kind: a lookup asks every environment for a slot of its own kind, and a bare
\* name is looked up as an integer before it is as a type.
OwnNames(s) ==
    {s.env[i].name : i \in {j \in DOMAIN s.env :
        \A e \in Range(s.around) : Kinds(e, s.env[j].name) \subseteq Kinds(s.env, s.env[j].name)}}

\* A specialization is queued only if its where clause is true of its own
\* bindings, whatever values the calls around it bound the same names to.  (Not
\* for a name it does not bind, and not if one of them binds a type's name as an
\* integer or an integer's as a type: those answer for it.)
SpecsSatisfyWhere ==
    \A s \in Specs : \A c \in Range(Procs[s.proc].where) :
        Mentions(c) \subseteq OwnNames(s) => TrueValue(c, s.env) \notin {Nothing, Some(Num(0))}

\* Every function the generated code calls has a body: a specialization met while
\* another one's body was analysed, or for a bundle, is in the queue as well.
CalledSpecsGenerated ==
    phase = "done" => Callees \subseteq DOMAIN built

\* What the pattern p asks of the $ names if it is to be the type t
Demand(p, t) ==
    {<<p.wraps[i].size.var, Num(t.wraps[i].n)>> : i \in {j \in DOMAIN p.wraps : p.wraps[j].size.var # ""}}
      \cup (IF p.leaf = "poly" THEN {<<p.name, Id(Under(t, Len(p.wraps))[1])>>} ELSE {})

\* Can p be t at all, sizes written as numbers included?
CanBe(p, t) ==
    /\ Depth(p, t) = Len(p.wraps)
    /\ Under(t, Len(p.wraps)) # Nothing
    /\ \A i \in DOMAIN p.wraps : p.wraps[i].size.var = "" /\ p.wraps[i].k = "array"
                                   => p.wraps[i].size.n = t.wraps[i].n
    /\ p.leaf = "type" => Under(t, Len(p.wraps))[1] = T(p.name)

SlotValue(slot) == IF slot.kind = "int" THEN Num(slot.int)
                   ELSE IF slot.type = Nothing THEN Failed ELSE Id(slot.type[1])

\* If some choice of values turns every parameter into the type of its argument,
\* that is the choice the specialization was made for.  (For parameters written
\* with $ names, one name and one argument each.)
BindingsExplainArguments ==
    \A s \in Specs :
        LET params == Procs[s.proc].params
            all    == UNION {Demand(params[i].pat, s.args[i][1]) : i \in DOMAIN params}
        IN  (/\ Len(params) = Len(s.args)
             /\ \A i \in DOMAIN params : /\ params[i].form = "value" /\ params[i].names = 1
                                         /\ params[i].pat.leaf # "name"
                                         /\ s.args[i] # Nothing
                                         /\ CanBe(params[i].pat, s.args[i][1])
             /\ \A d, e \in all : d[1] = e[1] => d[2] = e[2])
            => \A d \in all : \E i \in SlotsOf(s.env, d[1]) : SlotValue(s.env[i]) = d[2]

\* The specialization a name belongs to, and the conditions of a when
SpecOf(name) == CHOOSE s \in Specs : s.name = name
Integers(s, ints) == \A i \in DOMAIN s.conds : IrEval(s.conds[i], ints) # Nothing

\* A `when` that depends only on $ integers is generated with the arm that was
\* analysed for this very specialization, although the selection noted on the
\* shared AST is that of the last one.
BranchFollowsInteger ==
    gen # Nothing /\ gen[1].name \in cache /\ gen[1].rest # <<>> =>
        LET s == Head(gen[1].rest)
        IN  s.k = "when" /\ Integers(s, gen[1].ints) =>
                <<s.id, EmittedArm(s, gen[1].ints)>> \in Range(SpecOf(gen[1].name).arms)

\* "It was fully resolved during the instantiation semantic pass with the poly env
\* stack active": a specialization calls what its own instantiation resolved.
GeneratedAsAnalysed ==
    \A s \in Specs : s.name \in DOMAIN built => built[s.name].calls = s.calls

===============================================================================
