----------------------------- MODULE PolyBinding -----------------------------
(***************************************************************************)
(* How a polymorphic procedure's $ names get their values at a call        *)
(* (polymorphism.c): the environment built from the argument types, the    *)
(* fallback to the type the surrounding declaration expects, the where     *)
(* clause, and the mangled name that identifies the specialization.        *)
(*                                                                         *)
(* Every type a pattern can take apart has one element type, so a type is  *)
(* a base name under a sequence of wrappers: [3]^int is                    *)
(* [wraps |-> <<array 3, pointer>>, base |-> "int"].  A pattern has the    *)
(* same shape, with $ names, bare names or a concrete base at the leaf and *)
(* $ names or numbers as array sizes.                                      *)
(***************************************************************************)
EXTENDS Integers, Sequences, SequencesExt

CONSTANTS Basic,      \* basic type name -> [width, float]: the bits and the kind
          MaxEntries  \* MAX_POLY_ENV_ENTRIES

ASSUME MaxEntriesAssumption == MaxEntries \in Nat \ {0}

Nothing == <<>>
Some(x) == <<x>>

T(base) == [wraps |-> <<>>, base |-> base]

\* The type under the first i wrappers of t.  A Maybe keeps its inner type in
\* another field than element_type, so taking one apart yields NULL.
Under(t, i) ==
    IF \E j \in 1 .. i : t.wraps[j].k = "maybe" THEN Nothing
    ELSE Some([t EXCEPT !.wraps = SubSeq(t.wraps, i + 1, Len(t.wraps))])

-----------------------------------------------------------------------------
(* The environment: PolyEnvEntry slots in the order the names were met. *)

TypeSlot(name, t) == [name |-> name, kind |-> "type", type |-> t, int |-> 0]
IntSlot(name, n)  == [name |-> name, kind |-> "int", type |-> Nothing, int |-> n]

SlotsOf(env, name) == {i \in DOMAIN env : env[i].name = name}

AddSlot(env, slot) == IF Len(env) < MaxEntries THEN Append(env, slot) ELSE env

\* poly_env_bind_type: a new slot, or the value of an unbound type slot
BindType(env, name, t) ==
    IF SlotsOf(env, name) = {} THEN AddSlot(env, TypeSlot(name, t))
    ELSE [i \in DOMAIN env |->
            IF env[i].name = name /\ env[i].kind = "type" /\ env[i].type = Nothing
            THEN [env[i] EXCEPT !.type = t] ELSE env[i]]

\* poly_env_bind_int: a new slot, or the value of an int slot that is 0
BindInt(env, name, n) ==
    IF SlotsOf(env, name) = {} THEN AddSlot(env, IntSlot(name, n))
    ELSE [i \in DOMAIN env |->
            IF env[i].name = name /\ env[i].kind = "int" /\ env[i].int = 0
            THEN [env[i] EXCEPT !.int = n] ELSE env[i]]

\* poly_env_lookup_type, poly_env_lookup_int: the innermost environment that has
\* a slot of the kind answers, even when that slot is unbound
Answering(envs, name, kind) ==
    {p \in (DOMAIN envs) \X (1 .. MaxEntries) :
        p[2] \in DOMAIN envs[p[1]] /\ envs[p[1]][p[2]].name = name /\ envs[p[1]][p[2]].kind = kind}

Innermost(envs, name, kind) ==
    CHOOSE p \in Answering(envs, name, kind) :
        \A q \in Answering(envs, name, kind) : q[1] < p[1] \/ (q[1] = p[1] /\ p[2] <= q[2])

LookupType(envs, name) ==
    IF Answering(envs, name, "type") = {} THEN Nothing
    ELSE LET p == Innermost(envs, name, "type") IN envs[p[1]][p[2]].type

LookupInt(envs, name) ==
    IF Answering(envs, name, "int") = {} THEN Nothing
    ELSE LET p == Innermost(envs, name, "int") IN Some(envs[p[1]][p[2]].int)

-----------------------------------------------------------------------------
(* Patterns *)

Size(n)     == [var |-> "", n |-> n]
SizeVar(v)  == [var |-> v, n |-> 0]
Leaf(kind, name)   == [wraps |-> <<>>, leaf |-> kind, name |-> name, spec |-> ""]
Of(kind, size, p)  == [p EXCEPT !.wraps = <<[k |-> kind, size |-> size]>> \o p.wraps]
SpecType(name, p)  == [p EXCEPT !.spec = name]       \* $M/pattern

\* The names a pattern writes with a $
Dollars(p) ==
    {p.wraps[i].size.var : i \in DOMAIN p.wraps} \cup {p.spec}
        \cup (IF p.leaf = "poly" THEN {p.name} ELSE {})

\* Does a wrapper of a pattern take apart one of a type?  [N]T accepts vectors,
\* and only a matrix pattern compares its literal size.
Fits(w, v) ==
    \/ w.k = v.k /\ w.k # "matrix"
    \/ w.k = "array" /\ v.k = "vector"
    \/ w.k = "matrix" /\ v.k = "matrix" /\ w.size.n \in {0, v.n}

\* How many leading wrappers of the pattern the type has
Depth(p, t) ==
    LET fit(m) == /\ m <= Len(t.wraps)
                  /\ \A i \in 1 .. m : Fits(p.wraps[i], t.wraps[i])
                  /\ \A i \in 1 .. m - 1 : t.wraps[i].k # "maybe"
    IN  CHOOSE m \in 0 .. Len(p.wraps) : fit(m) /\ \A n \in m + 1 .. Len(p.wraps) : ~fit(n)

\* A $ name met inside an array pattern: a name that has a slot is left alone,
\* but for an int slot that is still 0
MeetInArray(acc, name, first, count, elem) ==
    IF SlotsOf(acc.env, name) # {}
    THEN [acc EXCEPT !.env = BindInt(@, name, count)]
    ELSE IF first THEN [env |-> BindInt(acc.env, name, count), any |-> TRUE]
    ELSE IF elem = Nothing THEN acc
    ELSE [env |-> BindType(acc.env, name, elem), any |-> TRUE]

\* poly_unify_poly_idents_in_type: the sizes on the way down, then the leaf
UnifySizes(p, t, env) ==
    LET met[i \in 0 .. Len(p.wraps)] ==
          IF i = 0 THEN [env |-> env, any |-> FALSE]
          ELSE IF i <= Depth(p, t) /\ p.wraps[i].k = "array" /\ p.wraps[i].size.var # ""
          THEN MeetInArray(met[i - 1], p.wraps[i].size.var, TRUE, t.wraps[i].n, Nothing)
          ELSE met[i - 1]
    IN  met[Len(p.wraps)]

\* A leaf bound to the argument's whole type
UnifyWhole(p, t, acc) ==
    IF p.leaf # "poly" \/ p.wraps = <<>> \/ Depth(p, t) < Len(p.wraps) THEN acc
    ELSE [env |-> BindType(acc.env, p.name, Some(t)), any |-> TRUE]

UnifyLeaf(p, t, acc) ==
    LET d == Len(p.wraps)
    IN  IF p.leaf # "poly" \/ d = 0 \/ Depth(p, t) < d THEN acc
        ELSE IF p.wraps[d].k = "array"
        THEN MeetInArray(acc, p.name, FALSE, t.wraps[d].n, Under(t, d))
        ELSE [env |-> BindType(acc.env, p.name, Under(t, d)), any |-> TRUE]

Unify(p, t, env) ==
    LET met == UnifyLeaf(p, t, UnifySizes(p, t, env))
    IN  IF p.spec # "" /\ met.any THEN BindType(met.env, p.spec, Some(t)) ELSE met.env

-----------------------------------------------------------------------------
(* A parameter is [form, names, pat]: "value" for `a, b: P`, "decl" for     *)
(* `$T: typeid`, "variadic" for `args: ..P`.  An argument is a type or NULL. *)

Arg(args, i) == IF i \in DOMAIN args THEN args[i] ELSE Nothing

\* A type that names a slot still unbound gives it the argument's whole type
BindNamed(env, p, i, args) ==
    IF p.leaf = "name" /\ i \in DOMAIN args /\ SlotsOf(env, p.name) # {}
    THEN BindType(env, p.name, args[i]) ELSE env

BindParam(acc, param, args) ==
    LET i == acc.next  p == param.pat  whole == p.leaf = "poly" /\ p.wraps = <<>> /\ p.spec = ""
    IN  CASE param.form = "decl" ->
               [acc EXCEPT !.env = IF SlotsOf(@, p.name) = {}
                                   THEN AddSlot(@, TypeSlot(p.name, Nothing)) ELSE @]
          [] param.form = "variadic" ->
               [acc EXCEPT !.env = IF whole /\ i \in DOMAIN args /\ SlotsOf(@, p.name) = {}
                                   THEN AddSlot(@, TypeSlot(p.name, args[i])) ELSE @]
          [] param.form = "value" ->
               LET direct == IF whole /\ SlotsOf(acc.env, p.name) = {}
                             THEN AddSlot(acc.env, TypeSlot(p.name, Arg(args, i))) ELSE acc.env
                   named  == BindNamed(direct, p, i, args)
               IN  [env  |-> IF Arg(args, i) = Nothing THEN named ELSE Unify(p, args[i][1], named),
                    next |-> i + param.names]

\* poly_build_env_from_args; an empty environment is a failure
EnvFromArgs(proc, args) ==
    LET bound[i \in 0 .. Len(proc.params)] ==
          IF i = 0 THEN [env |-> <<>>, next |-> 1] ELSE BindParam(bound[i - 1], proc.params[i], args)
    IN  bound[Len(proc.params)].env

\* poly_bind_from_return_type: only when the results write exactly one $ name,
\* and never over a binding
BindFromReturn(proc, env, expected) ==
    LET names == UNION {Dollars(proc.returns[i]) : i \in DOMAIN proc.returns} \ {""}
        name  == CHOOSE n \in names : TRUE
        slots == {i \in SlotsOf(env, name) : env[i].kind = "type"}
    IN  IF expected = Nothing \/ \A n \in names : names # {n} THEN env
        ELSE IF slots = {} THEN AddSlot(env, TypeSlot(name, expected))
        ELSE [i \in DOMAIN env |-> IF i \in slots /\ env[i].type = Nothing
                                   THEN [env[i] EXCEPT !.type = expected] ELSE env[i]]

\* The environment poly_resolve_call ends up with; empty is "failed to build
\* polymorphic environment from arguments"
CallEnv(proc, args, expected) == BindFromReturn(proc, EnvFromArgs(proc, args), expected)

\* poly_make_mangled_name: the procedure and the values, in slot order; the slot
\* names are not part of it and an unbound slot shows as nothing
MangledName(name, env) ==
    [proc |-> name, args |-> [i \in DOMAIN env |-> [type |-> env[i].type, int |-> env[i].int]]]

-----------------------------------------------------------------------------
(* Type expressions and compile-time conditions *)

\* sem_resolve_type_expr on a pattern whose names are resolved innermost first
Resolve(p, envs) ==
    LET leaf == IF p.leaf = "type" THEN Some(T(p.name)) ELSE LookupType(envs, p.name)
        size(w) == IF w.size.var = "" THEN Some(w.size.n) ELSE LookupInt(envs, w.size.var)
    IN  IF leaf = Nothing \/ \E i \in DOMAIN p.wraps : size(p.wraps[i]) = Nothing THEN Nothing
        ELSE Some([wraps |-> [i \in DOMAIN p.wraps |-> [k |-> p.wraps[i].k, n |-> size(p.wraps[i])[1]]]
                             \o leaf[1].wraps,
                   base |-> leaf[1].base])

\* LLVMABISizeOfType in the target's layout, in bytes
SizeOf(t) ==
    FoldRight(LAMBDA w, bytes : CASE w.k \in {"array", "vector"} -> w.n * bytes
                                  [] w.k = "slice" -> 16
                                  [] w.k = "dynamic" -> 24
                                  [] w.k \in {"pointer", "multi"} -> 8
                                  [] OTHER -> 2 * bytes,
              t.wraps, Basic[t.base].width \div 8)

NotIntegers == {"typeid", "string", "cstring", "any"}

KindPredicates == [type_is_array |-> "array", type_is_slice |-> "slice", type_is_pointer |-> "pointer"]

\* The table of intrinsics.type_is_* predicates, one of each sort
Predicate(name, t) ==
    LET plain == t.wraps = <<>>
        integer == /\ plain /\ ~Basic[t.base].float /\ Basic[t.base].width > 1
                   /\ t.base \notin NotIntegers
        float   == plain /\ Basic[t.base].float
    IN  CASE name = "type_is_integer" -> integer
          [] name = "type_is_float"   -> float
          [] name = "type_is_numeric" -> integer \/ float
          [] name = "type_is_string"  -> plain /\ t.base = "string"
          [] name = "type_is_sliceable" -> ~plain /\ t.wraps[1].k \in {"array", "slice", "dynamic"}
          [] OTHER -> ~plain /\ t.wraps[1].k = KindPredicates[name]

(* A condition is the sequence of its tokens in evaluation order (operands   *)
(* before their operator); a value is an integer or the type_id of a type.   *)
Num(n)  == <<"int", n>>
Id(t)   == <<"id", t>>
Truth(b) == Num(IF b THEN 1 ELSE 0)
Failed  == Num(-1)                       \* the C functions' "cannot evaluate"

\* The leaves of poly_eval_where_expr; Nothing where the C code returns -1
\* because there is no value
LeafValue(tok, envs) ==
    LET t == Resolve(tok.type, envs)
        n == LookupInt(envs, tok.type.name)
    IN  CASE tok.op = "num"  -> Some(Num(tok.n))
          [] tok.op = "name" -> IF n # Nothing THEN Some(Num(n[1]))
                                ELSE IF t # Nothing THEN Some(Id(t[1])) ELSE Nothing
          [] t = Nothing -> Nothing
          [] tok.op = "typeid_of" -> Some(Id(t[1]))
          [] tok.op = "size_of"   -> Some(Num(SizeOf(t[1])))
          [] tok.op = "type_elem_type" ->
                IF t[1].wraps = <<>> \/ Under(t[1], 1) = Nothing THEN Nothing
                ELSE Some(Id(Under(t[1], 1)[1]))
          [] OTHER -> Some(Truth(Predicate(tok.op, t[1])))

Unary  == {"not", "neg"}
Binary == {"eq", "ne", "lt", "gt", "le", "ge", "add", "sub", "mul", "div", "and", "or"}

\* Division in C: the quotient without its fraction
Magnitude(n)   == IF n < 0 THEN -n ELSE n
Quotient(a, b) ==
    LET q == Magnitude(a) \div Magnitude(b) IN IF (a < 0) = (b < 0) THEN q ELSE -q

\* The operators on two values, but for %, shifts and bitwise ones; a division by
\* zero has none
Operate(op, a, b) ==
    CASE op = "eq"  -> Some(Truth(a = b))
      [] op = "ne"  -> Some(Truth(a # b))
      [] op = "lt"  -> Some(Truth(a[2] < b[2]))
      [] op = "gt"  -> Some(Truth(a[2] > b[2]))
      [] op = "le"  -> Some(Truth(a[2] <= b[2]))
      [] op = "ge"  -> Some(Truth(a[2] >= b[2]))
      [] op = "mul" -> Some(Num(a[2] * b[2]))
      [] op = "add" -> Some(Num(a[2] + b[2]))
      [] op = "sub" -> Some(Num(a[2] - b[2]))
      [] op = "div" -> IF b[2] = 0 THEN Nothing ELSE Some(Num(Quotient(a[2], b[2])))
      [] op = "and" -> Some(Truth(a # Num(0) /\ b # Num(0)))
      [] op = "or"  -> Some(Truth(a # Num(0) \/ b # Num(0)))
      [] op = "not" -> Some(Truth(a = Num(0)))
      [] op = "neg" -> Some(Num(-a[2]))

OrFailed(v) == IF v = Nothing THEN Failed ELSE v[1]

\* An operator on what the recursion returned for its operands: -1 from either is
\* passed on, whether it means "no value" or is the value -1
Combine(op, a, b) ==
    IF a = Failed \/ b = Failed THEN Failed ELSE OrFailed(Operate(op, a, b))

\* How many of the values on the stack a token takes, the first of them, and the
\* stack with the token's own value in their place
Arity(tok) == IF tok.op \in Binary THEN 2 ELSE IF tok.op \in Unary THEN 1 ELSE 0
FirstOperand(stack, tok) == stack[Len(stack) - Arity(tok) + 1]
Push(stack, tok, value)  == Append(SubSeq(stack, 1, Len(stack) - Arity(tok)), value)

\* poly_eval_where_expr
Eval(cond, envs) ==
    Last(FoldLeft(LAMBDA stack, tok :
                      Push(stack, tok, IF Arity(tok) = 0 THEN OrFailed(LeafValue(tok, envs))
                                       ELSE Combine(tok.op, FirstOperand(stack, tok), Last(stack))),
                  <<>>, cond))

\* A clause that one true constraint satisfies
WhereAny(where, envs) ==
    where = <<>> \/ \E i \in DOMAIN where : Eval(where[i], envs) \notin {Failed, Num(0)}

\* poly_evaluate_where_clause: every constraint has a value, and not 0
WhereHolds(where, envs) ==
    \A i \in DOMAIN where : Eval(where[i], envs) \notin {Failed, Num(0)}

=============================================================================
