--------------------------- MODULE MCPolymorphism ---------------------------
(* A library of polymorphic procedures and the programs of a few calls of it. *)
EXTENDS Polymorphism

MCBasic == [int |-> [width |-> 64, float |-> FALSE], f64 |-> [width |-> 64, float |-> TRUE],
            string |-> [width |-> 128, float |-> FALSE]]

\* Types and patterns
Ty(b)   == Leaf("type", b)
Nm(n)   == Leaf("name", n)
Va(n)   == Leaf("poly", n)
Arr(size, p) == Of("array", size, p)
Slice(p) == Of("slice", Size(0), p)
Ptr(p)   == Of("pointer", Size(0), p)
Maybe(p) == Of("maybe", Size(0), p)

\* Parameters, statements, conditions
Val(p)  == [form |-> "value", names |-> 1, pat |-> p]
Pair(p) == [form |-> "value", names |-> 2, pat |-> p]
Decl(n) == [form |-> "decl", names |-> 1, pat |-> Va(n)]
Rest(p) == [form |-> "variadic", names |-> 1, pat |-> p]

Call(id, p, args)   == [k |-> "call", id |-> id, callees |-> <<p>>, bundle |-> FALSE,
                        args |-> args, decl |-> Nothing, conds |-> <<>>, arms |-> <<>>]
InitBy(id, p, args, t) == [Call(id, p, args) EXCEPT !.decl = Some(t)]
Bundle(id, ps, args) == [Call(id, "", args) EXCEPT !.callees = ps, !.bundle = TRUE]
When(id, conds, arms) == [Call(id, "", <<>>) EXCEPT !.k = "when", !.conds = conds, !.arms = arms]

Tok(op)      == [op |-> op, n |-> 0, type |-> Ty("int")]
N(n)         == [op |-> "num", n |-> n, type |-> Ty("int")]
On(op, p)    == [op |-> op, n |-> 0, type |-> p]
Var(v)       == On("name", Nm(v))

Poly(params, returns, where, b) ==
    [poly |-> TRUE, params |-> params, returns |-> returns, where |-> where, body |-> b]
Normal(params, b) == [Poly(params, <<>>, <<>>, b) EXCEPT !.poly = FALSE]

Dispatch == <<"text", "whole", "real">>

MCProcs == [
    text  |-> Normal(<<Val(Ty("string"))>>, <<>>),
    begin |-> Normal(<<>>, <<Call(<<"begin", 1>>, "both", <<Ty("int")>>)>>),
    same  |-> Poly(<<Val(Va("T"))>>, <<Nm("T")>>, <<>>, <<>>),
    whole |-> Poly(<<Val(Va("T"))>>, <<>>,
                   <<<<On("type_is_integer", Nm("T")), On("typeid_of", Nm("T")),
                       On("typeid_of", Ty("string")), Tok("ne"), Tok("and")>>>>, <<>>),
    real  |-> Poly(<<Val(Va("T"))>>, <<>>, <<<<On("type_is_float", Nm("T"))>>>>, <<>>),
    both  |-> Poly(<<Val(Va("T"))>>, <<>>, <<>>,
                   <<Call(<<"both", 1>>, "same", <<Nm("T")>>),
                     When(<<"both", 2>>, <<<<On("type_is_integer", Nm("T"))>>>>,
                          <<<<Call(<<"both", 3>>, "text", <<Ty("string")>>)>>,
                            <<Bundle(<<"both", 4>>, Dispatch, <<Nm("T")>>)>>>>)>>),
    each  |-> Poly(<<Val(Arr(SizeVar("N"), Va("T")))>>, <<>>,
                   <<<<Var("N"), N(2), Tok("sub"), N(2), Tok("lt")>>>>,
                   <<When(<<"each", 1>>, <<<<Var("N"), N(2), Tok("gt")>>>>,
                          <<<<Call(<<"each", 2>>, "same", <<Ptr(Nm("T"))>>)>>,
                            <<Call(<<"each", 3>>, "real", <<Ty("f64")>>)>>>>)>>),
    add   |-> Poly(<<Val(Arr(SizeVar("N"), Va("T"))), Val(Va("T"))>>, <<>>,
                   <<<<On("size_of", Nm("T")), N(8), Tok("eq")>>, <<Var("N"), N(0), Tok("gt")>>>>,
                   <<Call(<<"add", 1>>, "each", <<Arr(SizeVar("N"), Nm("T"))>>)>>),
    spec  |-> Poly(<<Val(SpecType("M", Arr(SizeVar("N"), Va("E"))))>>, <<>>,
                   <<<<On("type_elem_type", Nm("M")), On("name", Nm("E")), Tok("eq")>>>>,
                   <<Call(<<"spec", 1>>, "same", <<Nm("M")>>)>>),
    part  |-> Poly(<<Val(Slice(Va("T"))), Val(Va("U"))>>, <<>>, <<>>,
                   <<Call(<<"part", 1>>, "same", <<Nm("U")>>)>>),
    deep  |-> Poly(<<Val(Arr(SizeVar("N"), Slice(Va("T")))), Val(Ptr(Va("U"))), Val(Va("T"))>>, <<>>,
                   <<<<On("type_is_slice", Nm("U")), Tok("not")>>>>, <<>>),
    mix   |-> Poly(<<Val(Arr(SizeVar("N"), Va("T")))>>, <<>>, <<>>,
                   <<When(<<"mix", 1>>, <<<<On("type_is_integer", Nm("T"))>>, <<Var("N"), N(2), Tok("gt")>>>>,
                          <<<<>>, <<Call(<<"mix", 2>>, "same", <<Nm("T")>>)>>>>)>>),
    differ |-> Poly(<<Val(Va("T")), Val(Va("U"))>>, <<>>, <<<<Var("T"), Var("U"), Tok("ne")>>>>, <<>>),
    rows  |-> Poly(<<Val(Arr(SizeVar("T"), Va("E")))>>, <<>>, <<>>,
                   <<Call(<<"rows", 1>>, "differ", <<Nm("E"), Nm("E")>>)>>),
    given |-> Poly(<<Decl("T"), Val(Nm("T"))>>, <<>>, <<>>, <<>>),
    some  |-> Poly(<<Val(Maybe(Va("T"))), Rest(Va("U"))>>, <<>>, <<>>, <<>>),
    make  |-> Poly(<<>>, <<Va("T")>>, <<>>, <<>>),
    fresh |-> Poly(<<Pair(Va("T"))>>, <<Nm("T")>>, <<>>,
                   <<Call(<<"fresh", 1>>, "make", <<>>)>>)]

MCPlain == <<"text", "whole", "begin">>

Whole  == Ty("int")
Real == Ty("f64")

\* The calls the entry procedure may make: those that alone make a program that is
\* accepted, and those that alone make one that is rejected
Accepted(id) == {
    Call(id, "same", <<Whole>>), Call(id, "same", <<Ptr(Real)>>),
    Call(id, "both", <<Real>>), Call(id, "both", <<Ty("string")>>),
    Call(id, "each", <<Arr(Size(2), Whole)>>), Call(id, "each", <<Arr(Size(3), Whole)>>),
    Call(id, "add", <<Arr(Size(3), Real), Real>>), Call(id, "add", <<Arr(Size(2), Whole), Whole>>),
    Call(id, "spec", <<Arr(Size(3), Ptr(Whole))>>),
    Call(id, "part", <<Slice(Real), Whole>>), Call(id, "part", <<Whole, Real>>),
    Call(id, "deep", <<Arr(Size(2), Slice(Whole)), Ptr(Real), Whole>>),
    Call(id, "mix", <<Arr(Size(3), Whole)>>), Call(id, "mix", <<Arr(Size(3), Real)>>),
    Call(id, "differ", <<Real, Whole>>), Call(id, "rows", <<Arr(Size(3), Whole)>>),
    Call(id, "given", <<Slice(Whole)>>), Call(id, "some", <<Maybe(Whole), Real>>),
    InitBy(id, "make", <<>>, Whole), InitBy(id, "make", <<>>, Slice(Real)),
    InitBy(id, "fresh", <<Whole, Whole>>, Real),
    Bundle(id, Dispatch, <<Ty("string")>>), Bundle(id, Dispatch, <<Whole>>)}
Rejected(id) == {
    Call(id, "whole", <<Real>>), Call(id, "differ", <<Real, Real>>), Call(id, "each", <<Arr(Size(1), Whole)>>), Call(id, "each", <<Whole>>),
    Call(id, "add", <<Arr(Size(2), Ty("string")), Ty("string")>>), Call(id, "spec", <<Slice(Whole)>>),
    Call(id, "deep", <<Arr(Size(2), Slice(Whole)), Ptr(Slice(Real)), Whole>>),
    Call(id, "make", <<>>), Call(id, "fresh", <<Whole, Whole>>),
    Bundle(id, Dispatch, <<Ptr(Whole)>>), Bundle(id, <<"part", "same", "real">>, <<Real>>),
    Bundle(id, <<"each", "same">>, <<Arr(Size(3), Whole)>>)}

\* An accepted call, one of any kind, then one that instantiates others
Nested(id) == {Call(id, "both", <<Real>>), Call(id, "add", <<Arr(Size(3), Real), Real>>)}
MCBodies == {<<a, b, c>> : a \in Accepted(<<"main", 1>>),
                           b \in Accepted(<<"main", 2>>) \cup Rejected(<<"main", 2>>),
                           c \in Nested(<<"main", 3>>)}

\* The statements of a body, those in the arms of its `when`s included.
RECURSIVE Inside(_)
Inside(b) == Range(b) \cup UNION {UNION {Inside(arm) : arm \in Range(s.arms)} : s \in Range(b)}
LibraryNodes == UNION {Inside(MCProcs[p].body) : p \in DOMAIN MCProcs}
MCNodes == [b \in MCBodies |-> LibraryNodes \cup Inside(b)]
=============================================================================
