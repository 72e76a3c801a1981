--------------------------- MODULE MCLocalScopes ---------------------------
(***************************************************************************)
(* Procedures with one or two nested statements of every kind, declaring   *)
(* and using one name x inside, before and after them.                     *)
(***************************************************************************)
EXTENDS LocalScopes

CONSTANTS x, f, main

Var(i)   == [t |-> "var", id |-> x, infer |-> i]
Const1   == [t |-> "const", id |-> x]
Use(id)  == [t |-> "use", id |-> id]
Defer(id) == [t |-> "defer", id |-> id]
Return   == [t |-> "return"]
Close    == [t |-> "close"]
Open(kind, id, p, r, end) == [t |-> "open", kind |-> kind, id |-> id, param |-> p, result |-> r, end |-> end]

\* body inside a statement that starts at token n.
Stmt(n, kind, body) ==
  LET id == CASE kind \in {"loop", "loopdo", "unroll"} -> x [] kind = "proc" -> f [] OTHER -> NoId
  IN  <<Open(kind, id, NoId, NoId, n + Len(body) + 1)>> \o body \o <<Close>>
Main(result, body) == <<Open("proc", main, NoId, result, Len(body) + 2)>> \o body \o <<Close>>

Simple  == {<<Var(TRUE)>>, <<Var(FALSE)>>, <<Const1>>, <<Use(x)>>, <<Defer(x)>>, <<Return>>}
UpTo1   == Simple \cup {<<>>}
Bodies  == UpTo1 \cup {s \o t : s, t \in Simple}
After   == {<<>>, <<Use(x)>>, <<Use(Context)>>, <<Var(TRUE), Use(x)>>, <<Var(FALSE), Use(x)>>, <<Return>>}
OneKind == Kinds \ {"do", "loopdo"}

One(result, Before) ==
  {Main(result, pre \o Stmt(2 + Len(pre), kind, body) \o post) : pre \in Before, kind \in OneKind, body \in Bodies, post \in After}
    \cup {Main(result, pre \o Stmt(2 + Len(pre), kind, body) \o post) :
            pre \in Before, kind \in {"do", "loopdo"}, body \in Simple, post \in After}
Two ==
  {Main(NoId, pre \o Stmt(2 + Len(pre), k1, <<Var(FALSE)>> \o Stmt(4 + Len(pre), k2, in) \o mid) \o <<Use(x)>>) :
     pre \in {<<>>, <<Var(TRUE)>>, <<Defer(x)>>}, k1 \in OneKind, k2 \in OneKind,
     in \in {<<>>, <<Var(TRUE), Use(x)>>, <<Use(f), Use(Context)>>, <<Defer(x)>>, <<Return>>},
     mid \in {<<>>, <<Use(x)>>, <<Use(Context)>>}}
\* A procedure named x in a nested statement that may be a case, which is then left out.
Named2 ==
  {Main(NoId, pre \o Stmt(2 + Len(pre), k1, <<Open("proc", x, NoId, NoId, 5 + Len(pre)), Use(x), Close, Use(x)>>) \o <<Use(x)>>) :
     pre \in {<<>>, <<Var(TRUE)>>}, k1 \in OneKind}
MCPrograms ==
  [globals : {{}}, code : One(NoId, UpTo1) \cup Two \cup Named2] \cup [globals : {{x}}, code : One(NoId, {<<>>, <<Defer(x)>>})]
    \cup [globals : {{}}, code : One(x, {<<>>, <<Const1>>})]
MCIds == {x, f, main, Context}
=============================================================================
