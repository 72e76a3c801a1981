------------------------- MODULE MCStatementCodegen -------------------------
(***************************************************************************)
(* Procedure bodies: every way of leaving a scope, inside every construct, *)
(* with and without pending defers in the scope and around it.             *)
(***************************************************************************)
EXTENDS StatementCodegen

Block(ss) == [single |-> FALSE, list |-> ss]
Do(s)     == [single |-> TRUE, list |-> <<s>>]
Call(e)  == [op |-> "call", id |-> e]
Defer(e) == [op |-> "defer", id |-> e]
Exit(op) == [op |-> op]
IfParts(t, e) == [op |-> "if", then |-> t, else |-> e]
If(t, e) == IfParts(Block(t), [k \in DOMAIN e |-> Block(e[k])])
IfOnly(t) == If(t, <<>>)
For(h, b)  == [op |-> "for", head |-> h, body |-> b]
Ranged(b)  == [op |-> "range", body |-> b]
Unroll(b)  == [op |-> "unroll", body |-> b, count |-> 2]
Switch(cs, d) == [op |-> "switch", tag |-> TRUE, cases |-> cs, default |-> d]
Nested(b)  == [op |-> "proc", body |-> b]

\* Nothing or a defer of event e.
Maybe(e) == {<<>>, <<Defer(e)>>}
Leaves(ops, e) == {<<Call(e)>>} \cup {<<Exit(op)>> : op \in ops}
Inner(ops) == {d \o x : d \in Maybe("d1"), x \in Leaves(ops, "c1")} \cup {<<Defer("d1"), Defer("d2"), Call("c1")>>}

Conditionals(ops) ==
  {If(t, e) : t \in Inner(ops), e \in {<<>>, <<<<Call("c2")>>>>, <<<<Defer("d3"), Exit("return")>>>>}}
Switches(ops) ==
  {Switch(<<a>> \o b, d) : a \in Inner(ops), b \in {<<>>, <<<<Defer("d4"), Call("c3")>>>>},
                           d \in {<<>>, <<<<Call("c4")>>>>}}
InLoop == {"break", "continue", "return", "orreturn"}
LoopBodies ==
  {d \o <<x, Call("c5")>> : d \in Maybe("d5"), x \in Conditionals(InLoop) \cup Switches({"break", "return", "fallthrough"})}
    \cup Inner(InLoop)
SingleLoops == {For("cond", Block(b)) : b \in LoopBodies} \cup {Ranged(Block(b)) : b \in LoopBodies}
NestedLoops == {For("cond", Block(<<Defer("d6"), Ranged(Block(b)), Call("c6")>>)) : b \in Inner(InLoop)}

\* A turn with an exit on a condition, and perhaps a defer.
Turns(ops) == {d \o <<IfOnly(<<Exit(op)>>), Call("c1")>> : d \in Maybe("d1"), op \in ops}
Unrolled ==
  {Unroll(Block(b)) : b \in Inner(InLoop) \cup Turns(InLoop)}
    \cup {Unroll(Do(s)) : s \in {Call("c1"), Exit("break"), IfOnly(<<Exit("continue")>>)}}
Endless == {For("none", Block(b)) : b \in Turns({"break", "return"}) \cup {<<Exit("break")>>}}
Clauses == {For("clauses", Block(b)) : b \in Inner(InLoop)}
\* The statement after `do': a call, an exit, a statement with scopes of its own.
Singles  == {Call("c1"), Defer("d1"), Exit("break"), Exit("return"), IfOnly(<<Exit("break")>>)}
DoBodies ==
  {For(h, Do(s)) : h \in {"none", "cond", "clauses"}, s \in Singles}
    \cup {Ranged(Do(s)) : s \in Singles}
    \cup {IfParts(Do(s), e) : s \in {Call("c1"), Defer("d1"), Exit("return"), Exit("orreturn")},
                              e \in {<<>>, <<Do(Call("c2"))>>, <<Do(IfOnly(<<Defer("d3"), Exit("return")>>))>>}}
    \cup {For("cond", Block(<<IfParts(Do(Exit(op)), <<Do(Call("c2"))>>), Call("c1")>>)) : op \in InLoop}
\* One loop more than the stack holds.
TooManyLoops == {For("cond", Block(<<Ranged(Block(<<Ranged(Block(b)), Call("c2")>>)), Call("c3")>>)) :
                   b \in Inner({"break", "return"})}
\* fallthrough inside an `if', in an inner default clause, behind an inner switch.
Falling ==
  {Switch(<<d \o <<IfOnly(x \o <<Exit("fallthrough")>>), Call("c1")>>, <<Call("c2")>>>>, e) :
     d \in Maybe("d1"), x \in Maybe("d2"), e \in {<<>>, <<<<Call("c4")>>>>}}
    \cup {Switch(<<d \o <<Switch(cs, <<<<Call("c3")>> \o f>>)>> \o g, <<Call("c2")>>>>, <<>>) :
            d \in Maybe("d1"), cs \in {<<>>, <<<<Call("c1")>>>>},
            f \in {<<>>, <<Exit("fallthrough")>>}, g \in {<<>>, <<Exit("fallthrough")>>}}
Caseless == {Switch(<<>>, d) : d \in {<<>>, <<<<Call("c1")>>>>}}

Around(S) == {d \o <<s, Call("c7")>> : d \in Maybe("d7"), s \in S}

\* The body of the finding.
EarlyReturn     == {<<Defer("d1"), IfOnly(<<Exit("return")>>), Call("c1")>>}
\* continue inside a switch inside a loop.
SwitchInRange   == {<<Ranged(Block(<<Switch(<<<<Exit("continue")>>>>, <<>>), Call("c1")>>))>>}

MCBodies ==
  Around(SingleLoops \cup NestedLoops \cup Conditionals({"return", "orreturn"})
           \cup Switches({"break", "return", "fallthrough"})
           \cup {Nested(b) : b \in Inner({"return"})}
           \cup {[Switch(<<<<Call("c1")>>>>, <<>>) EXCEPT !.tag = FALSE]}
           \cup Unrolled \cup Endless \cup Clauses \cup DoBodies \cup TooManyLoops
           \cup Falling \cup Caseless)
    \cup SwitchInRange

\* Every statement of the bodies, at any depth.
Lists(s) ==
  CASE s.op = "if" -> {s.then.list} \cup {e.list : e \in Range(s.else)}
    [] s.op \in {"for", "range", "unroll"} -> {s.body.list}
    [] s.op = "proc" -> {s.body}
    [] s.op = "switch" -> Range(s.cases) \cup Range(s.default)
    [] OTHER -> {}
AllIn(bs)    == UNION {Range(b) : b \in bs}
WithParts(S) == S \cup AllIn(UNION {Lists(s) : s \in S})
MCStatements == WithParts(WithParts(WithParts(WithParts(AllIn(MCBodies \cup EarlyReturn)))))
=============================================================================
