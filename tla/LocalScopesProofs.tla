------------------------- MODULE LocalScopesProofs -------------------------
(***************************************************************************)
(* Proofs about LocalScopes, for every well-nested program: the scopes are *)
(* a chain and are freed once (IInv), the names the analyser resolves mean *)
(* what block structure says (LexInv), and the generator, which resolves   *)
(* every name again, comes to the same declaration (BindInv).              *)
(***************************************************************************)
EXTENDS LocalScopes, FiniteSetTheorems, SequenceTheorems, WellFoundedInduction, TLAPS

-----------------------------------------------------------------------------
(* The inductive invariant.                                                *)

Sym      == {NoSym} \cup [decl : Nat, konst : Nat]
ScopeRec == [parent : Nat, syms : [Ids -> Sym], frees : Nat]
CtxType  == [heap : Seq(ScopeRec), scopes : Seq(Nat), deferred : Seq(Nat), capacity : Nat, oom : BOOLEAN]

\* The stack is the chain of parents of the current scope, oldest first.
Chain(g) ==
  /\ 1 \in DOMAIN g.heap
  /\ \A s \in DOMAIN g.heap : g.heap[s].parent < s
  /\ \A k \in DOMAIN g.scopes :
       /\ g.scopes[k] \in DOMAIN g.heap /\ g.scopes[k] # 1
       /\ g.heap[g.scopes[k]].parent = IF k = 1 THEN 1 ELSE g.scopes[k - 1]
  /\ \A j, k \in DOMAIN g.scopes : j < k => g.scopes[j] < g.scopes[k]

Listed(g, s) == \/ \E k \in DOMAIN g.scopes : g.scopes[k] = s
                \/ \E k \in DOMAIN g.deferred : g.deferred[k] = s
NoFree(g) == \A s \in DOMAIN g.heap : g.heap[s].frees = 0

\* Every scope but the global one is in use, waits to be freed once, or is freed.
Partition(g) ==
  /\ \A j \in DOMAIN g.deferred : g.deferred[j] \in DOMAIN g.heap /\ g.deferred[j] # 1
  /\ \A j, k \in DOMAIN g.deferred : g.deferred[j] = g.deferred[k] => j = k
  /\ \A j \in DOMAIN g.deferred, k \in DOMAIN g.scopes : g.deferred[j] # g.scopes[k]
  /\ \A s \in DOMAIN g.heap : g.heap[s].frees = IF s = 1 \/ Listed(g, s) THEN 0 ELSE 1

Sound(g) == g \in CtxType /\ Chain(g) /\ Partition(g)

\* The statements around a place, of some kinds.
Encl(c, u)    == {k \in DOMAIN c : c[k].t = "open" /\ k < u /\ u <= c[k].end}
In(c, u, ks)  == {k \in Encl(c, u) : c[k].kind \in ks}
Scoped        == Kinds \ {"do", "loopdo"}

TextInv == /\ code \in Seq(TokenType) /\ WellNested(code)
           /\ at \in 1 .. Len(code) + 1
           /\ errors \subseteq DOMAIN code

CtxInv ==
  /\ phase # "done" => Sound(gc)
  /\ phase \in {"sem", "gen"} /\ ~ gc.oom => NoFree(gc)
  /\ phase = "done" => gc.scopes = <<>> /\ \A s \in DOMAIN gc.heap : gc.heap[s].frees = 1

\* How deep the walk is, seen on the stacks.
DepthInv ==
  /\ depth \in Nat /\ closed \in BOOLEAN
  /\ calls \in Seq([again : Nat, closed : BOOLEAN])
  /\ phase = "sem" => Len(gc.scopes) = Cardinality(Encl(code, at)) /\ depth = 0 /\ calls = <<>>
  /\ phase = "gen" => /\ Len(calls) = Cardinality(Encl(code, at))
                      /\ depth = Cardinality(In(code, at, Scoped))
                      /\ Len(gc.scopes) = depth + Cardinality(In(code, at, {"proc"}))
  /\ phase \notin {"sem", "gen"} => gc.scopes = <<>>

\* A token that is walked over: no procedure around it is left out.
Greatest(S)       == IF S = {} THEN 0 ELSE CHOOSE k \in S : \A j \in S : j <= k
InnerOf(c, u) == Greatest(Encl(c, u))
LeftOut(c, k) ==
  /\ InnerOf(c, k) # 0 /\ c[InnerOf(c, k)].kind = "case"
  /\ c[k].t = "const" \/ (c[k].t = "open" /\ c[k].kind = "proc")
Reached(c, u) == \A j \in Encl(c, u) : ~ LeftOut(c, j)
Names(c) == {k \in DOMAIN c : c[k].t \in {"use", "defer"} /\ Reached(c, k)}

\* The generator meets no identifier that the analyser has not resolved.
ResolvedInv ==
  /\ symbolOf \in [DOMAIN code -> Nat]
  /\ phase \in {"sem", "gen"} =>
       /\ \A k \in DOMAIN code : symbolOf[k] # 0 => symbolOf[k] \in DOMAIN gc.heap
       /\ Reached(code, at)
       /\ \A k \in Names(code) : k < at \/ phase = "gen" => symbolOf[k] # 0 \/ k \in errors
  /\ phase = "gen" => errors = {}
  /\ \A x \in defers : x.node \in Names(code)
  /\ ~ gc.oom => \A b \in made : ~ b.dangling

IInv ==
  /\ phase \in {"sem", "gen", "release", "destroy", "done"}
  /\ TextInv /\ CtxInv /\ DepthInv /\ ResolvedInv

-----------------------------------------------------------------------------
(* The text: statements nest.                                              *)

\* What a token of each kind carries.
LEMMA TokenFields ==
  ASSUME NEW x \in TokenType
  PROVE  /\ x.t \in {"var", "const", "use", "defer", "return", "close", "open"}
         /\ x.t \in {"var", "const", "use", "defer"} => x.id \in Ids
         /\ x.t = "open" => /\ x.kind \in Kinds /\ x.end \in Nat
                            /\ x.id \in Ids \cup {NoId} /\ x.param \in Ids \cup {NoId}
                            /\ x.result \in Ids \cup {NoId}
         /\ x.t = "open" /\ x.kind # "proc" => x.param = NoId /\ x.result = NoId
         /\ x.t = "open" /\ x.kind = "proc" => x.id \in Ids
         /\ x.t = "open" /\ x.kind \notin Loops \cup {"proc"} => x.id = NoId
         /\ x.t \in {"var", "const"} => x.id # Context
         /\ x.t = "open" => x.id # Context /\ x.param # Context /\ x.result # Context
  <1>0. Context \in Ids /\ NoId \notin Ids BY LocalAssumption
  <1>1. CASE x \in [t : {"open"}, kind : {"proc"}, id : Named, param : Named \cup {NoId},
                     result : Named \cup {NoId}, end : Nat]
    BY <1>0, <1>1 DEF Kinds, Named, Loops
  <1>2. CASE x \in [t : {"open"}, kind : Loops, id : Named \cup {NoId}, param : {NoId}, result : {NoId}, end : Nat]
    BY <1>0, <1>2 DEF Kinds, ScopeKinds, Named, Loops
  <1>3. CASE x \in [t : {"open"}, kind : Kinds \ (Loops \cup {"proc"}), id : {NoId}, param : {NoId},
                     result : {NoId}, end : Nat]
    BY <1>0, <1>3
  <1>4. CASE x \in [t : {"var"}, id : Named, infer : BOOLEAN] \cup [t : {"const"}, id : Named]
    BY <1>4 DEF Named
  <1>5. CASE x \in [t : {"use", "defer"}, id : Ids] \cup [t : {"return", "close"}]
    BY <1>5
  <1> QED BY <1>1, <1>2, <1>3, <1>4, <1>5 DEF TokenType

\* A statement's end lies in the text, after its start and at a `close'.
LEMMA EndFacts ==
  ASSUME NEW c \in Seq(TokenType), WellNested(c), NEW k \in DOMAIN c, c[k].t = "open"
  PROVE  /\ k \in Nat /\ k >= 1 /\ k <= Len(c)
         /\ c[k].end \in Nat /\ c[k].end \in DOMAIN c /\ k < c[k].end /\ c[k].end <= Len(c)
         /\ c[c[k].end].t = "close"
  BY DEF WellNested

LEMMA NestFact ==
  ASSUME NEW c \in Seq(TokenType), WellNested(c), NEW k \in DOMAIN c, NEW j \in DOMAIN c,
         c[k].t = "open", c[j].t = "open", k < j, j < c[k].end
  PROVE  c[j].end < c[k].end
  BY DEF WellNested

\* Two statements do not end together.
LEMMA EndsDiffer ==
  ASSUME NEW c \in Seq(TokenType), WellNested(c), NEW k \in DOMAIN c, NEW j \in DOMAIN c,
         c[k].t = "open", c[j].t = "open", c[j].end = c[k].end
  PROVE  j = k
  <1>1. k \in Nat /\ j \in Nat /\ k < c[k].end /\ j < c[j].end BY EndFacts
  <1>2. ~ (k < j) BY <1>1, NestFact, EndFacts
  <1>3. ~ (j < k) BY <1>1, NestFact, EndFacts
  <1> QED BY <1>1, <1>2, <1>3

LEMMA EnclFinite ==
  ASSUME NEW c \in Seq(TokenType), NEW u, NEW ks
  PROVE  /\ IsFiniteSet(Encl(c, u)) /\ Cardinality(Encl(c, u)) \in Nat
         /\ IsFiniteSet(In(c, u, ks)) /\ Cardinality(In(c, u, ks)) \in Nat
  <1>1. DOMAIN c = 1 .. Len(c) /\ Len(c) \in Nat OBVIOUS
  <1>2. IsFiniteSet(DOMAIN c) BY <1>1, FS_Interval
  <1>3. Encl(c, u) \subseteq DOMAIN c /\ In(c, u, ks) \subseteq DOMAIN c BY DEF Encl, In
  <1>4. IsFiniteSet(Encl(c, u)) /\ IsFiniteSet(In(c, u, ks)) BY <1>2, <1>3, FS_Subset
  <1> QED BY <1>4, FS_CardinalityType

\* Nothing is around the first token, or the end of the text.
LEMMA EnclEnds ==
  ASSUME NEW c \in Seq(TokenType), WellNested(c)
  PROVE  /\ Encl(c, 1) = {} /\ Encl(c, Len(c) + 1) = {}
         /\ \A ks : In(c, 1, ks) = {} /\ In(c, Len(c) + 1, ks) = {}
  <1>1. Encl(c, 1) = {}
    <2> SUFFICES ASSUME NEW k \in Encl(c, 1) PROVE FALSE OBVIOUS
    <2>1. k \in DOMAIN c /\ k < 1 BY DEF Encl
    <2> QED BY <2>1
  <1>2. Encl(c, Len(c) + 1) = {}
    <2> SUFFICES ASSUME NEW k \in Encl(c, Len(c) + 1) PROVE FALSE OBVIOUS
    <2>1. k \in DOMAIN c /\ c[k].t = "open" /\ Len(c) + 1 <= c[k].end BY DEF Encl
    <2>2. c[k].end \in Nat /\ c[k].end <= Len(c) BY <2>1, EndFacts
    <2> QED BY <2>1, <2>2
  <1> QED BY <1>1, <1>2 DEF In

\* Walking into a statement.
LEMMA EnclOpen ==
  ASSUME NEW c \in Seq(TokenType), WellNested(c), NEW u \in DOMAIN c, c[u].t = "open"
  PROVE  Encl(c, u + 1) = Encl(c, u) \cup {u} /\ u \notin Encl(c, u)
  <1>0. u \in Nat /\ u < c[u].end /\ c[u].end \in Nat BY EndFacts
  <1>1. ASSUME NEW k \in DOMAIN c, c[k].t = "open"
        PROVE  (k < u + 1 /\ u + 1 <= c[k].end) <=> ((k < u /\ u <= c[k].end) \/ k = u)
    <2>1. k \in Nat /\ c[k].end \in Nat /\ k < c[k].end /\ c[c[k].end].t = "close" BY <1>1, EndFacts
    <2>2. c[k].end # u BY <2>1
    <2> QED BY <1>0, <2>1, <2>2
  <1> QED BY <1>0, <1>1 DEF Encl

\* Walking over a token that neither starts nor ends a statement.
LEMMA EnclStay ==
  ASSUME NEW c \in Seq(TokenType), WellNested(c), NEW u \in DOMAIN c, c[u].t \notin {"open", "close"}
  PROVE  Encl(c, u + 1) = Encl(c, u)
  <1>0. u \in Nat OBVIOUS
  <1>1. ASSUME NEW k \in DOMAIN c, c[k].t = "open"
        PROVE  (k < u + 1 /\ u + 1 <= c[k].end) <=> (k < u /\ u <= c[k].end)
    <2>1. k \in Nat /\ c[k].end \in Nat /\ c[c[k].end].t = "close" BY <1>1, EndFacts
    <2>2. c[k].end # u /\ k # u BY <2>1, <1>1
    <2> QED BY <1>0, <2>1, <2>2
  <1> QED BY <1>1 DEF Encl

\* Walking past a whole statement.
LEMMA EnclSkip ==
  ASSUME NEW c \in Seq(TokenType), WellNested(c), NEW u \in DOMAIN c, c[u].t = "open"
  PROVE  Encl(c, c[u].end + 1) = Encl(c, u)
  <1>0. u \in Nat /\ u < c[u].end /\ c[u].end \in Nat /\ c[c[u].end].t = "close" BY EndFacts
  <1>1. ASSUME NEW k \in DOMAIN c, c[k].t = "open"
        PROVE  (k < c[u].end + 1 /\ c[u].end + 1 <= c[k].end) <=> (k < u /\ u <= c[k].end)
    <2>1. k \in Nat /\ c[k].end \in Nat /\ c[c[k].end].t = "close" /\ k < c[k].end BY <1>1, EndFacts
    <2>2. c[k].end # u /\ k # c[u].end BY <2>1, <1>0, <1>1
    <2>3. k < u /\ u < c[k].end => c[u].end < c[k].end BY <1>1, NestFact
    <2>4. u < k /\ k < c[u].end => c[k].end < c[u].end BY <1>1, NestFact
    <2> QED BY <1>0, <2>1, <2>2, <2>3, <2>4
  <1> QED BY <1>1 DEF Encl

\* The statement that a `close' ends is the innermost around it.
LEMMA EnclClose ==
  ASSUME NEW c \in Seq(TokenType), WellNested(c), NEW u \in DOMAIN c, c[u].t = "close"
  PROVE  \E k \in DOMAIN c :
           /\ c[k].t = "open" /\ c[k].end = u /\ k \in Encl(c, u) /\ k < u
           /\ \A j \in Encl(c, u) : j <= k
           /\ Encl(c, u + 1) = Encl(c, u) \ {k}
           /\ Encl(c, u) = Encl(c, k) \cup {k} /\ k \notin Encl(c, k)
  <1>0. PICK k \in DOMAIN c : c[k].t = "open" /\ c[k].end = u BY DEF WellNested
  <1>1. u \in Nat /\ k \in Nat /\ k < u BY <1>0, EndFacts
  <1>2. k \in Encl(c, u) BY <1>0, <1>1 DEF Encl
  <1>3. ASSUME NEW j \in Encl(c, u) PROVE j <= k
    <2>1. j \in DOMAIN c /\ c[j].t = "open" /\ u <= c[j].end /\ j < u BY DEF Encl
    <2>2. j \in Nat /\ c[j].end \in Nat BY <2>1, EndFacts
    <2>3. k < j => c[j].end < c[k].end BY <2>1, <1>0, NestFact
    <2> QED BY <1>0, <1>1, <2>1, <2>2, <2>3
  <1>4. Encl(c, u + 1) = Encl(c, u) \ {k}
    <2>1. ASSUME NEW j \in DOMAIN c, c[j].t = "open"
          PROVE  (j < u + 1 /\ u + 1 <= c[j].end) <=> (j < u /\ u <= c[j].end /\ j # k)
      <3>1. j \in Nat /\ c[j].end \in Nat /\ j # u BY <2>1, EndFacts
      <3>2. c[j].end = u => j = k BY <1>0, <2>1, EndsDiffer
      <3> QED BY <1>0, <1>1, <3>1, <3>2
    <2> QED BY <2>1 DEF Encl
  <1>5. Encl(c, u) = Encl(c, k) \cup {k} /\ k \notin Encl(c, k)
    <2>1. k \notin Encl(c, k) BY <1>1 DEF Encl
    <2>2. ASSUME NEW j \in Encl(c, u), j # k PROVE j \in Encl(c, k)
      <3>1. j \in DOMAIN c /\ c[j].t = "open" /\ u <= c[j].end /\ j <= k BY <1>3 DEF Encl
      <3>2. j \in Nat /\ c[j].end \in Nat BY <3>1, EndFacts
      <3> QED BY <1>1, <2>2, <3>1, <3>2 DEF Encl
    <2>3. ASSUME NEW j \in Encl(c, k) PROVE j \in Encl(c, u)
      <3>1. j \in DOMAIN c /\ c[j].t = "open" /\ k <= c[j].end /\ j < k BY DEF Encl
      <3>2. j \in Nat /\ c[j].end \in Nat /\ c[c[j].end].t = "close" BY <3>1, EndFacts
      <3>3. c[j].end # k BY <3>2, <1>0
      <3>4. c[k].end < c[j].end BY <1>0, <1>1, <3>1, <3>2, <3>3, NestFact
      <3> QED BY <1>0, <1>1, <3>1, <3>2, <3>4 DEF Encl
    <2> QED BY <1>2, <2>1, <2>2, <2>3
  <1> QED BY <1>0, <1>1, <1>2, <1>3, <1>4, <1>5

-----------------------------------------------------------------------------
(* The context: what its operations keep.                                  *)

\* The same scopes in the same lists; the names in them may differ.
SameShape(g, h) ==
  /\ h \in CtxType
  /\ h.scopes = g.scopes /\ h.deferred = g.deferred /\ h.oom = g.oom
  /\ Len(h.heap) = Len(g.heap) /\ DOMAIN h.heap = DOMAIN g.heap
  /\ \A s \in DOMAIN g.heap : h.heap[s].parent = g.heap[s].parent /\ h.heap[s].frees = g.heap[s].frees

LEMMA SameShapeKeeps ==
  ASSUME NEW g, NEW h, SameShape(g, h)
  PROVE  /\ Sound(g) => Sound(h)
         /\ NoFree(g) => NoFree(h)
         /\ Current(h) = Current(g)
  <1>1. Chain(g) => Chain(h) BY DEF SameShape, Chain
  <1>2. Partition(g) => Partition(h) BY DEF SameShape, Partition, Listed
  <1>3. NoFree(g) => NoFree(h) BY DEF SameShape, NoFree
  <1>4. Current(h) = Current(g) BY DEF SameShape, Current
  <1> QED BY <1>1, <1>2, <1>3, <1>4 DEF Sound, SameShape

LEMMA SameShapeTrans ==
  ASSUME NEW g, NEW h, NEW i, SameShape(g, h), SameShape(h, i)
  PROVE  SameShape(g, i)
  BY DEF SameShape

LEMMA SameShapeRefl == ASSUME NEW g \in CtxType PROVE SameShape(g, g)
  BY DEF SameShape

LEMMA CtxFields ==
  ASSUME NEW g \in CtxType
  PROVE  /\ g.heap \in Seq(ScopeRec) /\ g.scopes \in Seq(Nat) /\ g.deferred \in Seq(Nat)
         /\ g.capacity \in Nat /\ g.oom \in BOOLEAN
         /\ DOMAIN g.heap = 1 .. Len(g.heap) /\ Len(g.heap) \in Nat
  BY DEF CtxType

\* The current scope is a scope.
LEMMA CurrentScope ==
  ASSUME NEW g, Sound(g)
  PROVE  Current(g) \in DOMAIN g.heap /\ Current(g) \in Nat /\ Current(g) # 0
  <1>1. g \in CtxType BY DEF Sound
  <1>2. DOMAIN g.heap = 1 .. Len(g.heap) /\ g.scopes \in Seq(Nat) BY <1>1, CtxFields
  <1>3. CASE g.scopes = <<>> BY <1>2, <1>3 DEF Current, Sound, Chain
  <1>4. CASE g.scopes # <<>>
    <2>1. Len(g.scopes) \in DOMAIN g.scopes BY <1>2, <1>4
    <2> QED BY <1>2, <1>4, <2>1 DEF Current, Sound, Chain
  <1> QED BY <1>3, <1>4

\* Adding a name changes no scope but the names of one.
LEMMA AddedShape ==
  ASSUME NEW g \in CtxType, NEW s \in DOMAIN g.heap, NEW id \in Ids \cup {NoId}, NEW d \in Nat
  PROVE  SameShape(g, Added(g, s, id, d))
  <1>1. PICK y : y = [g.heap[s].syms EXCEPT ![id] =
                        IF @ = NoSym THEN [decl |-> d, konst |-> 0] ELSE [@ EXCEPT !.decl = d]]
    OBVIOUS
  <1>2. g.heap \in Seq(ScopeRec) /\ g.heap[s] \in ScopeRec BY CtxFields
  <1>3. g.heap[s].syms \in [Ids -> Sym] BY <1>2 DEF ScopeRec
  <1>4. y \in [Ids -> Sym] BY <1>1, <1>3 DEF Sym
  <1>5. PICK x : x = [g.heap[s] EXCEPT !.syms = y] OBVIOUS
  <1>6. x \in ScopeRec /\ x.parent = g.heap[s].parent /\ x.frees = g.heap[s].frees
    BY <1>2, <1>4, <1>5 DEF ScopeRec
  <1>7. PICK p : p = [g.heap EXCEPT ![s] = x] OBVIOUS
  <1>8. /\ p \in Seq(ScopeRec) /\ Len(p) = Len(g.heap) /\ DOMAIN p = DOMAIN g.heap
        /\ \A z \in DOMAIN g.heap : p[z].parent = g.heap[z].parent /\ p[z].frees = g.heap[z].frees
    BY <1>2, <1>6, <1>7
  <1>9. Added(g, s, id, d) = [g EXCEPT !.heap = p] BY <1>1, <1>5, <1>7 DEF Added
  <1>10. PICK h : h = Added(g, s, id, d) OBVIOUS
  <1>11. /\ h \in CtxType /\ h.heap = p /\ h.scopes = g.scopes /\ h.deferred = g.deferred /\ h.oom = g.oom
    BY <1>8, <1>9, <1>10 DEF CtxType
  <1> QED BY <1>8, <1>10, <1>11 DEF SameShape

LEMMA AddedHereShape ==
  ASSUME NEW g, Sound(g), NEW id \in Ids \cup {NoId}, NEW d \in Nat
  PROVE  SameShape(g, AddedHere(g, id, d)) /\ Sound(AddedHere(g, id, d))
  <1>1. g \in CtxType BY DEF Sound
  <1>2. Current(g) \in DOMAIN g.heap BY CurrentScope
  <1>3. SameShape(g, g) BY <1>1, SameShapeRefl
  <1>4. SameShape(g, AddedHere(g, id, d)) BY <1>1, <1>2, <1>3, AddedShape DEF AddedHere
  <1> QED BY <1>4, SameShapeKeeps

LEMMA LastAppended ==
  ASSUME NEW z \in Seq(Nat), NEW n \in Nat, NEW y, y = Append(z, n)
  PROVE  y # <<>> /\ y[Len(y)] = n
  <1>1. Len(y) = Len(z) + 1 /\ Len(z) \in Nat /\ y \in Seq(Nat) OBVIOUS
  <1>2. y[Len(z) + 1] = n OBVIOUS
  <1> QED BY <1>1, <1>2

\* A new scope below the current one.
LEMMA PushedFacts ==
  ASSUME NEW g, Sound(g)
  PROVE  /\ Sound(Pushed(g))
         /\ NoFree(g) => NoFree(Pushed(g))
         /\ Pushed(g).oom = g.oom
         /\ Len(Pushed(g).scopes) = Len(g.scopes) + 1
         /\ Pushed(g).scopes = Append(g.scopes, Len(g.heap) + 1)
         /\ Len(Pushed(g).heap) = Len(g.heap) + 1
         /\ Pushed(g).heap = Append(g.heap, NewScope(Current(g)))
  <1>0. g \in CtxType BY DEF Sound
  <1>1. /\ g.heap \in Seq(ScopeRec) /\ g.scopes \in Seq(Nat) /\ g.deferred \in Seq(Nat)
        /\ DOMAIN g.heap = 1 .. Len(g.heap) /\ Len(g.heap) \in Nat
        /\ \A j \in DOMAIN g.deferred : g.deferred[j] \in Nat
    BY <1>0, CtxFields
  <1>2. Current(g) \in DOMAIN g.heap /\ Current(g) \in Nat BY CurrentScope
  <1>3. PICK n : n = Len(g.heap) + 1 OBVIOUS
  <1>4. PICK x : x = NewScope(Current(g)) OBVIOUS
  <1>5. x \in ScopeRec /\ x.parent = Current(g) /\ x.frees = 0
    BY <1>2, <1>4 DEF NewScope, NoSymbols, ScopeRec, Sym
  <1>6. PICK p : p = Append(g.heap, x) OBVIOUS
  <1>7. /\ p \in Seq(ScopeRec) /\ Len(p) = n /\ DOMAIN p = 1 .. n /\ p[n] = x /\ n \in Nat /\ n \in DOMAIN p
        /\ \A s \in DOMAIN g.heap : p[s] = g.heap[s] /\ s # n /\ s < n /\ s \in DOMAIN p
        /\ \A s \in DOMAIN p : s = n \/ s \in DOMAIN g.heap
    BY <1>1, <1>3, <1>5, <1>6
  <1>8. PICK q : q = Append(g.scopes, n) OBVIOUS
  <1>9. PICK m : m = Len(g.scopes) OBVIOUS
  <1>10. /\ q \in Seq(Nat) /\ Len(q) = m + 1 /\ DOMAIN q = 1 .. m + 1 /\ q[m + 1] = n
         /\ m \in Nat /\ DOMAIN g.scopes = 1 .. m
         /\ \A k \in DOMAIN g.scopes : q[k] = g.scopes[k] /\ k # m + 1 /\ k < m + 1 /\ k \in DOMAIN q
         /\ \A k \in DOMAIN q : k = m + 1 \/ k \in DOMAIN g.scopes
    BY <1>1, <1>7, <1>8, <1>9
  <1>11. Pushed(g) = [g EXCEPT !.heap = p, !.scopes = q] BY <1>3, <1>4, <1>6, <1>8 DEF Pushed
  <1>12. PICK h : h = Pushed(g) OBVIOUS
  <1>13. /\ h \in CtxType /\ h.heap = p /\ h.scopes = q /\ h.deferred = g.deferred /\ h.oom = g.oom
    BY <1>0, <1>7, <1>10, <1>11, <1>12 DEF CtxType
  <1>14. Current(g) = IF m = 0 THEN 1 ELSE g.scopes[m]
    BY <1>1, <1>9, <1>10 DEF Current
  <1>15. Chain(h)
    <2>1. 1 \in DOMAIN p BY <1>7, <1>2, <1>1
    <2>2. \A s \in DOMAIN p : p[s].parent < s
      <3>1. Current(g) < n BY <1>2, <1>7
      <3> QED BY <3>1, <1>5, <1>7 DEF Sound, Chain
    <2>3. ASSUME NEW k \in DOMAIN q
          PROVE  /\ q[k] \in DOMAIN p /\ q[k] # 1
                 /\ p[q[k]].parent = IF k = 1 THEN 1 ELSE q[k - 1]
      <3>1. CASE k = m + 1
        <4>1. q[k] = n /\ p[n] = x /\ n \in DOMAIN p BY <3>1, <1>7, <1>10
        <4>2. n # 1 BY <1>1, <1>2, <1>3
        <4>3. CASE m = 0 BY <3>1, <4>1, <4>2, <4>3, <1>5, <1>14
        <4>4. CASE m # 0
          <5>1. k # 1 /\ k - 1 = m /\ m \in DOMAIN g.scopes BY <3>1, <4>4, <1>10
          <5> QED BY <5>1, <4>1, <4>2, <4>4, <1>5, <1>10, <1>14
        <4> QED BY <4>3, <4>4
      <3>2. CASE k \in DOMAIN g.scopes
        <4>1. /\ g.scopes[k] \in DOMAIN g.heap /\ g.scopes[k] # 1
              /\ g.heap[g.scopes[k]].parent = IF k = 1 THEN 1 ELSE g.scopes[k - 1]
          BY <3>2 DEF Sound, Chain
        <4>2. k # 1 => k - 1 \in DOMAIN g.scopes BY <3>2, <1>10
        <4> QED BY <3>2, <4>1, <4>2, <1>7, <1>10
      <3> QED BY <3>1, <3>2, <1>10
    <2>4. ASSUME NEW j \in DOMAIN q, NEW k \in DOMAIN q, j < k PROVE q[j] < q[k]
      <3>1. CASE k = m + 1
        <4>1. j \in DOMAIN g.scopes BY <3>1, <2>4, <1>10
        <4>2. g.scopes[j] \in DOMAIN g.heap BY <4>1 DEF Sound, Chain
        <4> QED BY <3>1, <4>1, <4>2, <1>7, <1>10
      <3>2. CASE k \in DOMAIN g.scopes
        <4>1. j \in DOMAIN g.scopes BY <3>2, <2>4, <1>10
        <4>2. g.scopes[j] < g.scopes[k] BY <4>1, <3>2, <2>4 DEF Sound, Chain
        <4> QED BY <3>2, <4>1, <4>2, <1>10
      <3> QED BY <3>1, <3>2, <1>10
    <2> QED BY <2>1, <2>2, <2>3, <2>4, <1>13 DEF Chain
  <1>16. Partition(h)
    <2>1. \A j \in DOMAIN g.deferred : g.deferred[j] \in DOMAIN p /\ g.deferred[j] # 1 /\ g.deferred[j] # n
      BY <1>7 DEF Sound, Partition
    <2>2. \A j \in DOMAIN g.deferred, k \in DOMAIN q : g.deferred[j] # q[k]
      BY <2>1, <1>10 DEF Sound, Partition
    <2>3. ASSUME NEW s \in DOMAIN p
          PROVE p[s].frees = IF s = 1 \/ Listed(h, s) THEN 0 ELSE 1
      <3>1. CASE s = n
        <4>1. m + 1 \in DOMAIN q /\ q[m + 1] = s BY <3>1, <1>10
        <4>2. Listed(h, s) BY <4>1, <1>13 DEF Listed
        <4> QED BY <3>1, <4>2, <1>5, <1>7
      <3>2. CASE s \in DOMAIN g.heap
        <4>1. s # n /\ p[s] = g.heap[s] BY <3>2, <1>7
        <4>2. Listed(h, s) <=> Listed(g, s)
          <5>1. (\E k \in DOMAIN q : q[k] = s) <=> (\E k \in DOMAIN g.scopes : g.scopes[k] = s)
            BY <4>1, <1>10
          <5> QED BY <5>1, <1>13 DEF Listed
        <4> QED BY <3>2, <4>1, <4>2 DEF Sound, Partition
      <3> QED BY <3>1, <3>2, <1>7
    <2>4. \A j, k \in DOMAIN g.deferred : g.deferred[j] = g.deferred[k] => j = k BY DEF Sound, Partition
    <2> QED BY <2>1, <2>2, <2>3, <2>4, <1>13 DEF Partition
  <1>17. NoFree(g) => NoFree(h) BY <1>5, <1>7, <1>13 DEF NoFree
  <1> QED BY <1>3, <1>4, <1>6, <1>7, <1>8, <1>9, <1>10, <1>12, <1>13, <1>15, <1>16, <1>17 DEF Sound

\* All but the last of a sequence.
IsFront(q, s) ==
  /\ Len(q) = Len(s) - 1 /\ DOMAIN q = 1 .. Len(s) - 1
  /\ \A k \in DOMAIN q : q[k] = s[k] /\ k \in DOMAIN s /\ k # Len(s) /\ k < Len(s)
  /\ \A k \in DOMAIN s : k = Len(s) \/ k \in DOMAIN q

LEMMA FrontOf ==
  ASSUME NEW S, NEW s \in Seq(S), s # <<>>
  PROVE  SubSeq(s, 1, Len(s) - 1) \in Seq(S) /\ IsFront(SubSeq(s, 1, Len(s) - 1), s)
  <1>1. PICK n \in Nat : n = Len(s) - 1 OBVIOUS
  <1>2. PICK q : q = SubSeq(s, 1, n) OBVIOUS
  <1>3. n <= Len(s) BY <1>1
  <1>4. q \in Seq(S) /\ Len(q) = n BY <1>2, <1>3
  <1>5. \A i \in 1 .. n : q[i] = s[i] BY <1>2, <1>3
  <1>6. DOMAIN q = 1 .. n BY <1>4
  <1>7. IsFront(q, s) BY <1>1, <1>4, <1>5, <1>6 DEF IsFront
  <1> QED BY <1>1, <1>2, <1>4, <1>7

\* A popped scope waits to be freed, or is freed when the list cannot grow.
LEMMA PoppedFacts ==
  ASSUME NEW g, Sound(g), NEW h \in Popped(g)
  PROVE  /\ Sound(h)
         /\ ~ h.oom => ~ g.oom /\ (NoFree(g) => NoFree(h))
         /\ Len(h.heap) = Len(g.heap) /\ DOMAIN h.heap = DOMAIN g.heap
         /\ g.scopes # <<>> => /\ Len(h.scopes) = Len(g.scopes) - 1
                               /\ \A k \in DOMAIN h.scopes : h.scopes[k] = g.scopes[k]
         /\ \A s \in DOMAIN g.heap : h.heap[s].syms = g.heap[s].syms
  <1>0. g \in CtxType BY DEF Sound
  <1>1. /\ g.heap \in Seq(ScopeRec) /\ g.scopes \in Seq(Nat) /\ g.deferred \in Seq(Nat) /\ g.capacity \in Nat
        /\ DOMAIN g.heap = 1 .. Len(g.heap) /\ Len(g.heap) \in Nat /\ g.oom \in BOOLEAN
    BY <1>0, CtxFields
  <1>2. CASE g.scopes = <<>> BY <1>2 DEF Popped
  <1>3. CASE g.scopes # <<>>
    <2>1. PICK m : m = Len(g.scopes) OBVIOUS
    <2>2. m \in Nat /\ m >= 1 /\ m \in DOMAIN g.scopes /\ DOMAIN g.scopes = 1 .. m BY <1>1, <1>3, <2>1
    <2>3. PICK s : s = g.scopes[m] OBVIOUS
    <2>4. /\ s \in DOMAIN g.heap /\ s # 1 /\ s \in Nat /\ g.heap[s].frees = 0
          /\ \A j \in DOMAIN g.deferred : g.deferred[j] # s
      <3>1. s \in DOMAIN g.heap /\ s # 1 BY <2>2, <2>3 DEF Sound, Chain
      <3>2. Listed(g, s) BY <2>2, <2>3 DEF Listed
      <3>3. s \in Nat BY <3>1, <1>1
      <3>4. g.heap[s].frees = 0 BY <3>1, <3>2 DEF Sound, Partition
      <3> QED BY <3>1, <3>3, <3>4, <2>2, <2>3 DEF Sound, Partition
    <2>5. PICK q : q = SubSeq(g.scopes, 1, m - 1) OBVIOUS
    <2>6. /\ q \in Seq(Nat) /\ Len(q) = m - 1 /\ DOMAIN q = 1 .. m - 1
          /\ \A k \in DOMAIN q : q[k] = g.scopes[k] /\ k \in DOMAIN g.scopes /\ k # m /\ k < m
          /\ \A k \in DOMAIN g.scopes : k = m \/ k \in DOMAIN q
      <3>1. q \in Seq(Nat) /\ IsFront(q, g.scopes) BY <1>1, <1>3, <2>1, <2>5, FrontOf, Zenon
      <3> QED BY <2>1, <3>1 DEF IsFront
    <2>7. \A k \in DOMAIN q : q[k] # s
      <3> SUFFICES ASSUME NEW k \in DOMAIN q PROVE q[k] # s OBVIOUS
      <3>1. g.scopes[k] < g.scopes[m] BY <2>2, <2>6 DEF Sound, Chain
      <3>2. g.scopes[k] \in Nat BY <1>1, <2>6
      <3> QED BY <2>3, <2>6, <3>1, <3>2
    \* The scopes left, whatever became of the popped one.
    <2>8. ASSUME NEW x, x \in CtxType, x.scopes = q, DOMAIN x.heap = DOMAIN g.heap,
                 \A z \in DOMAIN g.heap : x.heap[z].parent = g.heap[z].parent
          PROVE  Chain(x)
      <3>1. 1 \in DOMAIN x.heap BY <2>8 DEF Sound, Chain
      <3>2. \A z \in DOMAIN x.heap : x.heap[z].parent < z BY <2>8 DEF Sound, Chain
      <3>3. ASSUME NEW k \in DOMAIN q
            PROVE  /\ q[k] \in DOMAIN x.heap /\ q[k] # 1
                   /\ x.heap[q[k]].parent = IF k = 1 THEN 1 ELSE q[k - 1]
        <4>1. /\ g.scopes[k] \in DOMAIN g.heap /\ g.scopes[k] # 1
              /\ g.heap[g.scopes[k]].parent = IF k = 1 THEN 1 ELSE g.scopes[k - 1]
          BY <2>6 DEF Sound, Chain
        <4>2. k # 1 => k - 1 \in DOMAIN q BY <2>6, <2>2
        <4> QED BY <4>1, <4>2, <2>6, <2>8
      <3>4. \A j, k \in DOMAIN q : j < k => q[j] < q[k] BY <2>6 DEF Sound, Chain
      <3> QED BY <3>1, <3>2, <3>3, <3>4, <2>8 DEF Chain
    <2>9. PICK left : left = [g EXCEPT !.scopes = q] OBVIOUS
    <2>10. /\ left \in CtxType /\ left.heap = g.heap /\ left.scopes = q /\ left.deferred = g.deferred
           /\ left.oom = g.oom /\ left.capacity = g.capacity
      BY <1>0, <2>6, <2>9 DEF CtxType
    <2>11. PICK d : d = Append(g.deferred, s) OBVIOUS
    <2>12. PICK n : n = Len(g.deferred) OBVIOUS
    <2>13. /\ d \in Seq(Nat) /\ DOMAIN d = 1 .. n + 1 /\ d[n + 1] = s /\ n + 1 \in DOMAIN d
           /\ \A j \in DOMAIN g.deferred : d[j] = g.deferred[j] /\ j \in DOMAIN d
           /\ \A j \in DOMAIN d : j = n + 1 \/ j \in DOMAIN g.deferred
      BY <1>1, <2>4, <2>11, <2>12
    <2>14. PICK kept : kept = [left EXCEPT !.deferred = d] OBVIOUS
    <2>15. PICK grown : grown = IF g.capacity = 0 THEN FirstCapacity ELSE 2 * g.capacity OBVIOUS
    <2>16. grown \in Nat BY <1>1, <2>15, LocalAssumption
    <2>17. PICK freed : freed = [Freed(left, s) EXCEPT !.oom = TRUE] OBVIOUS
    <2>18. h \in {kept, [kept EXCEPT !.capacity = grown], freed}
      <3>1. PICK t : t = [g EXCEPT !.scopes = SubSeq(@, 1, Len(@) - 1)] OBVIOUS
      <3>2. t = left BY <2>1, <2>5, <2>9, <3>1
      <3>3. [t EXCEPT !.deferred = Append(@, s)] = kept BY <2>10, <2>11, <2>14, <3>2
      <3>4. Popped(g) = IF Len(g.deferred) < g.capacity THEN {[t EXCEPT !.deferred = Append(@, s)]}
                        ELSE {[[t EXCEPT !.deferred = Append(@, s)] EXCEPT !.capacity = grown], [Freed(t, s) EXCEPT !.oom = TRUE]}
        BY <1>3, <2>1, <2>3, <2>15, <3>1 DEF Popped
      <3>5. Popped(g) = IF Len(g.deferred) < g.capacity THEN {kept} ELSE {[kept EXCEPT !.capacity = grown], freed}
        BY <2>17, <3>2, <3>3, <3>4
      <3>6. h \in Popped(g) OBVIOUS
      <3> QED BY <3>5, <3>6
    <2>19. CASE h \in {kept, [kept EXCEPT !.capacity = grown]}
      <3>1. /\ h \in CtxType /\ h.heap = g.heap /\ h.scopes = q /\ h.deferred = d /\ h.oom = g.oom
        BY <2>10, <2>13, <2>14, <2>16, <2>19 DEF CtxType
      <3>2. Chain(h) BY <2>8, <3>1
      <3>3. Partition(h)
        <4>1. \A j \in DOMAIN d : d[j] \in DOMAIN g.heap /\ d[j] # 1 BY <2>4, <2>13 DEF Sound, Partition
        <4>2. \A j, k \in DOMAIN d : d[j] = d[k] => j = k BY <2>4, <2>13 DEF Sound, Partition
        <4>3. \A j \in DOMAIN d, k \in DOMAIN q : d[j] # q[k] BY <2>6, <2>7, <2>13 DEF Sound, Partition
        <4>4. ASSUME NEW z \in DOMAIN g.heap PROVE Listed(h, z) <=> Listed(g, z)
          <5>1. (\E k \in DOMAIN g.scopes : g.scopes[k] = z) <=> (\E k \in DOMAIN q : q[k] = z) \/ z = s
            BY <2>2, <2>3, <2>6
          <5>2. (\E k \in DOMAIN d : d[k] = z) <=> (\E k \in DOMAIN g.deferred : g.deferred[k] = z) \/ z = s
            BY <2>13
          <5> QED BY <5>1, <5>2, <3>1 DEF Listed
        <4>5. \A z \in DOMAIN g.heap : g.heap[z].frees = IF z = 1 \/ Listed(h, z) THEN 0 ELSE 1
          BY <4>4 DEF Sound, Partition
        <4> QED BY <4>1, <4>2, <4>3, <4>5, <3>1 DEF Partition
      <3> QED BY <3>1, <3>2, <3>3, <2>1, <2>6, <2>10 DEF Sound, NoFree
    <2>20. CASE h = freed
      <3>1. PICK f : f = [g.heap[s] EXCEPT !.frees = @ + 1] OBVIOUS
      <3>2. g.heap[s] \in ScopeRec BY <1>1, <2>4
      <3>3. f \in ScopeRec /\ f.frees = 1 /\ f.parent = g.heap[s].parent /\ f.syms = g.heap[s].syms
        BY <3>1, <3>2, <2>4 DEF ScopeRec
      <3>4. PICK p : p = [g.heap EXCEPT ![s] = f] OBVIOUS
      <3>5. /\ p \in Seq(ScopeRec) /\ DOMAIN p = DOMAIN g.heap /\ Len(p) = Len(g.heap) /\ p[s] = f
            /\ \A z \in DOMAIN g.heap : z # s => p[z] = g.heap[z]
        BY <1>1, <2>4, <3>3, <3>4
      <3>6. freed = [[left EXCEPT !.heap = p] EXCEPT !.oom = TRUE] BY <2>10, <2>17, <3>1, <3>4 DEF Freed
      <3>7. h \in CtxType /\ h.heap = p /\ h.scopes = q /\ h.deferred = g.deferred /\ h.oom = TRUE
        BY <2>10, <2>20, <3>5, <3>6 DEF CtxType
      <3>8. \A z \in DOMAIN g.heap : p[z].parent = g.heap[z].parent /\ p[z].syms = g.heap[z].syms
        BY <3>3, <3>5
      <3>9. Chain(h) BY <2>8, <3>5, <3>7, <3>8
      <3>10. Partition(h)
        <4>1. ASSUME NEW z \in DOMAIN g.heap PROVE Listed(h, z) <=> Listed(g, z) /\ z # s
          <5>1. (\E k \in DOMAIN q : q[k] = z) <=> (\E k \in DOMAIN g.scopes : g.scopes[k] = z) /\ z # s
            BY <2>2, <2>3, <2>6, <2>7
          <5>2. (\E k \in DOMAIN g.deferred : g.deferred[k] = z) => z # s BY <2>4
          <5> QED BY <5>1, <5>2, <3>7 DEF Listed
        <4>2. ASSUME NEW z \in DOMAIN g.heap
              PROVE  p[z].frees = IF z = 1 \/ Listed(h, z) THEN 0 ELSE 1
          <5>1. CASE z = s BY <5>1, <4>1, <3>3, <3>5, <2>4
          <5>2. CASE z # s BY <5>2, <4>1, <3>5 DEF Sound, Partition
          <5> QED BY <5>1, <5>2
        <4>3. \A j \in DOMAIN g.deferred, k \in DOMAIN q : g.deferred[j] # q[k]
          BY <2>6 DEF Sound, Partition
        <4>4. /\ \A j \in DOMAIN g.deferred : g.deferred[j] \in DOMAIN p /\ g.deferred[j] # 1
              /\ \A j, k \in DOMAIN g.deferred : g.deferred[j] = g.deferred[k] => j = k
          BY <3>5 DEF Sound, Partition
        <4> QED BY <4>2, <4>3, <4>4, <3>5, <3>7 DEF Partition
      <3> QED BY <3>5, <3>7, <3>8, <3>9, <3>10, <2>1, <2>6 DEF Sound
    <2> QED BY <2>18, <2>19, <2>20
  <1> QED BY <1>2, <1>3

-----------------------------------------------------------------------------
(* Looking a name up.                                                      *)

\* A set of numbers that is not empty has a least one.
LEMMA Least ==
  ASSUME NEW S \in SUBSET Nat, S # {}
  PROVE  \E m \in S : \A k \in S : m <= k
  <1>1. PICK m \in S : \A k \in S : ~ (<<k, m>> \in OpToRel(<, Nat))
    BY NatLessThanWellFounded, WFMin, Zenon
  <1>2. \A k \in S : ~ (k < m) BY <1>1 DEF OpToRel
  <1> QED BY <1>2

Up(g, id, f, s) == IF s = 0 \/ g.heap[s].syms[id] # NoSym THEN s ELSE f[g.heap[s].parent]
Walks(g, id, f, n) == f = [s \in 0 .. n |-> Up(g, id, f, s)]

LEMMA WalksAt ==
  ASSUME NEW g, NEW id, NEW f, NEW n, Walks(g, id, f, n), NEW s \in 0 .. n
  PROVE  f[s] = Up(g, id, f, s)
  <1>1. PICK u : u = [x \in 0 .. n |-> Up(g, id, f, x)] OBVIOUS
  <1>2. f = u BY <1>1, Zenon DEF Walks
  <1>3. u[s] = Up(g, id, f, s) BY <1>1
  <1> QED BY <1>2, <1>3

\* The walk over the parents is well defined.
LEMMA WalkExists ==
  ASSUME NEW g, NEW id, NEW n \in Nat, \A s \in 1 .. n : g.heap[s].parent \in Nat /\ g.heap[s].parent < s
  PROVE  \E f : Walks(g, id, f, n)
  <1> DEFINE Bad == {m \in 0 .. n : ~ \E f : Walks(g, id, f, m)}
  <1> SUFFICES ASSUME Bad # {} PROVE FALSE OBVIOUS
  <1>0. Bad \in SUBSET Nat OBVIOUS
  <1>1. PICK m \in Bad : \A k \in Bad : m <= k
    <2> HIDE DEF Bad
    <2> QED BY <1>0, Least
  <1>2. CASE m = 0
    <2>1. PICK f : f = [s \in 0 .. 0 |-> 0] OBVIOUS
    <2>2. Walks(g, id, f, 0) BY <2>1 DEF Walks, Up
    <2> QED BY <1>1, <1>2, <2>2
  <1>3. CASE m # 0
    <2>1. m - 1 \in 0 .. n /\ m - 1 \notin Bad /\ m \in 1 .. n BY <1>1, <1>3
    <2>2. PICK f : Walks(g, id, f, m - 1) BY <2>1
    <2>3. PICK h : h = [s \in 0 .. m |-> IF s = m THEN Up(g, id, f, m) ELSE f[s]] OBVIOUS
    <2>4. ASSUME NEW s \in 0 .. m PROVE h[s] = Up(g, id, h, s)
      <3>0. s # 0 => g.heap[s].parent \in 0 .. m - 1 BY <2>1
      <3>1. s # 0 => h[g.heap[s].parent] = f[g.heap[s].parent]
        <4>1. \A p \in 0 .. m - 1 : h[p] = f[p] BY <2>1, <2>3
        <4> QED BY <3>0, <4>1
      <3>2. Up(g, id, h, s) = Up(g, id, f, s) BY <3>1 DEF Up
      <3>3. s # m => h[s] = f[s] /\ f[s] = Up(g, id, f, s)
        <4>1. s # m => s \in 0 .. m - 1 BY <2>1
        <4> QED BY <2>2, <2>3, <4>1, WalksAt
      <3>4. s = m => h[s] = Up(g, id, f, s) BY <2>3
      <3> QED BY <3>2, <3>3, <3>4
    <2>5. Walks(g, id, h, m) BY <2>3, <2>4 DEF Walks
    <2> QED BY <1>1, <2>5
  <1> QED BY <1>2, <1>3

\* The scopes' parents are what the walk needs.
LEMMA Parents ==
  ASSUME NEW g, Sound(g)
  PROVE  /\ Len(g.heap) \in Nat /\ DOMAIN g.heap = 1 .. Len(g.heap)
         /\ \A s \in 1 .. Len(g.heap) : g.heap[s].parent \in Nat /\ g.heap[s].parent < s
  <1>1. g.heap \in Seq(ScopeRec) /\ DOMAIN g.heap = 1 .. Len(g.heap) /\ Len(g.heap) \in Nat
    BY CtxFields DEF Sound
  <1>2. ASSUME NEW s \in 1 .. Len(g.heap) PROVE g.heap[s].parent \in Nat /\ g.heap[s].parent < s
    <2>1. g.heap[s] \in ScopeRec /\ s \in DOMAIN g.heap BY <1>1
    <2> QED BY <2>1 DEF Sound, Chain, ScopeRec
  <1> QED BY <1>1, <1>2

LEMMA FoundFromWalks ==
  ASSUME NEW g, Sound(g), NEW id
  PROVE  Walks(g, id, FoundFrom(g, id), Len(g.heap))
  <1>1. \E f : Walks(g, id, f, Len(g.heap)) BY Parents, WalkExists
  <1>2. \E f : f = [s \in 0 .. Len(g.heap) |-> IF s = 0 \/ g.heap[s].syms[id] # NoSym THEN s
                                               ELSE f[g.heap[s].parent]]
    BY <1>1 DEF Walks, Up
  <1> QED BY <1>2 DEF FoundFrom, Walks, Up

\* It ends at 0 or at a scope that has the name.
LEMMA FoundFromRange ==
  ASSUME NEW g, Sound(g), NEW id, NEW s \in 0 .. Len(g.heap)
  PROVE  /\ FoundFrom(g, id)[s] \in 0 .. s
         /\ FoundFrom(g, id)[s] # 0 => g.heap[FoundFrom(g, id)[s]].syms[id] # NoSym
  <1> DEFINE f == FoundFrom(g, id)
             n == Len(g.heap)
             OK(x) == f[x] \in 0 .. x /\ (f[x] # 0 => g.heap[f[x]].syms[id] # NoSym)
             Bad == {x \in 0 .. n : ~ OK(x)}
  <1> SUFFICES ASSUME Bad # {} PROVE FALSE OBVIOUS
  <1>0. n \in Nat /\ \A x \in 1 .. n : g.heap[x].parent \in Nat /\ g.heap[x].parent < x BY Parents
  <1>5. Bad \in SUBSET Nat BY <1>0
  <1>1. PICK m \in Bad : \A k \in Bad : m <= k
    <2> HIDE DEF Bad
    <2> QED BY <1>5, Least
  <1>2. f[m] = Up(g, id, f, m) BY <1>1, FoundFromWalks, WalksAt
  <1>3. CASE m = 0 \/ g.heap[m].syms[id] # NoSym BY <1>0, <1>1, <1>2, <1>3 DEF Up
  <1>4. CASE ~ (m = 0 \/ g.heap[m].syms[id] # NoSym)
    <2>1. PICK x : x = g.heap[m].parent OBVIOUS
    <2>2. x \in 0 .. n /\ x < m /\ x \in Nat BY <1>0, <1>1, <1>4, <2>1
    <2>3. OK(x) BY <1>0, <1>1, <2>2
    <2>4. f[m] = f[x] BY <1>2, <1>4, <2>1 DEF Up
    <2> QED BY <1>0, <1>1, <2>2, <2>3, <2>4
  <1> QED BY <1>3, <1>4

LEMMA FindRange ==
  ASSUME NEW g, Sound(g), NEW id
  PROVE  Find(g, id) \in Nat /\ (Find(g, id) # 0 => Find(g, id) \in DOMAIN g.heap)
  <1>1. Current(g) \in 1 .. Len(g.heap) /\ DOMAIN g.heap = 1 .. Len(g.heap) /\ Len(g.heap) \in Nat
    BY CurrentScope, Parents
  <1>2. Find(g, id) \in 0 .. Current(g) BY <1>1, FoundFromRange DEF Find
  <1> QED BY <1>1, <1>2

-----------------------------------------------------------------------------
(* Walking.                                                                *)

\* The names the model uses for the text around a token.
LEMMA TextNames ==
  /\ \A u : Around(u) = Encl(code, u)
  /\ \A u : Innermost(u) = InnerOf(code, u)
  /\ \A k : Unanalysed(k) <=> LeftOut(code, k)
  <1>1. \A u : Around(u) = Encl(code, u) BY DEF Around, Opens, Encl
  <1>2. ASSUME NEW u PROVE Innermost(u) = InnerOf(code, u)
    <2>1. Around(u) = Encl(code, u) BY <1>1
    <2>2. Innermost(u) = Greatest(Around(u)) BY DEF Innermost, Greatest
    <2> QED BY <2>1, <2>2 DEF InnerOf
  <1> QED BY <1>1, <1>2 DEF Unanalysed, LeftOut

\* How many statements of some kinds are around the next token.
LEMMA CountOpen ==
  ASSUME NEW c \in Seq(TokenType), WellNested(c), NEW u \in DOMAIN c, c[u].t = "open", NEW ks
  PROVE  /\ Cardinality(Encl(c, u + 1)) = Cardinality(Encl(c, u)) + 1
         /\ c[u].kind \in ks => Cardinality(In(c, u + 1, ks)) = Cardinality(In(c, u, ks)) + 1
         /\ c[u].kind \notin ks => Cardinality(In(c, u + 1, ks)) = Cardinality(In(c, u, ks))
  <1>1. Encl(c, u + 1) = Encl(c, u) \cup {u} /\ u \notin Encl(c, u) BY EnclOpen
  <1>2. IsFiniteSet(Encl(c, u)) /\ IsFiniteSet(In(c, u, ks)) BY EnclFinite
  <1>3. Cardinality(Encl(c, u + 1)) = Cardinality(Encl(c, u)) + 1 BY <1>1, <1>2, FS_AddElement
  <1>4. ASSUME c[u].kind \in ks PROVE Cardinality(In(c, u + 1, ks)) = Cardinality(In(c, u, ks)) + 1
    <2>1. In(c, u + 1, ks) = In(c, u, ks) \cup {u} /\ u \notin In(c, u, ks) BY <1>1, <1>4 DEF In
    <2> QED BY <2>1, <1>2, FS_AddElement
  <1>5. ASSUME c[u].kind \notin ks PROVE In(c, u + 1, ks) = In(c, u, ks) BY <1>1, <1>5 DEF In
  <1> QED BY <1>3, <1>4, <1>5

LEMMA CountClose ==
  ASSUME NEW c \in Seq(TokenType), WellNested(c), NEW u, NEW k \in Encl(c, u),
         Encl(c, u + 1) = Encl(c, u) \ {k}, NEW ks
  PROVE  /\ Cardinality(Encl(c, u)) = Cardinality(Encl(c, u + 1)) + 1
         /\ c[k].kind \in ks => Cardinality(In(c, u, ks)) = Cardinality(In(c, u + 1, ks)) + 1
         /\ c[k].kind \notin ks => Cardinality(In(c, u + 1, ks)) = Cardinality(In(c, u, ks))
  <1>1. IsFiniteSet(Encl(c, u + 1)) /\ IsFiniteSet(In(c, u + 1, ks)) BY EnclFinite
  <1>2. Encl(c, u) = Encl(c, u + 1) \cup {k} /\ k \notin Encl(c, u + 1) OBVIOUS
  <1>3. Cardinality(Encl(c, u)) = Cardinality(Encl(c, u + 1)) + 1
    <2>1. Cardinality(Encl(c, u + 1) \cup {k}) = Cardinality(Encl(c, u + 1)) + 1 BY <1>1, <1>2, FS_AddElement
    <2> QED BY <2>1, <1>2
  <1>4. ASSUME c[k].kind \in ks PROVE Cardinality(In(c, u, ks)) = Cardinality(In(c, u + 1, ks)) + 1
    <2>1. In(c, u, ks) = In(c, u + 1, ks) \cup {k} /\ k \notin In(c, u + 1, ks) BY <1>2, <1>4 DEF In
    <2> QED BY <2>1, <1>1, FS_AddElement
  <1>5. ASSUME c[k].kind \notin ks PROVE In(c, u + 1, ks) = In(c, u, ks) BY <1>2, <1>5 DEF In
  <1> QED BY <1>3, <1>4, <1>5

LEMMA CountSame ==
  ASSUME NEW c, NEW u, NEW v, Encl(c, v) = Encl(c, u)
  PROVE  /\ Cardinality(Encl(c, v)) = Cardinality(Encl(c, u))
         /\ \A ks : Cardinality(In(c, v, ks)) = Cardinality(In(c, u, ks))
  BY DEF In

\* The statement that ends at a `close'.
LEMMA CloseFacts ==
  ASSUME NEW c \in Seq(TokenType), WellNested(c), NEW u \in DOMAIN c, c[u].t = "close"
  PROVE  /\ InnerOf(c, u) \in Encl(c, u) /\ InnerOf(c, u) \in DOMAIN c /\ c[InnerOf(c, u)].t = "open"
         /\ InnerOf(c, u) \in Nat /\ InnerOf(c, u) < u /\ c[InnerOf(c, u)].end = u
         /\ Encl(c, u + 1) = Encl(c, u) \ {InnerOf(c, u)}
         /\ Encl(c, InnerOf(c, u) + 1) = Encl(c, u)
         /\ Encl(c, u) = Encl(c, InnerOf(c, u)) \cup {InnerOf(c, u)}
  <1>1. PICK k \in DOMAIN c :
           /\ c[k].t = "open" /\ c[k].end = u /\ k \in Encl(c, u) /\ k < u
           /\ \A j \in Encl(c, u) : j <= k
           /\ Encl(c, u + 1) = Encl(c, u) \ {k}
           /\ Encl(c, u) = Encl(c, k) \cup {k} /\ k \notin Encl(c, k)
    BY EnclClose
  <1>2. InnerOf(c, u) = k
    <2>1. \A j \in Encl(c, u) : j \in Nat BY DEF Encl
    <2>2. \A i \in Encl(c, u) : (\A j \in Encl(c, u) : j <= i) => i = k BY <1>1, <2>1
    <2>3. InnerOf(c, u) = CHOOSE i \in Encl(c, u) : \A j \in Encl(c, u) : j <= i BY <1>1 DEF InnerOf, Greatest
    <2> QED BY <1>1, <2>2, <2>3
  <1>3. Encl(c, k + 1) = Encl(c, k) \cup {k} BY <1>1, EnclOpen
  <1>4. k \in Nat OBVIOUS
  <1> QED BY <1>1, <1>2, <1>3, <1>4

-----------------------------------------------------------------------------
(* The steps.                                                              *)

CallRec == [again : Nat, closed : BOOLEAN]

LEMMA InitIInv == Init => IInv
  <1> SUFFICES ASSUME Init PROVE IInv OBVIOUS
  <1>1. code \in Seq(TokenType) /\ WellNested(code) /\ Len(code) \in Nat BY LocalAssumption DEF Init
  <1>2. TextInv BY <1>1 DEF Init, TextInv
  <1>3. /\ Len(gc.heap) = 1 /\ DOMAIN gc.heap = {1} /\ gc.heap[1].frees = 0 /\ gc.heap[1].parent = 0
        /\ gc.scopes = <<>> /\ gc.deferred = <<>> /\ gc.oom = FALSE /\ gc.capacity = 0
    BY DEF Init
  <1>4. gc \in CtxType
    <2>1. PICK y : y = [id \in Ids |-> IF id \in globals THEN [decl |-> 0, konst |-> 0] ELSE NoSym] OBVIOUS
    <2>2. y \in [Ids -> Sym] BY <2>1 DEF Sym
    <2>3. PICK x : x = [parent |-> 0, frees |-> 0, syms |-> y] OBVIOUS
    <2>4. x \in ScopeRec BY <2>2, <2>3 DEF ScopeRec
    <2>5. <<x>> \in Seq(ScopeRec) /\ <<>> \in Seq(Nat) BY <2>4
    <2>6. gc = [heap |-> <<x>>, scopes |-> <<>>, deferred |-> <<>>, capacity |-> 0, oom |-> FALSE]
      BY <2>1, <2>3 DEF Init
    <2> QED BY <2>5, <2>6 DEF CtxType
  <1>5. Chain(gc) BY <1>3 DEF Chain
  <1>6. Partition(gc) BY <1>3 DEF Partition, Listed
  <1>7. NoFree(gc) BY <1>3 DEF NoFree
  <1>8. CtxInv BY <1>4, <1>5, <1>6, <1>7 DEF CtxInv, Sound, Init
  <1>9. Encl(code, 1) = {} BY <1>1, EnclEnds
  <1>10. DepthInv
    <2>1. Cardinality(Encl(code, at)) = 0 BY <1>9, FS_EmptySet DEF Init
    <2>2. phase = "sem" /\ depth = 0 /\ calls = <<>> /\ closed = FALSE BY DEF Init
    <2>3. <<>> \in Seq([again : Nat, closed : BOOLEAN]) /\ Len(gc.scopes) = 0 BY <1>3
    <2> QED BY <2>1, <2>2, <2>3 DEF DepthInv
  <1>11. ResolvedInv
    <2>1. symbolOf \in [DOMAIN code -> Nat] /\ \A k \in DOMAIN code : symbolOf[k] = 0 BY DEF Init
    <2>2. Reached(code, at) BY <1>9 DEF Reached, Init
    <2>3. \A k \in Names(code) : ~ (k < at) /\ phase # "gen" BY <1>1 DEF Names, Init
    <2> QED BY <2>1, <2>2, <2>3 DEF ResolvedInv, Init
  <1> QED BY <1>2, <1>8, <1>10, <1>11 DEF IInv, Init

\* What a step of the analyser has to show.
LEMMA SemStep ==
  ASSUME IInv, phase = "sem", phase' = "sem", UNCHANGED <<code, genVars>>,
         at' \in 1 .. Len(code) + 1, errors' \subseteq DOMAIN code,
         Sound(gc)', ~ gc'.oom => ~ gc.oom /\ NoFree(gc)',
         Len(gc'.scopes) = Cardinality(Encl(code, at')),
         Reached(code, at'),
         symbolOf' \in [DOMAIN code -> Nat],
         \A k \in DOMAIN code : symbolOf'[k] # 0 => symbolOf'[k] \in DOMAIN gc'.heap,
         \A k \in Names(code) : k < at' => symbolOf'[k] # 0 \/ k \in errors'
  PROVE  IInv'
  <1>1. TextInv' BY DEF IInv, TextInv
  <1>2. CtxInv' BY DEF CtxInv
  <1>3. DepthInv' BY DEF IInv, DepthInv, genVars
  <1>4. ResolvedInv' BY DEF IInv, ResolvedInv, genVars
  <1> QED BY <1>1, <1>2, <1>3, <1>4 DEF IInv

\* What a step of the generator has to show.
LEMMA GenStep ==
  ASSUME IInv, phase = "gen", phase' = "gen", UNCHANGED <<code, semVars>>,
         at' \in 1 .. Len(code) + 1,
         Sound(gc)', ~ gc'.oom => ~ gc.oom /\ NoFree(gc)', DOMAIN gc.heap \subseteq DOMAIN gc'.heap,
         depth' \in Nat, closed' \in BOOLEAN, calls' \in Seq(CallRec),
         Len(calls') = Cardinality(Encl(code, at')),
         depth' = Cardinality(In(code, at', Scoped)),
         Len(gc'.scopes) = depth' + Cardinality(In(code, at', {"proc"})),
         Reached(code, at'),
         \A x \in defers' : x.node \in Names(code),
         ~ gc'.oom => \A b \in made' : ~ b.dangling
  PROVE  IInv'
  <1>1. TextInv' BY DEF IInv, TextInv, semVars
  <1>2. CtxInv' BY DEF CtxInv
  <1>3. DepthInv' BY DEF DepthInv, CallRec
  <1>4. ResolvedInv'
    <2>1. errors = {} /\ symbolOf' = symbolOf /\ errors' = errors BY DEF IInv, ResolvedInv, semVars
    <2>2. \A k \in DOMAIN code : symbolOf'[k] # 0 => symbolOf'[k] \in DOMAIN gc'.heap
      BY <2>1 DEF IInv, ResolvedInv
    <2>3. \A k \in Names(code) : symbolOf'[k] # 0 \/ k \in errors' BY <2>1 DEF IInv, ResolvedInv
    <2> QED BY <2>1, <2>2, <2>3 DEF IInv, ResolvedInv
  <1> QED BY <1>1, <1>2, <1>3, <1>4 DEF IInv

\* Where the next token is, and what is around it.
LEMMA NextToken ==
  ASSUME TextInv, at <= Len(code)
  PROVE  /\ at \in DOMAIN code /\ at \in Nat /\ at + 1 \in 1 .. Len(code) + 1
         /\ Token \in TokenType /\ Token = code[at]
         /\ Token.t \notin {"open", "close"} => Encl(code, at + 1) = Encl(code, at)
         /\ Token.t = "open" => Token.end + 1 \in 1 .. Len(code) + 1 /\ Token.end \in Nat /\ at < Token.end
  <1>1. code \in Seq(TokenType) /\ WellNested(code) /\ at \in 1 .. Len(code) + 1 BY DEF TextInv
  <1>2. at \in DOMAIN code /\ at \in Nat /\ at + 1 \in 1 .. Len(code) + 1 BY <1>1
  <1>3. Token \in TokenType /\ Token = code[at] BY <1>1, <1>2 DEF Token
  <1>4. Token.t \notin {"open", "close"} => Encl(code, at + 1) = Encl(code, at) BY <1>1, <1>2, <1>3, EnclStay
  <1>5. Token.t = "open" => /\ Token.end + 1 \in 1 .. Len(code) + 1
                            /\ Token.end \in Nat /\ at < Token.end
    BY <1>1, <1>2, <1>3, EndFacts
  <1> QED BY <1>2, <1>3, <1>4, <1>5

\* The names before the next token are the ones before this one, and this one.
LEMMA NamesBefore ==
  ASSUME TextInv, at <= Len(code), NEW k \in Names(code), k < at + 1
  PROVE  k \in DOMAIN code /\ (k < at \/ k = at)
  BY NextToken DEF Names, TextInv

\* In a statement that is left out there is no name to reach.
LEMMA NamesSkipped ==
  ASSUME TextInv, at <= Len(code), Token.t = "open", LeftOut(code, at), NEW k \in Names(code), k < Token.end + 1
  PROVE  k < at
  <1>1. code \in Seq(TokenType) /\ WellNested(code) BY DEF TextInv
  <1>2. at \in DOMAIN code /\ at \in Nat /\ Token = code[at] /\ Token.end \in Nat BY NextToken
  <1>3. k \in DOMAIN code /\ k \in Nat /\ code[k].t # "open" /\ Reached(code, k) BY <1>1 DEF Names
  <1>4. ~ (at < k /\ k <= Token.end)
    <2> SUFFICES ASSUME at < k, k <= Token.end PROVE FALSE OBVIOUS
    <2>1. at \in Encl(code, k) BY <1>2 DEF Encl
    <2> QED BY <2>1, <1>3 DEF Reached
  <1> QED BY <1>2, <1>3, <1>4

\* The analyser's part of the invariant, spelled out.
LEMMA SemFacts ==
  ASSUME IInv, phase = "sem"
  PROVE  /\ TextInv /\ code \in Seq(TokenType) /\ WellNested(code) /\ errors \subseteq DOMAIN code
         /\ Sound(gc) /\ (~ gc.oom => NoFree(gc)) /\ Len(gc.scopes) = Cardinality(Encl(code, at))
         /\ Reached(code, at) /\ symbolOf \in [DOMAIN code -> Nat]
         /\ \A k \in DOMAIN code : symbolOf[k] # 0 => symbolOf[k] \in DOMAIN gc.heap
         /\ \A k \in Names(code) : k < at => symbolOf[k] # 0 \/ k \in errors
  BY DEF IInv, TextInv, CtxInv, DepthInv, ResolvedInv

\* A step over a token that opens and closes nothing.
LEMMA SemStay ==
  ASSUME IInv, phase = "sem", phase' = "sem", UNCHANGED <<code, genVars, symbolOf>>, at <= Len(code),
         at' = at + 1, Token.t \in {"var", "const", "return"}, SameShape(gc, gc'),
         errors' \subseteq errors \cup {at}, errors \subseteq errors'
  PROVE  IInv'
  <1>1. /\ at \in DOMAIN code /\ at' \in 1 .. Len(code) + 1 /\ Token = code[at]
        /\ Encl(code, at') = Encl(code, at)
    BY SemFacts, NextToken
  <1>2. Sound(gc)' /\ (~ gc'.oom => ~ gc.oom /\ NoFree(gc)') BY SemFacts, SameShapeKeeps DEF SameShape
  <1>3. Len(gc'.scopes) = Cardinality(Encl(code, at')) BY <1>1, SemFacts DEF SameShape
  <1>4. Reached(code, at') BY <1>1, SemFacts DEF Reached
  <1>5. \A k \in Names(code) : k < at' => symbolOf'[k] # 0 \/ k \in errors'
    <2> SUFFICES ASSUME NEW k \in Names(code), k < at' PROVE symbolOf'[k] # 0 \/ k \in errors' OBVIOUS
    <2>1. k < at \/ k = at BY NamesBefore, SemFacts
    <2>2. k # at BY <1>1 DEF Names
    <2> QED BY <2>1, <2>2, SemFacts
  <1>6. \A k \in DOMAIN code : symbolOf'[k] # 0 => symbolOf'[k] \in DOMAIN gc'.heap BY SemFacts DEF SameShape
  <1>7. errors' \subseteq DOMAIN code /\ symbolOf' \in [DOMAIN code -> Nat] BY <1>1, SemFacts
  <1> QED BY <1>1, <1>2, <1>3, <1>4, <1>5, <1>6, <1>7, SemStep

LEMMA SemVarStep == ASSUME IInv, SemVar PROVE IInv'
  <1>1. /\ phase = "sem" /\ phase' = "sem" /\ at <= Len(code) /\ Token.t = "var" /\ at' = at + 1
        /\ UNCHANGED <<code, genVars, symbolOf>>
    BY DEF SemVar, AtSem
  <1>2. Token.id \in Ids /\ at \in Nat BY <1>1, SemFacts, NextToken, TokenFields
  <1>3. gc \in CtxType /\ Sound(gc) BY <1>1, SemFacts DEF Sound
  <1>4. SameShape(gc, gc) /\ SameShape(gc, AddedHere(gc, Token.id, at))
    BY <1>2, <1>3, SameShapeRefl, AddedHereShape
  <1>5. /\ SameShape(gc, gc') /\ errors' \subseteq errors \cup {at} /\ errors \subseteq errors'
    BY <1>4 DEF SemVar
  <1> QED BY <1>1, <1>5, SemStay

LEMMA SemConstStep == ASSUME IInv, SemConst PROVE IInv'
  <1>1. /\ phase = "sem" /\ phase' = "sem" /\ at <= Len(code) /\ Token.t = "const" /\ at' = at + 1
        /\ UNCHANGED <<code, genVars, symbolOf, errors>>
    BY DEF SemConst, AtSem, semVars
  <1>2. Token.id \in Ids /\ at \in Nat BY <1>1, SemFacts, NextToken, TokenFields
  <1>3. gc \in CtxType /\ Sound(gc) BY <1>1, SemFacts DEF Sound
  <1>4. SameShape(gc, gc) /\ SameShape(gc, AddedHere(gc, Token.id, at))
    BY <1>2, <1>3, SameShapeRefl, AddedHereShape
  <1>5. SameShape(gc, gc') BY <1>4 DEF SemConst
  <1> QED BY <1>1, <1>5, SemStay

LEMMA SemReturnStep == ASSUME IInv, SemReturn PROVE IInv'
  <1>1. /\ phase = "sem" /\ phase' = "sem" /\ at <= Len(code) /\ Token.t = "return" /\ at' = at + 1
        /\ UNCHANGED <<code, genVars, symbolOf, errors>> /\ gc' = gc
    BY DEF SemReturn, AtSem, semVars
  <1>2. SameShape(gc, gc') BY <1>1, SemFacts, SameShapeRefl DEF Sound
  <1> QED BY <1>1, <1>2, SemStay

LEMMA SemUseStep == ASSUME IInv, SemUse PROVE IInv'
  <1>1. /\ phase = "sem" /\ phase' = "sem" /\ at <= Len(code) /\ Token.t \in {"use", "defer"} /\ at' = at + 1
        /\ UNCHANGED <<code, genVars>> /\ gc' = gc
    BY DEF SemUse, AtSem
  <1>2. /\ at \in DOMAIN code /\ at' \in 1 .. Len(code) + 1 /\ Token = code[at]
        /\ Encl(code, at') = Encl(code, at)
    BY <1>1, SemFacts, NextToken
  <1>3. PICK s : s = Find(gc, Token.id) OBVIOUS
  <1>4. s \in Nat /\ (s # 0 => s \in DOMAIN gc.heap) BY <1>1, <1>3, SemFacts, FindRange
  <1>5. \/ s = 0 /\ errors' = errors \cup {at} /\ symbolOf' = symbolOf
        \/ s # 0 /\ errors' = errors /\ symbolOf' = [symbolOf EXCEPT ![at] = s]
    BY <1>3 DEF SemUse
  <1>6. errors' \subseteq DOMAIN code /\ symbolOf' \in [DOMAIN code -> Nat]
    BY <1>1, <1>2, <1>4, <1>5, SemFacts
  <1>7. \A k \in DOMAIN code : symbolOf'[k] # 0 => symbolOf'[k] \in DOMAIN gc'.heap
    BY <1>1, <1>2, <1>4, <1>5, SemFacts
  <1>8. \A k \in Names(code) : k < at' => symbolOf'[k] # 0 \/ k \in errors'
    <2> SUFFICES ASSUME NEW k \in Names(code), k < at' PROVE symbolOf'[k] # 0 \/ k \in errors' OBVIOUS
    <2>1. k \in DOMAIN code /\ (k < at \/ k = at) BY <1>1, NamesBefore, SemFacts
    <2>2. CASE k = at BY <1>1, <1>2, <1>5, <2>2, SemFacts
    <2>3. CASE k < at /\ k # at
      <3>1. symbolOf[k] # 0 \/ k \in errors BY <1>1, <2>3, SemFacts
      <3>2. symbolOf'[k] = symbolOf[k] /\ (k \in errors => k \in errors') BY <1>1, <1>5, <2>1, <2>3, SemFacts
      <3> QED BY <3>1, <3>2
    <2> QED BY <2>1, <2>2, <2>3
  <1>9. Sound(gc)' /\ (~ gc'.oom => ~ gc.oom /\ NoFree(gc)') BY <1>1, SemFacts
  <1>10. Len(gc'.scopes) = Cardinality(Encl(code, at')) BY <1>1, <1>2, SemFacts
  <1>11. Reached(code, at') BY <1>1, <1>2, SemFacts DEF Reached
  <1> QED BY <1>1, <1>2, <1>6, <1>7, <1>8, <1>9, <1>10, <1>11, SemStep

\* An opening token and what it carries.
LEMMA OpenToken ==
  ASSUME code \in Seq(TokenType), NEW k \in DOMAIN code, code[k].t = "open"
  PROVE  /\ k \in Nat /\ code[k].kind \in Kinds
         /\ code[k].id \in Ids \cup {NoId} /\ code[k].param \in Ids \cup {NoId}
         /\ code[k].result \in Ids \cup {NoId}
  <1>1. code[k] \in TokenType /\ k \in Nat OBVIOUS
  <1> QED BY <1>1, TokenFields

LEMMA StmtScopeShape ==
  ASSUME code \in Seq(TokenType), NEW k \in DOMAIN code, code[k].t = "open", NEW g, Sound(g)
  PROVE  SameShape(Pushed(g), StmtScope(g, k)) /\ Sound(StmtScope(g, k))
  <1>1. k \in Nat /\ code[k].id \in Ids \cup {NoId} BY OpenToken
  <1>2. Sound(Pushed(g)) BY PushedFacts
  <1> QED BY <1>1, <1>2, AddedHereShape DEF StmtScope

LEMMA ProcScopeShape ==
  ASSUME code \in Seq(TokenType), NEW k \in DOMAIN code, code[k].t = "open", NEW g, Sound(g)
  PROVE  SameShape(Pushed(g), ProcScope(g, k)) /\ Sound(ProcScope(g, k))
  <1>1. /\ k \in Nat /\ code[k].id \in Ids \cup {NoId} /\ code[k].param \in Ids \cup {NoId}
        /\ code[k].result \in Ids \cup {NoId} /\ Context \in Ids \cup {NoId}
    BY OpenToken, LocalAssumption
  <1>2. PICK g0 : g0 = Pushed(g) OBVIOUS
  <1>3. Sound(g0) /\ Len(g0.heap) = Len(g.heap) + 1 BY <1>2, PushedFacts
  <1>4. PICK g1 : g1 = AddedHere(g0, Context, k) OBVIOUS
  <1>5. Sound(g1) /\ SameShape(g0, g1) BY <1>1, <1>3, <1>4, AddedHereShape
  <1>6. PICK g2 : g2 = AddedHere(g1, code[k].param, k) OBVIOUS
  <1>7. Sound(g2) /\ SameShape(g1, g2) BY <1>1, <1>5, <1>6, AddedHereShape
  <1>8. PICK g3 : g3 = AddedHere(g2, code[k].result, k) OBVIOUS
  <1>9. Sound(g3) /\ SameShape(g2, g3) BY <1>1, <1>7, <1>8, AddedHereShape
  <1>10. PICK g4 : g4 = AddedHere(g3, code[k].id, k) OBVIOUS
  <1>11. Sound(g4) /\ SameShape(g3, g4) BY <1>1, <1>9, <1>10, AddedHereShape
  <1>12. SameShape(g0, g4) BY <1>5, <1>7, <1>9, <1>11, SameShapeTrans
  <1>13. Current(g) \in DOMAIN g4.heap
    <2>1. Current(g) \in 1 .. Len(g.heap) /\ Len(g.heap) \in Nat BY CurrentScope, Parents
    <2>2. DOMAIN g0.heap = 1 .. Len(g0.heap) BY <1>3, Parents
    <2> QED BY <2>1, <2>2, <1>3, <1>12 DEF SameShape
  <1>14. PICK g5 : g5 = Added(g4, Current(g), code[k].id, k) OBVIOUS
  <1>15. SameShape(g4, g5) BY <1>1, <1>11, <1>13, <1>14, AddedShape DEF Sound
  <1>16. SameShape(g0, g5) BY <1>12, <1>15, SameShapeTrans
  <1>17. ProcScope(g, k) = g5 BY <1>2, <1>4, <1>6, <1>8, <1>10, <1>14 DEF ProcScope
  <1> QED BY <1>2, <1>3, <1>16, <1>17, SameShapeKeeps

LEMMA SemOpenStep == ASSUME IInv, SemOpen PROVE IInv'
  <1>1. /\ phase = "sem" /\ phase' = "sem" /\ at <= Len(code) /\ Token.t = "open"
        /\ UNCHANGED <<code, genVars, symbolOf, errors>>
    BY DEF SemOpen, AtSem, semVars
  <1>2. /\ code \in Seq(TokenType) /\ WellNested(code) /\ at \in DOMAIN code /\ Token = code[at] /\ at \in Nat
        /\ at + 1 \in 1 .. Len(code) + 1 /\ Token.end + 1 \in 1 .. Len(code) + 1
    BY <1>1, SemFacts, NextToken
  <1>3. CASE Unanalysed(at)
    <2>1. at' = Token.end + 1 /\ gc' = gc /\ LeftOut(code, at) BY <1>3, TextNames DEF SemOpen
    <2>2. Encl(code, at') = Encl(code, at) BY <1>1, <1>2, <2>1, EnclSkip
    <2>3. \A k \in Names(code) : k < at' => symbolOf'[k] # 0 \/ k \in errors'
      BY <1>1, <2>1, NamesSkipped, SemFacts
    <2>4. Reached(code, at') BY <1>1, <2>2, SemFacts DEF Reached
    <2>5. Len(gc'.scopes) = Cardinality(Encl(code, at')) BY <1>1, <2>1, <2>2, SemFacts
    <2>6. Sound(gc)' /\ (~ gc'.oom => ~ gc.oom /\ NoFree(gc)') BY <1>1, <2>1, SemFacts
    <2> QED BY <1>1, <1>2, <2>1, <2>3, <2>4, <2>5, <2>6, SemStep, SemFacts
  <1>4. CASE ~ Unanalysed(at)
    <2>1. at' = at + 1 /\ ~ LeftOut(code, at)
          /\ gc' = (IF Token.kind = "proc" THEN ProcScope(gc, at) ELSE StmtScope(gc, at))
      BY <1>4, TextNames DEF SemOpen
    <2>2. SameShape(Pushed(gc), gc') /\ Sound(gc') BY <1>1, <1>2, <2>1, SemFacts, ProcScopeShape, StmtScopeShape
    <2>3. /\ Sound(Pushed(gc)) /\ (NoFree(gc) => NoFree(Pushed(gc))) /\ Pushed(gc).oom = gc.oom
          /\ Len(Pushed(gc).scopes) = Len(gc.scopes) + 1 /\ Len(Pushed(gc).heap) = Len(gc.heap) + 1
      BY <1>1, SemFacts, PushedFacts
    <2>4. ~ gc'.oom => ~ gc.oom /\ NoFree(gc') BY <1>1, <2>2, <2>3, SemFacts, SameShapeKeeps DEF SameShape
    <2>5. Len(gc'.scopes) = Cardinality(Encl(code, at'))
      BY <1>1, <1>2, <2>1, <2>2, <2>3, SemFacts, CountOpen DEF SameShape
    <2>6. Reached(code, at') BY <1>1, <1>2, <2>1, EnclOpen, SemFacts DEF Reached
    <2>7. \A k \in DOMAIN code : symbolOf'[k] # 0 => symbolOf'[k] \in DOMAIN gc'.heap
      <3>1. /\ DOMAIN gc.heap = 1 .. Len(gc.heap) /\ Len(gc.heap) \in Nat
            /\ DOMAIN gc'.heap = 1 .. Len(gc'.heap) /\ Len(gc'.heap) = Len(gc.heap) + 1
        BY <1>1, <2>2, <2>3, SemFacts, Parents DEF SameShape
      <3>2. DOMAIN gc.heap \subseteq DOMAIN gc'.heap BY <3>1
      <3> QED BY <1>1, <3>2, SemFacts
    <2>8. \A k \in Names(code) : k < at' => symbolOf'[k] # 0 \/ k \in errors'
      <3> SUFFICES ASSUME NEW k \in Names(code), k < at' PROVE symbolOf'[k] # 0 \/ k \in errors' OBVIOUS
      <3>1. k < at \/ k = at BY <1>1, <2>1, NamesBefore, SemFacts
      <3>2. k # at BY <1>1, <1>2 DEF Names
      <3> QED BY <1>1, <3>1, <3>2, SemFacts
    <2> QED BY <1>1, <1>2, <2>1, <2>2, <2>4, <2>5, <2>6, <2>7, <2>8, SemStep, SemFacts
  <1> QED BY <1>3, <1>4

LEMMA SemCloseStep == ASSUME IInv, SemClose PROVE IInv'
  <1>1. /\ phase = "sem" /\ phase' = "sem" /\ at <= Len(code) /\ Token.t = "close" /\ at' = at + 1
        /\ UNCHANGED <<code, genVars, symbolOf, errors>>
    BY DEF SemClose, AtSem, semVars
  <1>2. /\ code \in Seq(TokenType) /\ WellNested(code) /\ at \in DOMAIN code /\ Token = code[at] /\ at \in Nat
        /\ at' \in 1 .. Len(code) + 1
    BY <1>1, SemFacts, NextToken
  <1>3. PICK k : k = InnerOf(code, at) OBVIOUS
  <1>4. /\ k \in Encl(code, at) /\ k \in DOMAIN code /\ code[k].t = "open" /\ k \in Nat
        /\ Encl(code, at + 1) = Encl(code, at) \ {k} /\ k = Innermost(at)
    BY <1>1, <1>2, <1>3, CloseFacts, TextNames
  <1>5. PICK g \in Popped(gc) : gc' = IF code[k].kind = "proc" THEN AddedHere(g, code[k].id, k) ELSE g
    BY <1>4 DEF SemClose
  <1>6. Cardinality(Encl(code, at)) = Cardinality(Encl(code, at + 1)) + 1
        /\ Cardinality(Encl(code, at + 1)) \in Nat
    BY <1>2, <1>4, CountClose, EnclFinite
  <1>7. gc.scopes # <<>> /\ Len(gc.scopes) = Cardinality(Encl(code, at)) BY <1>1, <1>6, SemFacts
  <1>8. /\ Sound(g) /\ (~ g.oom => ~ gc.oom /\ (NoFree(gc) => NoFree(g)))
        /\ Len(g.scopes) = Len(gc.scopes) - 1 /\ DOMAIN g.heap = DOMAIN gc.heap
    BY <1>1, <1>7, SemFacts, PoppedFacts
  <1>9. SameShape(g, gc')
    <2>1. SameShape(g, g) BY <1>8, SameShapeRefl DEF Sound
    <2>2. SameShape(g, AddedHere(g, code[k].id, k)) BY <1>2, <1>4, <1>8, OpenToken, AddedHereShape
    <2> QED BY <1>5, <2>1, <2>2
  <1>10. Sound(gc)' /\ (~ gc'.oom => ~ gc.oom /\ NoFree(gc)')
    BY <1>1, <1>8, <1>9, SemFacts, SameShapeKeeps DEF SameShape
  <1>11. Len(gc'.scopes) = Cardinality(Encl(code, at')) BY <1>1, <1>6, <1>7, <1>8, <1>9 DEF SameShape
  <1>12. Reached(code, at') BY <1>1, <1>4, SemFacts DEF Reached
  <1>13. \A j \in DOMAIN code : symbolOf'[j] # 0 => symbolOf'[j] \in DOMAIN gc'.heap
    BY <1>1, <1>8, <1>9, SemFacts DEF SameShape
  <1>14. \A j \in Names(code) : j < at' => symbolOf'[j] # 0 \/ j \in errors'
    <2> SUFFICES ASSUME NEW j \in Names(code), j < at' PROVE symbolOf'[j] # 0 \/ j \in errors' OBVIOUS
    <2>1. j < at \/ j = at BY <1>1, NamesBefore, SemFacts
    <2>2. j # at BY <1>1, <1>2 DEF Names
    <2> QED BY <1>1, <2>1, <2>2, SemFacts
  <1> QED BY <1>1, <1>2, <1>10, <1>11, <1>12, <1>13, <1>14, SemStep, SemFacts

LEMMA SemEndStep == ASSUME IInv, SemEnd PROVE IInv'
  <1>1. /\ phase = "sem" /\ at > Len(code) /\ at' = 1
        /\ phase' = "destroy" \/ (errors = {} /\ phase' = "gen")
        /\ UNCHANGED <<code, gc, symbolOf, errors, genVars>>
    BY DEF SemEnd, semVars
  <1>2. code \in Seq(TokenType) /\ WellNested(code) /\ at = Len(code) + 1 /\ Len(code) \in Nat
    BY <1>1 DEF IInv, TextInv
  <1>3. /\ Encl(code, at) = {} /\ Encl(code, at') = {} /\ Cardinality({}) = 0
        /\ In(code, at', Scoped) = {} /\ In(code, at', {"proc"}) = {}
    BY <1>1, <1>2, EnclEnds, FS_EmptySet
  <1>4. gc.scopes = <<>> /\ Len(gc.scopes) = 0
    <2>1. Len(gc.scopes) = 0 /\ gc.scopes \in Seq(Nat) BY <1>1, <1>3, SemFacts, CtxFields DEF Sound
    <2> QED BY <2>1
  <1>5. TextInv' BY <1>1, <1>2 DEF IInv, TextInv
  <1>6. CtxInv' BY <1>1, SemFacts DEF CtxInv
  <1>7. DepthInv'
    <2>1. depth' = 0 /\ calls' = <<>> /\ closed' \in BOOLEAN /\ <<>> \in Seq([again : Nat, closed : BOOLEAN])
      BY <1>1 DEF IInv, DepthInv, genVars
    <2>2. /\ Cardinality(Encl(code', at')) = 0 /\ Cardinality(In(code', at', Scoped)) = 0
          /\ Cardinality(In(code', at', {"proc"})) = 0
      BY <1>1, <1>3
    <2>3. gc'.scopes = <<>> /\ Len(gc'.scopes) = 0 /\ Len(calls') = 0 /\ phase' # "sem" BY <1>1, <1>4, <2>1
    <2> QED BY <2>1, <2>2, <2>3 DEF DepthInv
  <1>8. ResolvedInv'
    <2>1. Reached(code, at') BY <1>3 DEF Reached
    <2>2. \A k \in Names(code) : symbolOf[k] # 0 \/ k \in errors
      <3>1. \A k \in Names(code) : k < at BY <1>2 DEF Names
      <3> QED BY <1>1, <3>1, SemFacts
    <2>3. symbolOf' = symbolOf /\ errors' = errors /\ code' = code /\ gc' = gc /\ defers' = defers /\ made' = made
      BY <1>1 DEF genVars
    <2> QED BY <1>1, <2>1, <2>2, <2>3, SemFacts DEF IInv, ResolvedInv
  <1> QED BY <1>1, <1>5, <1>6, <1>7, <1>8 DEF IInv

\* The generator's part of the invariant, spelled out.
LEMMA GenFacts ==
  ASSUME IInv, phase = "gen"
  PROVE  /\ TextInv /\ code \in Seq(TokenType) /\ WellNested(code)
         /\ Sound(gc) /\ (~ gc.oom => NoFree(gc))
         /\ depth \in Nat /\ closed \in BOOLEAN /\ calls \in Seq(CallRec)
         /\ Len(calls) = Cardinality(Encl(code, at))
         /\ depth = Cardinality(In(code, at, Scoped))
         /\ Len(gc.scopes) = depth + Cardinality(In(code, at, {"proc"}))
         /\ Reached(code, at) /\ \A x \in defers : x.node \in Names(code)
         /\ \A k \in Names(code) : symbolOf[k] \in DOMAIN gc.heap
         /\ (~ gc.oom => \A b \in made : ~ b.dangling)
  <1>1. ASSUME NEW k \in Names(code) PROVE symbolOf[k] \in DOMAIN gc.heap
    <2>1. k \in DOMAIN code BY DEF Names
    <2> QED BY <2>1 DEF IInv, ResolvedInv
  <1>2. TextInv /\ code \in Seq(TokenType) /\ WellNested(code) BY DEF IInv, TextInv
  <1>3. Sound(gc) /\ (~ gc.oom => NoFree(gc)) BY DEF IInv, CtxInv
  <1>4. /\ depth \in Nat /\ closed \in BOOLEAN /\ calls \in Seq(CallRec)
        /\ Len(calls) = Cardinality(Encl(code, at))
        /\ depth = Cardinality(In(code, at, Scoped))
        /\ Len(gc.scopes) = depth + Cardinality(In(code, at, {"proc"}))
    BY DEF IInv, DepthInv, CallRec
  <1>5. /\ Reached(code, at) /\ \A x \in defers : x.node \in Names(code)
        /\ (~ gc.oom => \A b \in made : ~ b.dangling)
    BY DEF IInv, ResolvedInv
  <1> QED BY <1>1, <1>2, <1>3, <1>4, <1>5

\* While nothing is freed, no identifier is bound to a freed scope.
LEMMA BoundSafe ==
  ASSUME IInv, phase = "gen", NEW g, NoFree(g), DOMAIN gc.heap \subseteq DOMAIN g.heap,
         NEW k \in Names(code), NEW id
  PROVE  ~ Bound(g, k, id).dangling
  <1>1. symbolOf[k] \in DOMAIN g.heap BY GenFacts
  <1>2. g.heap[symbolOf[k]].frees = 0 BY <1>1 DEF NoFree
  <1>3. PICK f : f = g.heap[symbolOf[k]].frees OBVIOUS
  <1>4. ~ (f > 0) BY <1>2, <1>3
  <1>5. Bound(g, k, id).dangling = (IF Find(g, id) # 0 THEN FALSE ELSE f > 0) BY <1>3, Zenon DEF Bound
  <1> QED BY <1>4, <1>5

LEMMA BoundAllSafe ==
  ASSUME IInv, phase = "gen", NEW g, NoFree(g), DOMAIN gc.heap \subseteq DOMAIN g.heap,
         NEW ds \in SUBSET defers, NEW b \in BoundAll(g, ds)
  PROVE  ~ b.dangling
  <1>1. PICK x \in ds : b = Bound(g, x.node, code[x.node].id) BY DEF BoundAll
  <1>2. x.node \in Names(code) BY GenFacts
  <1> QED BY <1>1, <1>2, BoundSafe

LEMMA ResultSafe == ASSUME NEW g, NEW u, NEW b \in Result(g, u) PROVE ~ b.dangling
  BY DEF Result

\* A step over a token that opens and closes nothing.
LEMMA GenStay ==
  ASSUME IInv, phase = "gen", phase' = "gen", UNCHANGED <<code, semVars, depth, calls>>, at <= Len(code),
         at' = at + 1, Token.t \notin {"open", "close"}, SameShape(gc, gc'), closed' \in BOOLEAN,
         \A x \in defers' : x.node \in Names(code),
         ~ gc.oom => \A b \in made' : ~ b.dangling
  PROVE  IInv'
  <1>1. /\ at \in DOMAIN code /\ at' \in 1 .. Len(code) + 1 /\ Encl(code, at') = Encl(code, at)
    BY GenFacts, NextToken
  <1>2. /\ Sound(gc)' /\ (~ gc'.oom => ~ gc.oom /\ NoFree(gc)') /\ DOMAIN gc.heap \subseteq DOMAIN gc'.heap
        /\ gc'.scopes = gc.scopes /\ gc'.oom = gc.oom
    BY GenFacts, SameShapeKeeps DEF SameShape
  <1>3. /\ Cardinality(Encl(code, at')) = Cardinality(Encl(code, at))
        /\ Cardinality(In(code, at', Scoped)) = Cardinality(In(code, at, Scoped))
        /\ Cardinality(In(code, at', {"proc"})) = Cardinality(In(code, at, {"proc"}))
    BY <1>1, CountSame
  <1>4. Reached(code, at') BY <1>1, GenFacts DEF Reached
  <1>5. depth' \in Nat /\ calls' \in Seq(CallRec) BY GenFacts
  <1>6. /\ Len(calls') = Cardinality(Encl(code, at')) /\ depth' = Cardinality(In(code, at', Scoped))
        /\ Len(gc'.scopes) = depth' + Cardinality(In(code, at', {"proc"}))
    BY <1>2, <1>3, GenFacts
  <1> QED BY <1>1, <1>2, <1>4, <1>5, <1>6, GenStep

LEMMA GenVarStep == ASSUME IInv, GenVar PROVE IInv'
  <1>1. /\ phase = "gen" /\ phase' = "gen" /\ at <= Len(code) /\ Token.t = "var" /\ at' = at + 1
        /\ UNCHANGED <<code, semVars, depth, calls, defers, made>> /\ closed' \in BOOLEAN
        /\ gc' = AddedHere(gc, Token.id, at)
    BY DEF GenVar, AtGen
  <1>2. Token.id \in Ids /\ at \in Nat BY <1>1, GenFacts, NextToken, TokenFields
  <1>3. SameShape(gc, gc') BY <1>1, <1>2, GenFacts, AddedHereShape
  <1> QED BY <1>1, <1>3, GenStay, GenFacts

LEMMA GenConstStep == ASSUME IInv, GenConst PROVE IInv'
  <1>1. /\ phase = "gen" /\ phase' = "gen" /\ at <= Len(code) /\ Token.t = "const" /\ at' = at + 1
        /\ UNCHANGED <<code, semVars, depth, calls, defers, made, closed, gc>>
    BY DEF GenConst, AtGen, genVars
  <1>2. SameShape(gc, gc') BY <1>1, GenFacts, SameShapeRefl DEF Sound
  <1>3. closed' \in BOOLEAN BY <1>1, GenFacts
  <1> QED BY <1>1, <1>2, <1>3, GenStay, GenFacts

\* The token walked over is a name that can be reached.
LEMMA NameHere ==
  ASSUME IInv, phase = "gen", at <= Len(code), Token.t \in {"use", "defer"}
  PROVE  at \in Names(code)
  BY GenFacts, NextToken DEF Names

LEMMA GenUseStep == ASSUME IInv, GenUse PROVE IInv'
  <1>1. /\ phase = "gen" /\ phase' = "gen" /\ at <= Len(code) /\ Token.t = "use" /\ at' = at + 1
        /\ UNCHANGED <<code, semVars, depth, calls, defers, gc>> /\ closed' \in BOOLEAN
        /\ made' = made \cup {Bound(gc, at, Token.id)}
    BY DEF GenUse, AtGen
  <1>2. SameShape(gc, gc') BY <1>1, GenFacts, SameShapeRefl DEF Sound
  <1>3. ~ gc.oom => ~ Bound(gc, at, Token.id).dangling BY <1>1, NameHere, BoundSafe, GenFacts
  <1>4. ~ gc.oom => \A b \in made' : ~ b.dangling BY <1>1, <1>3, GenFacts
  <1> QED BY <1>1, <1>2, <1>4, GenStay, GenFacts

LEMMA GenDeferStep == ASSUME IInv, GenDefer PROVE IInv'
  <1>1. /\ phase = "gen" /\ phase' = "gen" /\ at <= Len(code) /\ Token.t = "defer" /\ at' = at + 1
        /\ UNCHANGED <<code, semVars, depth, calls, closed, gc, made>>
        /\ defers' = defers \cup {[node |-> at, depth |-> depth]}
    BY DEF GenDefer, AtGen
  <1>2. SameShape(gc, gc') BY <1>1, GenFacts, SameShapeRefl DEF Sound
  <1>3. \A x \in defers' : x.node \in Names(code) BY <1>1, NameHere, GenFacts
  <1>4. closed' \in BOOLEAN BY <1>1, GenFacts
  <1> QED BY <1>1, <1>2, <1>3, <1>4, GenStay, GenFacts

LEMMA GenReturnStep == ASSUME IInv, GenReturn PROVE IInv'
  <1>1. /\ phase = "gen" /\ phase' = "gen" /\ at <= Len(code) /\ Token.t = "return" /\ at' = at + 1
        /\ UNCHANGED <<code, semVars, depth, calls, gc>> /\ closed' \in BOOLEAN /\ defers' = {}
        /\ made' = made \cup BoundAll(gc, defers) \cup Result(gc, at)
    BY DEF GenReturn, AtGen
  <1>2. SameShape(gc, gc') BY <1>1, GenFacts, SameShapeRefl DEF Sound
  <1>3. ~ gc.oom => \A b \in BoundAll(gc, defers) : ~ b.dangling BY <1>1, BoundAllSafe, GenFacts
  <1>4. ~ gc.oom => \A b \in made' : ~ b.dangling BY <1>1, <1>3, ResultSafe, GenFacts
  <1> QED BY <1>1, <1>2, <1>4, GenStay

\* A context with n more scopes in use, and none freed.
Grew(g, h, n) ==
  /\ Sound(h) /\ h.oom = g.oom /\ (NoFree(g) => NoFree(h)) /\ DOMAIN g.heap \subseteq DOMAIN h.heap
  /\ Len(h.scopes) = Len(g.scopes) + n

LEMMA GrewPushed == ASSUME NEW g, Sound(g) PROVE Grew(g, Pushed(g), 1)
  <1>1. PICK h : h = Pushed(g) OBVIOUS
  <1>2. /\ Sound(h) /\ (NoFree(g) => NoFree(h)) /\ h.oom = g.oom
        /\ Len(h.scopes) = Len(g.scopes) + 1 /\ Len(h.heap) = Len(g.heap) + 1
    BY <1>1, PushedFacts
  <1>3. DOMAIN g.heap \subseteq DOMAIN h.heap
    <2>1. /\ DOMAIN g.heap = 1 .. Len(g.heap) /\ DOMAIN h.heap = 1 .. Len(h.heap) /\ Len(g.heap) \in Nat
      BY <1>2, Parents
    <2> QED BY <1>2, <2>1
  <1> QED BY <1>1, <1>2, <1>3 DEF Grew

LEMMA GrewShape == ASSUME NEW g, NEW h, Sound(g), SameShape(g, h) PROVE Grew(g, h, 0)
  <1>1. Sound(h) /\ (NoFree(g) => NoFree(h)) BY SameShapeKeeps
  <1>2. Len(g.scopes) \in Nat BY CtxFields DEF Sound
  <1> QED BY <1>1, <1>2 DEF Grew, SameShape

LEMMA GrewTrans ==
  ASSUME NEW g, NEW h, NEW i, NEW m \in Nat, NEW n \in Nat, NEW k \in Nat, k = m + n,
         Sound(g), Grew(g, h, m), Grew(h, i, n)
  PROVE  Grew(g, i, k)
  <1>1. Len(g.scopes) \in Nat BY CtxFields DEF Sound
  <1>2. PICK a \in Nat : a = Len(g.scopes) BY <1>1
  <1>3. PICK b : b = Len(h.scopes) OBVIOUS
  <1>4. b = a + m /\ Len(i.scopes) = b + n BY <1>2, <1>3 DEF Grew
  <1>5. Len(i.scopes) = a + k BY <1>4
  <1> QED BY <1>2, <1>5 DEF Grew

LEMMA ContextSetShape ==
  ASSUME NEW g, Sound(g), NEW k \in Nat
  PROVE  SameShape(g, ContextSet(g, k))
  <1>1. PICK s : s = IF Find(g, Context) = 0 THEN Current(g) ELSE Find(g, Context) OBVIOUS
  <1>2. s \in DOMAIN g.heap BY <1>1, FindRange, CurrentScope
  <1>3. ContextSet(g, k) = Added(g, s, Context, k) BY <1>1 DEF ContextSet
  <1> QED BY <1>2, <1>3, AddedShape, LocalAssumption DEF Sound

LEMMA GenProcScopesGrew ==
  ASSUME code \in Seq(TokenType), NEW k \in DOMAIN code, code[k].t = "open", NEW g, Sound(g)
  PROVE  Grew(g, GenProcScopes(g, k), 2)
  <1>1. /\ k \in Nat /\ code[k].id \in Ids \cup {NoId} /\ code[k].param \in Ids \cup {NoId}
        /\ code[k].result \in Ids \cup {NoId}
    BY OpenToken
  <1>2. PICK g1 : g1 = AddedHere(g, code[k].id, k) OBVIOUS
  <1>3. Grew(g, g1, 0) /\ Sound(g1) BY <1>1, <1>2, AddedHereShape, GrewShape
  <1>4. PICK g2 : g2 = Pushed(g1) OBVIOUS
  <1>5. Grew(g1, g2, 1) /\ Sound(g2) BY <1>3, <1>4, GrewPushed DEF Grew
  <1>6. PICK g3 : g3 = AddedHere(g2, code[k].param, k) OBVIOUS
  <1>7. SameShape(g2, g3) /\ Sound(g3) BY <1>1, <1>5, <1>6, AddedHereShape
  <1>8. PICK g4 : g4 = AddedHere(g3, code[k].result, k) OBVIOUS
  <1>9. SameShape(g3, g4) /\ Sound(g4) BY <1>1, <1>7, <1>8, AddedHereShape
  <1>10. PICK g5 : g5 = ContextSet(g4, k) OBVIOUS
  <1>11. SameShape(g4, g5) BY <1>1, <1>9, <1>10, ContextSetShape
  <1>12. SameShape(g2, g5) BY <1>7, <1>9, <1>11, SameShapeTrans
  <1>13. Grew(g2, g5, 0) /\ Sound(g5) BY <1>5, <1>12, GrewShape DEF Grew
  <1>14. Grew(g5, Pushed(g5), 1) BY <1>13, GrewPushed
  <1>15. Grew(g2, Pushed(g5), 1) BY <1>5, <1>13, <1>14, GrewTrans
  <1>16. Grew(g1, Pushed(g5), 2) BY <1>3, <1>5, <1>15, GrewTrans
  <1>17. Grew(g, Pushed(g5), 2) BY <1>3, <1>16, GrewTrans
  <1>18. GenProcScopes(g, k) = Pushed(g5) BY <1>2, <1>4, <1>6, <1>8, <1>10 DEF GenProcScopes
  <1> QED BY <1>17, <1>18

LEMMA MarkedConstShape ==
  ASSUME code \in Seq(TokenType), NEW k \in DOMAIN code, code[k].t = "open", NEW g, Sound(g)
  PROVE  SameShape(g, MarkedConst(g, k))
  <1>1. k \in Nat /\ code[k].id \in Ids \cup {NoId} BY OpenToken
  <1>2. PICK id : id = code[k].id OBVIOUS
  <1>3. PICK h : h = AddedHere(g, id, k) OBVIOUS
  <1>4. SameShape(g, h) /\ Sound(h) /\ h \in CtxType BY <1>1, <1>2, <1>3, AddedHereShape DEF Sound
  <1>5. PICK s : s = Current(h) OBVIOUS
  <1>6. s \in DOMAIN h.heap /\ s = Current(g) /\ s \in DOMAIN g.heap
    BY <1>4, <1>5, CurrentScope, SameShapeKeeps
  <1>7. h.heap \in Seq(ScopeRec) /\ h.heap[s] \in ScopeRec BY <1>4, <1>6, CtxFields
  <1>8. id \in Ids => h.heap[s].syms[id] \in [decl : Nat, konst : Nat]
    <2> SUFFICES ASSUME id \in Ids PROVE h.heap[s].syms[id] \in [decl : Nat, konst : Nat] OBVIOUS
    <2>1. g.heap \in Seq(ScopeRec) /\ g \in CtxType /\ g.heap[s] \in ScopeRec
      BY <1>6, CtxFields DEF Sound
    <2>2. PICK y : y = g.heap[s].syms[id] OBVIOUS
    <2>3. y \in Sym BY <2>1, <2>2 DEF ScopeRec
    <2>4. PICK z : z = IF y = NoSym THEN [decl |-> k, konst |-> 0] ELSE [y EXCEPT !.decl = k] OBVIOUS
    <2>5. z \in [decl : Nat, konst : Nat] BY <1>1, <2>3, <2>4 DEF Sym
    <2>6. PICK ss : ss = [g.heap[s].syms EXCEPT ![id] = z] OBVIOUS
    <2>7. ss[id] = z BY <2>1, <2>6 DEF ScopeRec
    <2>8. id # NoId BY LocalAssumption
    <2>9. h = Added(g, s, id, k) BY <1>3, <1>6, <2>8 DEF AddedHere
    <2>10. Added(g, s, id, k) = [g EXCEPT !.heap = [g.heap EXCEPT ![s] = [g.heap[s] EXCEPT !.syms = ss]]]
      BY <2>2, <2>4, <2>6 DEF Added
    <2>11. PICK p : p = [g.heap EXCEPT ![s] = [g.heap[s] EXCEPT !.syms = ss]] OBVIOUS
    <2>12. h.heap = p BY <2>1, <2>9, <2>10, <2>11 DEF CtxType
    <2>13. p[s].syms = ss BY <1>6, <2>1, <2>11 DEF ScopeRec
    <2> QED BY <2>5, <2>7, <2>12, <2>13
  <1>9. PICK y : y = [h.heap[s].syms EXCEPT ![id] = [@ EXCEPT !.konst = k]] OBVIOUS
  <1>10. y \in [Ids -> Sym] BY <1>1, <1>7, <1>8, <1>9 DEF ScopeRec, Sym
  <1>11. PICK x : x = [h.heap[s] EXCEPT !.syms = y] OBVIOUS
  <1>12. x \in ScopeRec /\ x.parent = h.heap[s].parent /\ x.frees = h.heap[s].frees
    BY <1>7, <1>10, <1>11 DEF ScopeRec
  <1>13. PICK p : p = [h.heap EXCEPT ![s] = x] OBVIOUS
  <1>14. /\ p \in Seq(ScopeRec) /\ Len(p) = Len(h.heap) /\ DOMAIN p = DOMAIN h.heap
         /\ \A z \in DOMAIN h.heap : p[z].parent = h.heap[z].parent /\ p[z].frees = h.heap[z].frees
    BY <1>6, <1>7, <1>12, <1>13
  <1>15. PICK m : m = MarkedConst(g, k) OBVIOUS
  <1>16. m = [h EXCEPT !.heap = p]
    BY <1>2, <1>3, <1>5, <1>9, <1>11, <1>13, <1>15 DEF MarkedConst
  <1>17. /\ m \in CtxType /\ m.heap = p /\ m.scopes = h.scopes /\ m.deferred = h.deferred /\ m.oom = h.oom
    BY <1>4, <1>14, <1>16 DEF CtxType
  <1>18. SameShape(h, m) BY <1>14, <1>17 DEF SameShape
  <1> QED BY <1>4, <1>15, <1>18, SameShapeTrans

LEMMA GenOpenStep == ASSUME IInv, GenOpen PROVE IInv'
  <1>1. /\ phase = "gen" /\ phase' = "gen" /\ at <= Len(code) /\ Token.t = "open" /\ at' = at + 1
        /\ ~ LeftOut(code, at) /\ UNCHANGED <<code, semVars, defers, made>>
        /\ depth' = (IF Token.kind \in {"do", "loopdo"} THEN depth ELSE depth + 1)
        /\ calls' = Append(calls, [again |-> UnrollCount - 1, closed |-> closed])
        /\ closed' = (IF Token.kind = "block" THEN closed ELSE FALSE)
    BY TextNames DEF GenOpen, AtGen
  <1>2. /\ code \in Seq(TokenType) /\ WellNested(code) /\ at \in DOMAIN code /\ Token = code[at] /\ at \in Nat
        /\ at' \in 1 .. Len(code) + 1 /\ Sound(gc)
    BY <1>1, GenFacts, NextToken
  <1>3. Token.kind \in Kinds /\ Token.id \in Ids \cup {NoId} BY <1>1, <1>2, OpenToken
  <1>4. closed' \in BOOLEAN /\ depth' \in Nat
    <2>1. closed \in BOOLEAN /\ depth \in Nat BY <1>1, GenFacts
    <2>2. closed' = closed \/ closed' = FALSE BY <1>1, Zenon
    <2>3. depth' \in Nat BY <1>1, <2>1
    <2> QED BY <2>1, <2>2, <2>3
  <1>5. calls' \in Seq(CallRec) /\ Len(calls') = Len(calls) + 1
    <2>1. [again |-> UnrollCount - 1, closed |-> closed] \in CallRec
      BY <1>1, GenFacts, LocalAssumption DEF CallRec
    <2> QED BY <1>1, <2>1, GenFacts
  <1>6. PICK n : n = IF Token.kind = "proc" THEN 2 ELSE IF Token.kind \in {"do", "loopdo"} THEN 0 ELSE 1
    OBVIOUS
  <1>7. Grew(gc, gc', n)
    <2>1. gc' = (CASE Token.kind = "proc"   -> GenProcScopes(gc, at)
                   [] Token.kind = "loop"   -> Pushed(AddedHere(gc, Token.id, at))
                   [] Token.kind = "unroll" -> Pushed(MarkedConst(gc, at))
                   [] Token.kind = "loopdo" -> AddedHere(gc, Token.id, at)
                   [] Token.kind = "do"     -> gc
                   [] OTHER                 -> Pushed(gc))
      BY Zenon DEF GenOpen
    <2>2. CASE Token.kind = "proc" BY <1>1, <1>2, <1>6, <2>1, <2>2, GenProcScopesGrew
    <2>3. CASE Token.kind = "loop"
      <3>1. PICK g : g = AddedHere(gc, Token.id, at) OBVIOUS
      <3>2. Grew(gc, g, 0) /\ Sound(g) BY <1>2, <1>3, <3>1, AddedHereShape, GrewShape
      <3>3. Grew(g, Pushed(g), 1) BY <3>2, GrewPushed
      <3>4. Grew(gc, Pushed(g), 1) BY <1>2, <3>2, <3>3, GrewTrans
      <3>5. gc' = Pushed(g) /\ n = 1 BY <1>6, <2>1, <2>3, <3>1
      <3> QED BY <3>4, <3>5
    <2>4. CASE Token.kind = "unroll"
      <3>1. PICK g : g = MarkedConst(gc, at) OBVIOUS
      <3>2. Grew(gc, g, 0) /\ Sound(g) BY <1>1, <1>2, <3>1, MarkedConstShape, GrewShape DEF Grew
      <3>3. Grew(g, Pushed(g), 1) BY <3>2, GrewPushed
      <3>4. Grew(gc, Pushed(g), 1) BY <1>2, <3>2, <3>3, GrewTrans
      <3>5. gc' = Pushed(g) /\ n = 1 BY <1>6, <2>1, <2>4, <3>1
      <3> QED BY <3>4, <3>5
    <2>5. CASE Token.kind = "loopdo"
      <3>1. gc' = AddedHere(gc, Token.id, at) /\ n = 0 BY <1>6, <2>1, <2>5
      <3> QED BY <1>2, <1>3, <3>1, AddedHereShape, GrewShape
    <2>6. CASE Token.kind = "do"
      <3>1. gc' = gc /\ n = 0 BY <1>6, <2>1, <2>6
      <3> QED BY <1>2, <3>1, SameShapeRefl, GrewShape DEF Sound
    <2>7. CASE Token.kind \notin {"proc", "loop", "unroll", "loopdo", "do"}
      <3>1. gc' = Pushed(gc) /\ n = 1 BY <1>6, <2>1, <2>7
      <3> QED BY <1>2, <3>1, GrewPushed
    <2> QED BY <2>2, <2>3, <2>4, <2>5, <2>6, <2>7
  <1>8. Len(calls') = Cardinality(Encl(code, at')) BY <1>1, <1>2, <1>5, CountOpen, GenFacts
  <1>9. depth' = Cardinality(In(code, at', Scoped)) BY <1>1, <1>2, <1>3, CountOpen, GenFacts DEF Scoped
  <1>10. Len(gc'.scopes) = depth' + Cardinality(In(code, at', {"proc"}))
    <2>1. PICK p \in Nat : p = Cardinality(In(code, at, {"proc"})) BY <1>2, EnclFinite
    <2>2. Cardinality(In(code, at', {"proc"})) = IF Token.kind = "proc" THEN p + 1 ELSE p
      BY <1>1, <1>2, <2>1, CountOpen
    <2>3. Len(gc.scopes) = depth + p /\ depth \in Nat BY <1>1, <2>1, GenFacts
    <2>4. Len(gc'.scopes) = Len(gc.scopes) + n BY <1>7 DEF Grew
    <2> QED BY <1>1, <1>6, <2>2, <2>3, <2>4
  <1>11. Reached(code, at') BY <1>1, <1>2, EnclOpen, GenFacts DEF Reached
  <1>12. /\ Sound(gc)' /\ (~ gc'.oom => ~ gc.oom /\ NoFree(gc)') /\ DOMAIN gc.heap \subseteq DOMAIN gc'.heap
         /\ gc'.oom = gc.oom
    BY <1>1, <1>7, GenFacts DEF Grew
  <1>13. (\A x \in defers' : x.node \in Names(code)) /\ (~ gc'.oom => \A b \in made' : ~ b.dangling)
    BY <1>1, <1>12, GenFacts
  <1> QED BY <1>1, <1>2, <1>4, <1>5, <1>8, <1>9, <1>10, <1>11, <1>12, <1>13, GenStep

LEMMA GenSkipStep == ASSUME IInv, GenSkip PROVE IInv'
  <1>1. /\ phase = "gen" /\ phase' = "gen" /\ at <= Len(code) /\ Token.t = "open" /\ at' = Token.end + 1
        /\ UNCHANGED <<code, semVars, defers, made, gc, depth, closed, calls>>
    BY DEF GenSkip, AtGen, genVars
  <1>2. /\ code \in Seq(TokenType) /\ WellNested(code) /\ at \in DOMAIN code /\ Token = code[at]
        /\ at' \in 1 .. Len(code) + 1
    BY <1>1, GenFacts, NextToken
  <1>3. Encl(code, at') = Encl(code, at) BY <1>1, <1>2, EnclSkip
  <1>4. /\ Cardinality(Encl(code, at')) = Cardinality(Encl(code, at))
        /\ Cardinality(In(code, at', Scoped)) = Cardinality(In(code, at, Scoped))
        /\ Cardinality(In(code, at', {"proc"})) = Cardinality(In(code, at, {"proc"}))
    BY <1>3, CountSame
  <1>5. Reached(code, at') BY <1>1, <1>3, GenFacts DEF Reached
  <1>6. /\ depth' \in Nat /\ calls' \in Seq(CallRec) /\ closed' \in BOOLEAN
        /\ Len(calls') = Cardinality(Encl(code, at')) /\ depth' = Cardinality(In(code, at', Scoped))
        /\ Len(gc'.scopes) = depth' + Cardinality(In(code, at', {"proc"}))
    BY <1>1, <1>4, GenFacts
  <1>7. Sound(gc)' /\ (~ gc'.oom => ~ gc.oom /\ NoFree(gc)') BY <1>1, GenFacts
  <1>8. /\ \A x \in defers' : x.node \in Names(code)
        /\ ~ gc'.oom => \A b \in made' : ~ b.dangling
        /\ DOMAIN gc.heap \subseteq DOMAIN gc'.heap
    BY <1>1, GenFacts
  <1> QED BY <1>1, <1>2, <1>5, <1>6, <1>7, <1>8, GenStep

\* The generator at the end of the statement k.
LEMMA AtCloseFacts ==
  ASSUME IInv, NEW ks \in SUBSET Kinds, AtClose(ks)
  PROVE  /\ phase = "gen" /\ at <= Len(code) /\ at \in Nat /\ at + 1 \in 1 .. Len(code) + 1
         /\ Innermost(at) \in Encl(code, at) /\ Innermost(at) \in DOMAIN code /\ Innermost(at) \in Nat
         /\ Innermost(at) + 1 \in 1 .. Len(code) + 1
         /\ code[Innermost(at)].kind \in ks
         /\ Encl(code, at + 1) = Encl(code, at) \ {Innermost(at)}
         /\ Encl(code, Innermost(at) + 1) = Encl(code, at)
         /\ Reached(code, at + 1) /\ Reached(code, Innermost(at) + 1)
         /\ Len(calls) = Cardinality(Encl(code, at + 1)) + 1 /\ Cardinality(Encl(code, at + 1)) \in Nat
         /\ calls # <<>> /\ Call \in CallRec
         /\ (Returned => calls' \in Seq(CallRec) /\ Len(calls') = Len(calls) - 1)
  <1>1. phase = "gen" /\ at <= Len(code) /\ Token.t = "close" /\ code[Innermost(at)].kind \in ks
    BY DEF AtClose, AtGen
  <1>2. /\ code \in Seq(TokenType) /\ WellNested(code) /\ at \in DOMAIN code /\ at \in Nat
        /\ code[at].t = "close" /\ at + 1 \in 1 .. Len(code) + 1
    BY <1>1, GenFacts, NextToken
  <1>3. PICK k : k = Innermost(at) OBVIOUS
  <1>4. /\ k \in Encl(code, at) /\ k \in DOMAIN code /\ k \in Nat
        /\ Encl(code, at + 1) = Encl(code, at) \ {k} /\ Encl(code, k + 1) = Encl(code, at)
    BY <1>2, <1>3, TextNames, CloseFacts
  <1>5. k + 1 \in 1 .. Len(code) + 1 BY <1>2, <1>4
  <1>6. Reached(code, at + 1) /\ Reached(code, k + 1) BY <1>1, <1>4, GenFacts DEF Reached
  <1>7. Len(calls) = Cardinality(Encl(code, at + 1)) + 1 /\ Cardinality(Encl(code, at + 1)) \in Nat
    BY <1>1, <1>2, <1>4, CountClose, EnclFinite, GenFacts
  <1>8. calls \in Seq(CallRec) /\ calls # <<>> BY <1>1, <1>7, GenFacts
  <1>9. Call \in CallRec BY <1>8 DEF Call
  <1>10. Returned => calls' \in Seq(CallRec) /\ Len(calls') = Len(calls) - 1
    <2>1. SubSeq(calls, 1, Len(calls) - 1) \in Seq(CallRec) /\ IsFront(SubSeq(calls, 1, Len(calls) - 1), calls)
      BY <1>8, FrontOf, Zenon
    <2> QED BY <2>1 DEF Returned, IsFront
  <1> QED BY <1>1, <1>2, <1>3, <1>4, <1>5, <1>6, <1>7, <1>8, <1>9, <1>10

LEMMA GenCloseDoStep == ASSUME IInv, GenCloseDo PROVE IInv'
  <1>1. /\ AtClose({"do", "loopdo"}) /\ phase' = phase /\ at' = at + 1 /\ closed' = FALSE /\ Returned
        /\ UNCHANGED <<code, semVars, defers, made, gc, depth>>
    BY DEF GenCloseDo
  <1>2. {"do", "loopdo"} \in SUBSET Kinds BY DEF Kinds
  <1>3. PICK k : k = Innermost(at) OBVIOUS
  <1>4. /\ phase = "gen" /\ at' \in 1 .. Len(code) + 1 /\ k \in Encl(code, at) /\ code[k].kind \in {"do", "loopdo"}
        /\ Encl(code, at + 1) = Encl(code, at) \ {k}
        /\ Reached(code, at') /\ Len(calls) = Cardinality(Encl(code, at + 1)) + 1
        /\ Cardinality(Encl(code, at + 1)) \in Nat
        /\ calls' \in Seq(CallRec) /\ Len(calls') = Len(calls) - 1
    BY <1>1, <1>2, <1>3, AtCloseFacts
  <1>5. code[k].kind \notin Scoped /\ code[k].kind \notin {"proc"} BY <1>4 DEF Scoped
  <1>6. /\ Cardinality(In(code, at', Scoped)) = Cardinality(In(code, at, Scoped))
        /\ Cardinality(In(code, at', {"proc"})) = Cardinality(In(code, at, {"proc"}))
    BY <1>1, <1>4, <1>5, GenFacts, CountClose
  <1>7. /\ Len(calls') = Cardinality(Encl(code, at')) /\ depth' = Cardinality(In(code, at', Scoped))
        /\ Len(gc'.scopes) = depth' + Cardinality(In(code, at', {"proc"}))
    BY <1>1, <1>4, <1>6, GenFacts
  <1>8. /\ Sound(gc)' /\ (~ gc'.oom => ~ gc.oom /\ NoFree(gc)') /\ DOMAIN gc.heap \subseteq DOMAIN gc'.heap
    BY <1>1, <1>4, GenFacts
  <1>9. /\ \A x \in defers' : x.node \in Names(code)
        /\ ~ gc'.oom => \A b \in made' : ~ b.dangling
        /\ depth' \in Nat /\ closed' \in BOOLEAN
    BY <1>1, <1>4, GenFacts
  <1> QED BY <1>1, <1>4, <1>7, <1>8, <1>9, GenStep

LEMMA GenCloseStep == ASSUME IInv, GenClose PROVE IInv'
  <1>1. PICK k : k = Innermost(at) OBVIOUS
  <1>2. PICK mine : mine = AtDepth(defers, depth) OBVIOUS
  <1>3. PICK more \in BOOLEAN : more = (code[k].kind = "unroll" /\ Call.again > 0) OBVIOUS
  <1>4. /\ AtClose(ScopeKinds) /\ phase' = phase /\ UNCHANGED <<code, semVars>>
        /\ made' = made \cup BoundAll(gc, mine)
        /\ \E g \in Popped(gc) : gc' = IF more THEN Pushed(g) ELSE g
        /\ closed' \in BOOLEAN
        /\ depth' = (IF more THEN depth ELSE depth - 1)
        /\ at' = (IF more THEN k + 1 ELSE at + 1)
        /\ IF more THEN calls' = [calls EXCEPT ![Len(calls)].again = @ - 1] ELSE Returned
        /\ defers' = NotAtDepth(defers, depth)
    BY <1>1, <1>2, <1>3 DEF GenClose
  <1>5. ScopeKinds \in SUBSET Kinds BY DEF Kinds
  <1>6. /\ phase = "gen" /\ at + 1 \in 1 .. Len(code) + 1 /\ k + 1 \in 1 .. Len(code) + 1
        /\ k \in Encl(code, at) /\ code[k].kind \in ScopeKinds
        /\ Encl(code, at + 1) = Encl(code, at) \ {k} /\ Encl(code, k + 1) = Encl(code, at)
        /\ Reached(code, at + 1) /\ Reached(code, k + 1)
        /\ Len(calls) = Cardinality(Encl(code, at + 1)) + 1 /\ Cardinality(Encl(code, at + 1)) \in Nat
        /\ calls # <<>> /\ Call \in CallRec
        /\ (Returned => calls' \in Seq(CallRec) /\ Len(calls') = Len(calls) - 1)
    BY <1>1, <1>4, <1>5, AtCloseFacts
  <1>7. code[k].kind \in Scoped /\ code[k].kind \notin {"proc"} BY <1>6 DEF Scoped, ScopeKinds, Kinds
  <1>8. /\ Cardinality(In(code, at, Scoped)) = Cardinality(In(code, at + 1, Scoped)) + 1
        /\ Cardinality(In(code, at + 1, {"proc"})) = Cardinality(In(code, at, {"proc"}))
        /\ Cardinality(In(code, at + 1, Scoped)) \in Nat /\ Cardinality(In(code, at, {"proc"})) \in Nat
    <2>1. code \in Seq(TokenType) /\ WellNested(code) BY <1>6, GenFacts
    <2>2. Cardinality(In(code, at + 1, Scoped)) \in Nat /\ Cardinality(In(code, at, {"proc"})) \in Nat
      BY <2>1, EnclFinite
    <2>3. Cardinality(In(code, at, Scoped)) = Cardinality(In(code, at + 1, Scoped)) + 1
      BY <1>6, <1>7, <2>1, CountClose
    <2>4. Cardinality(In(code, at + 1, {"proc"})) = Cardinality(In(code, at, {"proc"}))
      BY <1>6, <1>7, <2>1, CountClose
    <2> QED BY <2>2, <2>3, <2>4
  <1>9. PICK g \in Popped(gc) : gc' = (IF more THEN Pushed(g) ELSE g) BY <1>4
  <1>10. gc.scopes # <<>> /\ Len(gc.scopes) \in Nat /\ Len(gc.scopes) >= 1
    <2>1. Len(gc.scopes) = depth + Cardinality(In(code, at, {"proc"})) /\ depth = Cardinality(In(code, at, Scoped))
      BY <1>6, GenFacts
    <2>2. Len(gc.scopes) >= 1 /\ Len(gc.scopes) \in Nat BY <2>1, <1>8
    <2> QED BY <2>2
  <1>11. /\ Sound(g) /\ (~ g.oom => ~ gc.oom /\ (NoFree(gc) => NoFree(g)))
         /\ Len(g.scopes) = Len(gc.scopes) - 1 /\ DOMAIN g.heap = DOMAIN gc.heap
    BY <1>6, <1>10, GenFacts, PoppedFacts
  <1>12. PICK n : n = IF more THEN 1 ELSE 0 OBVIOUS
  <1>13. Grew(g, gc', n)
    <2>1. CASE more BY <1>9, <1>11, <1>12, <2>1, GrewPushed
    <2>2. CASE ~ more BY <1>9, <1>11, <1>12, <2>2, SameShapeRefl, GrewShape DEF Sound
    <2> QED BY <2>1, <2>2
  <1>14. /\ Sound(gc)' /\ (~ gc'.oom => ~ gc.oom /\ NoFree(gc)') /\ DOMAIN gc.heap \subseteq DOMAIN gc'.heap
    BY <1>6, <1>11, <1>13, GenFacts DEF Grew
  <1>15. Len(gc'.scopes) = Len(gc.scopes) - 1 + n BY <1>11, <1>13 DEF Grew
  <1>16. /\ at' \in 1 .. Len(code) + 1 /\ Reached(code, at') BY <1>4, <1>6
  <1>17. \A x \in defers' : x.node \in Names(code) BY <1>4, <1>6, GenFacts DEF NotAtDepth
  <1>18. ~ gc'.oom => \A b \in made' : ~ b.dangling
    <2>1. mine \in SUBSET defers BY <1>2 DEF AtDepth
    <2>2. ~ gc.oom => \A b \in BoundAll(gc, mine) : ~ b.dangling BY <1>6, <2>1, BoundAllSafe, GenFacts
    <2> QED BY <1>4, <1>6, <1>14, <2>2, GenFacts
  <1>19. /\ depth' \in Nat /\ calls' \in Seq(CallRec)
         /\ Len(calls') = Cardinality(Encl(code, at')) /\ depth' = Cardinality(In(code, at', Scoped))
         /\ Len(gc'.scopes) = depth' + Cardinality(In(code, at', {"proc"}))
    <2>1. Len(gc.scopes) = depth + Cardinality(In(code, at, {"proc"})) /\ depth = Cardinality(In(code, at, Scoped))
      BY <1>6, GenFacts
    <2>2. CASE more
      <3>1. at' = k + 1 /\ depth' = depth /\ calls' = [calls EXCEPT ![Len(calls)].again = @ - 1] /\ n = 1
        BY <1>4, <1>12, <2>2
      <3>2. /\ Cardinality(Encl(code, at')) = Cardinality(Encl(code, at))
            /\ Cardinality(In(code, at', Scoped)) = Cardinality(In(code, at, Scoped))
            /\ Cardinality(In(code, at', {"proc"})) = Cardinality(In(code, at, {"proc"}))
        BY <1>6, <3>1, CountSame
      <3>3. calls' \in Seq(CallRec) /\ Len(calls') = Len(calls)
        <4>1. calls \in Seq(CallRec) /\ Len(calls) \in DOMAIN calls BY <1>6, GenFacts
        <4>2. Call.again > 0 /\ Call.again \in Nat /\ Call.closed \in BOOLEAN /\ Call = calls[Len(calls)]
          BY <1>3, <1>6, <2>2 DEF Call, CallRec
        <4>3. PICK r : r = [Call EXCEPT !.again = @ - 1] OBVIOUS
        <4>4. r \in CallRec BY <4>2, <4>3, <1>6 DEF CallRec
        <4>5. calls' = [calls EXCEPT ![Len(calls)] = r] BY <3>1, <4>2, <4>3
        <4> QED BY <4>1, <4>4, <4>5
      <3>4. Len(gc'.scopes) = Len(gc.scopes) BY <1>10, <1>15, <3>1
      <3> QED BY <1>6, <2>1, <3>1, <3>2, <3>3, <3>4, GenFacts
    <2>3. CASE ~ more
      <3>1. at' = at + 1 /\ depth' = depth - 1 /\ Returned /\ n = 0 BY <1>4, <1>12, <2>3
      <3>2. calls' \in Seq(CallRec) /\ Len(calls') = Len(calls) - 1 BY <1>6, <3>1
      <3>3. Len(calls') = Cardinality(Encl(code, at')) BY <1>6, <3>1, <3>2
      <3>4. depth' = Cardinality(In(code, at', Scoped)) /\ depth' \in Nat BY <1>8, <2>1, <3>1
      <3>5. Len(gc'.scopes) = depth' + Cardinality(In(code, at', {"proc"}))
        BY <1>8, <1>10, <1>15, <2>1, <3>1
      <3> QED BY <3>2, <3>3, <3>4, <3>5
    <2> QED BY <2>2, <2>3
  <1> QED BY <1>4, <1>6, <1>14, <1>16, <1>17, <1>18, <1>19, GenStep

LEMMA GenCloseProcStep == ASSUME IInv, GenCloseProc PROVE IInv'
  <1>1. PICK k : k = Innermost(at) OBVIOUS
  <1>2. PICK mine : mine = AtDepth(defers, depth) OBVIOUS
  <1>3. PICK rest : rest = NotAtDepth(defers, depth) OBVIOUS
  <1>4. PICK falls : falls = (~ closed \/ mine # {}) OBVIOUS
  <1>5. PICK outer : outer = IF falls THEN AtDepth(rest, depth - 1) ELSE {} OBVIOUS
  <1>6. /\ AtClose({"proc"}) /\ phase' = phase /\ UNCHANGED <<code, semVars>>
        /\ depth' = depth - 1 /\ closed' = Call.closed /\ Returned /\ at' = at + 1
    BY DEF GenCloseProc
  <1>7. PICK g \in Popped(gc) :
           /\ made' = made \cup BoundAll(gc, mine) \cup BoundAll(g, outer)
                        \cup (IF falls /\ Innermost(k) = 0 THEN Result(g, at) ELSE {})
           /\ gc' \in Popped(g)
           /\ defers' = IF falls THEN NotAtDepth(rest, depth - 1) ELSE rest
    BY <1>1, <1>2, <1>3, <1>4, <1>5, Zenon DEF GenCloseProc
  <1>8. {"proc"} \in SUBSET Kinds BY DEF Kinds
  <1>9. /\ phase = "gen" /\ at' \in 1 .. Len(code) + 1
        /\ k \in Encl(code, at) /\ code[k].kind \in {"proc"}
        /\ Encl(code, at + 1) = Encl(code, at) \ {k} /\ Reached(code, at + 1)
        /\ Len(calls) = Cardinality(Encl(code, at + 1)) + 1 /\ Cardinality(Encl(code, at + 1)) \in Nat
        /\ Call \in CallRec /\ calls' \in Seq(CallRec) /\ Len(calls') = Len(calls) - 1
    BY <1>1, <1>6, <1>8, AtCloseFacts
  <1>10. code[k].kind \in Scoped BY <1>9 DEF Scoped, Kinds
  <1>11. /\ Cardinality(In(code, at, Scoped)) = Cardinality(In(code, at + 1, Scoped)) + 1
         /\ Cardinality(In(code, at, {"proc"})) = Cardinality(In(code, at + 1, {"proc"})) + 1
         /\ Cardinality(In(code, at + 1, Scoped)) \in Nat /\ Cardinality(In(code, at + 1, {"proc"})) \in Nat
    <2>1. code \in Seq(TokenType) /\ WellNested(code) BY <1>9, GenFacts
    <2>2. /\ Cardinality(In(code, at + 1, Scoped)) \in Nat
          /\ Cardinality(In(code, at + 1, {"proc"})) \in Nat
      BY <2>1, EnclFinite
    <2>3. Cardinality(In(code, at, Scoped)) = Cardinality(In(code, at + 1, Scoped)) + 1
      BY <1>9, <1>10, <2>1, CountClose
    <2>4. Cardinality(In(code, at, {"proc"})) = Cardinality(In(code, at + 1, {"proc"})) + 1
      BY <1>9, <2>1, CountClose
    <2> QED BY <2>2, <2>3, <2>4
  <1>12. /\ Len(gc.scopes) = depth + Cardinality(In(code, at, {"proc"}))
         /\ depth = Cardinality(In(code, at, Scoped))
    BY <1>9, GenFacts
  <1>13. gc.scopes # <<>> /\ Len(gc.scopes) \in Nat /\ Len(gc.scopes) >= 2
    <2>1. Len(gc.scopes) >= 2 /\ Len(gc.scopes) \in Nat BY <1>11, <1>12
    <2> QED BY <2>1
  <1>14. /\ Sound(g) /\ (~ g.oom => ~ gc.oom /\ (NoFree(gc) => NoFree(g)))
         /\ Len(g.scopes) = Len(gc.scopes) - 1 /\ DOMAIN g.heap = DOMAIN gc.heap
    BY <1>9, <1>13, GenFacts, PoppedFacts
  <1>15. g.scopes # <<>> BY <1>13, <1>14
  <1>16. /\ Sound(gc)' /\ (~ gc'.oom => ~ g.oom /\ (NoFree(g) => NoFree(gc)'))
         /\ Len(gc'.scopes) = Len(g.scopes) - 1 /\ DOMAIN gc'.heap = DOMAIN g.heap
    BY <1>7, <1>14, <1>15, PoppedFacts
  <1>17. /\ (~ gc'.oom => ~ gc.oom /\ NoFree(gc)' /\ ~ g.oom /\ NoFree(g))
         /\ DOMAIN gc.heap \subseteq DOMAIN gc'.heap /\ DOMAIN gc.heap \subseteq DOMAIN g.heap
    BY <1>9, <1>14, <1>16, GenFacts
  <1>18. mine \in SUBSET defers /\ outer \in SUBSET defers /\ rest \in SUBSET defers /\ defers' \in SUBSET defers
    BY <1>2, <1>3, <1>5, <1>7 DEF AtDepth, NotAtDepth
  <1>19. \A x \in defers' : x.node \in Names(code) BY <1>9, <1>18, GenFacts
  <1>20. ~ gc'.oom => \A b \in made' : ~ b.dangling
    <2> SUFFICES ASSUME ~ gc'.oom, NEW b \in made' PROVE ~ b.dangling OBVIOUS
    <2>1. b \in made => ~ b.dangling BY <1>9, <1>17, GenFacts
    <2>2. b \in BoundAll(gc, mine) => ~ b.dangling BY <1>9, <1>17, <1>18, BoundAllSafe, GenFacts
    <2>3. b \in BoundAll(g, outer) => ~ b.dangling BY <1>9, <1>17, <1>18, BoundAllSafe
    <2>4. b \in Result(g, at) => ~ b.dangling BY ResultSafe
    <2> QED BY <1>7, <2>1, <2>2, <2>3, <2>4
  <1>21. /\ depth' \in Nat /\ closed' \in BOOLEAN
         /\ Len(calls') = Cardinality(Encl(code, at')) /\ depth' = Cardinality(In(code, at', Scoped))
         /\ Len(gc'.scopes) = depth' + Cardinality(In(code, at', {"proc"}))
    <2>1. closed' \in BOOLEAN BY <1>6, <1>9 DEF CallRec
    <2>2. depth' = Cardinality(In(code, at', Scoped)) /\ depth' \in Nat BY <1>6, <1>11, <1>12
    <2>3. Len(calls') = Cardinality(Encl(code, at')) BY <1>6, <1>9
    <2>4. Len(gc'.scopes) = depth' + Cardinality(In(code, at', {"proc"}))
      BY <1>6, <1>11, <1>12, <1>13, <1>14, <1>16
    <2> QED BY <2>1, <2>2, <2>3, <2>4
  <1>22. Reached(code, at') BY <1>6, <1>9
  <1> QED BY <1>6, <1>9, <1>16, <1>17, <1>19, <1>20, <1>21, <1>22, GenStep

LEMMA GenEndStep == ASSUME IInv, GenEnd PROVE IInv'
  <1>1. /\ phase = "gen" /\ at > Len(code) /\ phase' = "release" /\ at' = 1
        /\ UNCHANGED <<code, gc, symbolOf, errors, calls, depth, defers, closed, made>>
    BY DEF GenEnd, semVars, genVars
  <1>2. code \in Seq(TokenType) /\ WellNested(code) /\ at = Len(code) + 1 /\ Len(code) \in Nat
    BY <1>1 DEF IInv, TextInv
  <1>3. /\ Cardinality({}) = 0 /\ In(code, at, Scoped) = {} /\ In(code, at, {"proc"}) = {}
    BY <1>1, <1>2, EnclEnds, FS_EmptySet
  <1>4. gc.scopes = <<>>
    <2>1. /\ Len(gc.scopes) = depth + Cardinality(In(code, at, {"proc"}))
          /\ depth = Cardinality(In(code, at, Scoped)) /\ Sound(gc)
      BY <1>1, GenFacts
    <2>2. depth = 0 /\ Cardinality(In(code, at, {"proc"})) = 0 BY <1>3, <2>1
    <2>3. Len(gc.scopes) = 0 BY <2>1, <2>2
    <2>4. gc \in CtxType BY <2>1 DEF Sound
    <2>5. gc.scopes \in Seq(Nat) BY <2>4, CtxFields
    <2> QED BY <2>3, <2>5
  <1>5. TextInv' BY <1>1, <1>2 DEF IInv, TextInv
  <1>6. CtxInv' BY <1>1, GenFacts DEF CtxInv
  <1>7. DepthInv' BY <1>1, <1>4 DEF IInv, DepthInv
  <1>8. ResolvedInv' BY <1>1 DEF IInv, ResolvedInv
  <1> QED BY <1>1, <1>5, <1>6, <1>7, <1>8 DEF IInv

\* Freeing a list of different scopes frees each of them once.
LEMMA FreeAllFacts ==
  ASSUME NEW g \in CtxType, NEW list \in Seq(Nat), \A j, k \in DOMAIN list : list[j] = list[k] => j = k
  PROVE  /\ FreeAll(g, list) \in CtxType
         /\ FreeAll(g, list).scopes = g.scopes /\ FreeAll(g, list).deferred = g.deferred
         /\ FreeAll(g, list).oom = g.oom
         /\ DOMAIN FreeAll(g, list).heap = DOMAIN g.heap
         /\ \A s \in DOMAIN g.heap :
              /\ FreeAll(g, list).heap[s].parent = g.heap[s].parent
              /\ FreeAll(g, list).heap[s].frees =
                   IF \E k \in DOMAIN list : list[k] = s THEN g.heap[s].frees + 1 ELSE g.heap[s].frees
  <1>1. g.heap \in Seq(ScopeRec) /\ DOMAIN g.heap = 1 .. Len(g.heap) /\ Len(g.heap) \in Nat BY CtxFields
  <1>2. PICK n : n = [s \in DOMAIN g.heap |-> Cardinality({k \in DOMAIN list : list[k] = s})] OBVIOUS
  <1>3. ASSUME NEW s \in DOMAIN g.heap
        PROVE  n[s] \in Nat /\ n[s] = IF \E k \in DOMAIN list : list[k] = s THEN 1 ELSE 0
    <2>1. PICK K : K = {k \in DOMAIN list : list[k] = s} OBVIOUS
    <2>2. n[s] = Cardinality(K) BY <1>2, <2>1
    <2>3. CASE \E k \in DOMAIN list : list[k] = s
      <3>1. PICK k \in DOMAIN list : list[k] = s BY <2>3
      <3>2. K = {k} BY <2>1, <3>1
      <3>3. Cardinality(K) = 1 BY <3>2, FS_Singleton
      <3> QED BY <2>2, <2>3, <3>3
    <2>4. CASE ~ \E k \in DOMAIN list : list[k] = s
      <3>1. K = {} BY <2>1, <2>4
      <3>2. Cardinality(K) = 0 BY <3>1, FS_EmptySet
      <3> QED BY <2>2, <2>4, <3>2
    <2> QED BY <2>3, <2>4
  <1>4. PICK p : p = [s \in DOMAIN g.heap |-> [g.heap[s] EXCEPT !.frees = @ + n[s]]] OBVIOUS
  <1>5. ASSUME NEW s \in DOMAIN g.heap
        PROVE  p[s] \in ScopeRec /\ p[s].parent = g.heap[s].parent /\ p[s].frees = g.heap[s].frees + n[s]
    <2>1. g.heap[s] \in ScopeRec BY <1>1
    <2>2. PICK m : m = n[s] OBVIOUS
    <2>3. PICK y : y = g.heap[s] OBVIOUS
    <2>4. PICK x : x = [y EXCEPT !.frees = @ + m] OBVIOUS
    <2>5. m \in Nat /\ y \in ScopeRec BY <1>3, <2>1, <2>2, <2>3
    <2>6. x \in ScopeRec /\ x.parent = y.parent /\ x.frees = y.frees + m BY <2>4, <2>5 DEF ScopeRec
    <2>7. p[s] = x BY <1>4, <2>2, <2>3, <2>4
    <2> QED BY <2>2, <2>3, <2>6, <2>7
  <1>6. p \in Seq(ScopeRec) /\ DOMAIN p = DOMAIN g.heap
    <2>1. DOMAIN p = DOMAIN g.heap BY <1>4
    <2>2. p = [s \in DOMAIN g.heap |-> p[s]] BY <1>4
    <2>3. p \in [DOMAIN g.heap -> ScopeRec] BY <1>5, <2>2, Zenon
    <2>4. PICK l \in Nat : l = Len(g.heap) BY <1>1
    <2>5. p \in [1 .. l -> ScopeRec] BY <1>1, <2>3, <2>4
    <2>6. p \in Seq(ScopeRec) BY <2>5
    <2> QED BY <2>1, <2>6
  <1>7. FreeAll(g, list) = [g EXCEPT !.heap = p]
    <2>1. ASSUME NEW s \in DOMAIN g.heap
          PROVE  [g.heap[s] EXCEPT !.frees = @ + n[s]]
                   = [g.heap[s] EXCEPT !.frees = @ + Cardinality({k \in DOMAIN list : list[k] = s})]
      BY <1>2, Zenon
    <2>2. p = [s \in DOMAIN g.heap |-> [g.heap[s] EXCEPT
                 !.frees = @ + Cardinality({k \in DOMAIN list : list[k] = s})]]
      BY <1>4, <2>1, Zenon
    <2> QED BY <2>2, Zenon DEF FreeAll
  <1>8. PICK h : h = [g EXCEPT !.heap = p] OBVIOUS
  <1>9. h \in CtxType /\ h.heap = p /\ h.scopes = g.scopes /\ h.deferred = g.deferred /\ h.oom = g.oom
    BY <1>6, <1>8 DEF CtxType
  <1>10. \A s \in DOMAIN g.heap : g.heap[s].frees \in Nat
    <2>1. \A s \in DOMAIN g.heap : g.heap[s] \in ScopeRec BY <1>1
    <2> QED BY <2>1 DEF ScopeRec
  <1>11. ASSUME NEW s \in DOMAIN g.heap
         PROVE  p[s].frees = IF \E k \in DOMAIN list : list[k] = s THEN g.heap[s].frees + 1 ELSE g.heap[s].frees
    BY <1>3, <1>5, <1>10
  <1>12. FreeAll(g, list) = h BY <1>7, <1>8
  <1>13. DOMAIN FreeAll(g, list).heap = DOMAIN g.heap BY <1>6, <1>9, <1>12
  <1>14. ASSUME NEW s \in DOMAIN g.heap
         PROVE  /\ FreeAll(g, list).heap[s].parent = g.heap[s].parent
                /\ FreeAll(g, list).heap[s].frees =
                     IF \E k \in DOMAIN list : list[k] = s THEN g.heap[s].frees + 1 ELSE g.heap[s].frees
    <2>1. FreeAll(g, list).heap = p BY <1>9, <1>12
    <2>2. p[s].parent = g.heap[s].parent BY <1>5
    <2> QED BY <1>11, <2>1, <2>2
  <1> QED BY <1>9, <1>12, <1>13, <1>14

LEMMA ReleaseStep == ASSUME IInv, Release PROVE IInv'
  <1>1. /\ phase = "release" /\ phase' = "destroy"
        /\ UNCHANGED <<code, at, symbolOf, errors, calls, depth, defers, closed, made>>
        /\ gc' = [FreeAll(gc, gc.deferred) EXCEPT !.deferred = <<>>, !.capacity = 0]
    BY DEF Release, semVars, genVars
  <1>2. Sound(gc) /\ gc \in CtxType /\ gc.scopes = <<>> /\ gc.deferred \in Seq(Nat)
    BY <1>1, CtxFields DEF IInv, CtxInv, DepthInv, Sound
  <1>3. \A j, k \in DOMAIN gc.deferred : gc.deferred[j] = gc.deferred[k] => j = k BY <1>2 DEF Sound, Partition
  <1>4. PICK f : f = FreeAll(gc, gc.deferred) OBVIOUS
  <1>5. /\ f \in CtxType /\ f.scopes = gc.scopes /\ f.oom = gc.oom /\ DOMAIN f.heap = DOMAIN gc.heap
        /\ \A s \in DOMAIN gc.heap :
             /\ f.heap[s].parent = gc.heap[s].parent
             /\ f.heap[s].frees = IF \E k \in DOMAIN gc.deferred : gc.deferred[k] = s
                                  THEN gc.heap[s].frees + 1 ELSE gc.heap[s].frees
    <2>1. PICK d \in Seq(Nat) : d = gc.deferred BY <1>2
    <2>2. PICK c \in CtxType : c = gc BY <1>2
    <2>3. \A j, k \in DOMAIN d : d[j] = d[k] => j = k BY <1>3, <2>1
    <2>4. f = FreeAll(c, d) BY <1>4, <2>1, <2>2
    <2>5. /\ f \in CtxType /\ f.scopes = c.scopes /\ f.oom = c.oom /\ DOMAIN f.heap = DOMAIN c.heap
          /\ \A s \in DOMAIN c.heap :
               /\ f.heap[s].parent = c.heap[s].parent
               /\ f.heap[s].frees = IF \E k \in DOMAIN d : d[k] = s
                                    THEN c.heap[s].frees + 1 ELSE c.heap[s].frees
      BY <2>3, <2>4, FreeAllFacts
    <2> QED BY <2>1, <2>2, <2>5
  <1>6. gc' = [f EXCEPT !.deferred = <<>>, !.capacity = 0] BY <1>1, <1>4
  <1>7. <<>> \in Seq(Nat) /\ DOMAIN <<>> = {} OBVIOUS
  <1>8. /\ gc' \in CtxType /\ gc'.heap = f.heap /\ gc'.scopes = <<>> /\ gc'.deferred = <<>> /\ gc'.oom = gc.oom
    <2>1. f.scopes = <<>> /\ f.oom = gc.oom BY <1>2, <1>5 DEF CtxType
    <2> QED BY <1>5, <1>6, <1>7, <2>1 DEF CtxType
  <1>9. Chain(gc')
    <2>1. 1 \in DOMAIN gc'.heap /\ \A s \in DOMAIN gc'.heap : gc'.heap[s].parent < s
      BY <1>2, <1>5, <1>8 DEF Sound, Chain
    <2> QED BY <2>1, <1>7, <1>8 DEF Chain
  <1>10. Partition(gc')
    <2>1. ASSUME NEW s \in DOMAIN gc.heap PROVE f.heap[s].frees = IF s = 1 THEN 0 ELSE 1
      <3>1. Listed(gc, s) <=> \E k \in DOMAIN gc.deferred : gc.deferred[k] = s BY <1>2, <1>7 DEF Listed
      <3>2. s = 1 => ~ \E k \in DOMAIN gc.deferred : gc.deferred[k] = s BY <1>2 DEF Sound, Partition
      <3>3. gc.heap[s].frees = IF s = 1 \/ Listed(gc, s) THEN 0 ELSE 1 BY <1>2 DEF Sound, Partition
      <3> QED BY <1>5, <3>1, <3>2, <3>3
    <2>2. \A s : ~ Listed(gc', s) BY <1>7, <1>8 DEF Listed
    <2> QED BY <1>5, <1>7, <1>8, <2>1, <2>2 DEF Partition
  <1>11. CtxInv' BY <1>1, <1>8, <1>9, <1>10 DEF CtxInv, Sound
  <1>12. TextInv' BY <1>1 DEF IInv, TextInv
  <1>13. DepthInv' BY <1>1, <1>8 DEF IInv, DepthInv
  <1>14. ResolvedInv' BY <1>1, <1>8 DEF IInv, ResolvedInv
  <1> QED BY <1>1, <1>11, <1>12, <1>13, <1>14 DEF IInv

LEMMA DestroyStep == ASSUME IInv, Destroy PROVE IInv'
  <1>1. /\ phase = "destroy" /\ phase' = "done"
        /\ UNCHANGED <<code, at, symbolOf, errors, calls, depth, defers, closed, made>>
        /\ gc' = FreeAll(gc, gc.scopes \o gc.deferred \o <<1>>)
    BY DEF Destroy, semVars, genVars
  <1>2. Sound(gc) /\ gc \in CtxType /\ gc.scopes = <<>> /\ gc.deferred \in Seq(Nat)
    BY <1>1, CtxFields DEF IInv, CtxInv, DepthInv, Sound
  <1>3. PICK list : list = gc.scopes \o gc.deferred \o <<1>> OBVIOUS
  <1>4. list = Append(gc.deferred, 1)
    <2>1. gc.scopes \o gc.deferred = gc.deferred BY <1>2
    <2> QED BY <1>2, <1>3, <2>1
  <1>5. /\ list \in Seq(Nat) /\ DOMAIN list = 1 .. Len(gc.deferred) + 1 /\ list[Len(gc.deferred) + 1] = 1
        /\ \A k \in DOMAIN gc.deferred : k \in DOMAIN list /\ list[k] = gc.deferred[k]
        /\ \A k \in DOMAIN list : k = Len(gc.deferred) + 1 \/ k \in DOMAIN gc.deferred
        /\ Len(gc.deferred) + 1 \in DOMAIN list
    BY <1>2, <1>4
  <1>6. /\ \A j \in DOMAIN gc.deferred : gc.deferred[j] # 1
        /\ \A j, k \in DOMAIN gc.deferred : gc.deferred[j] = gc.deferred[k] => j = k
    BY <1>2 DEF Sound, Partition
  <1>7. \A j, k \in DOMAIN list : list[j] = list[k] => j = k BY <1>5, <1>6
  <1>8. /\ gc' \in CtxType /\ gc'.scopes = gc.scopes /\ gc'.oom = gc.oom /\ DOMAIN gc'.heap = DOMAIN gc.heap
        /\ \A s \in DOMAIN gc.heap :
             gc'.heap[s].frees = IF \E k \in DOMAIN list : list[k] = s
                                 THEN gc.heap[s].frees + 1 ELSE gc.heap[s].frees
    <2>1. PICK c \in CtxType : c = gc BY <1>2
    <2>2. PICK d \in Seq(Nat) : d = list BY <1>5
    <2>3. \A j, k \in DOMAIN d : d[j] = d[k] => j = k BY <1>7, <2>2
    <2>4. PICK f : f = FreeAll(c, d) OBVIOUS
    <2>5. /\ f \in CtxType /\ f.scopes = c.scopes /\ f.oom = c.oom /\ DOMAIN f.heap = DOMAIN c.heap
          /\ \A s \in DOMAIN c.heap :
               /\ f.heap[s].parent = c.heap[s].parent
               /\ f.heap[s].frees = IF \E k \in DOMAIN d : d[k] = s
                                    THEN c.heap[s].frees + 1 ELSE c.heap[s].frees
      BY <2>3, <2>4, FreeAllFacts
    <2>6. gc' = f BY <1>1, <1>3, <2>1, <2>2, <2>4
    <2> QED BY <2>1, <2>2, <2>5, <2>6
  <1>9. gc'.scopes = <<>> /\ gc'.oom = gc.oom BY <1>2, <1>8 DEF CtxType
  <1>10. ASSUME NEW s \in DOMAIN gc.heap PROVE gc'.heap[s].frees = 1
    <2>1. Listed(gc, s) <=> \E k \in DOMAIN gc.deferred : gc.deferred[k] = s
      BY <1>2 DEF Listed
    <2>2. (\E k \in DOMAIN list : list[k] = s) <=> s = 1 \/ Listed(gc, s) BY <1>5, <2>1
    <2>3. gc.heap[s].frees = IF s = 1 \/ Listed(gc, s) THEN 0 ELSE 1 BY <1>2 DEF Sound, Partition
    <2> QED BY <1>8, <2>2, <2>3
  <1>11. CtxInv' BY <1>1, <1>8, <1>9, <1>10 DEF CtxInv
  <1>12. TextInv' BY <1>1 DEF IInv, TextInv
  <1>13. DepthInv' BY <1>1, <1>9 DEF IInv, DepthInv
  <1>14. ResolvedInv' BY <1>1, <1>9 DEF IInv, ResolvedInv
  <1> QED BY <1>1, <1>11, <1>12, <1>13, <1>14 DEF IInv

-----------------------------------------------------------------------------
(* The theorems.                                                           *)

LEMMA Inductive == IInv /\ [Next]_vars => IInv'
  <1> SUFFICES ASSUME IInv, [Next]_vars PROVE IInv' OBVIOUS
  <1>1. CASE UNCHANGED vars
    <2>1. TextInv' BY <1>1 DEF vars, IInv, TextInv
    <2>2. CtxInv' BY <1>1 DEF vars, IInv, CtxInv
    <2>3. DepthInv' BY <1>1 DEF vars, IInv, DepthInv
    <2>4. ResolvedInv' BY <1>1 DEF vars, IInv, ResolvedInv
    <2> QED BY <1>1, <2>1, <2>2, <2>3, <2>4 DEF vars, IInv
  <1>2. CASE Analyse
    BY <1>2, SemVarStep, SemConstStep, SemUseStep, SemReturnStep, SemOpenStep, SemCloseStep, SemEndStep
    DEF Analyse
  <1>3. CASE Generate
    BY <1>3, GenVarStep, GenConstStep, GenUseStep, GenDeferStep, GenReturnStep, GenOpenStep, GenSkipStep,
       GenCloseDoStep, GenCloseStep, GenCloseProcStep, GenEndStep
    DEF Generate
  <1>4. CASE Release BY <1>4, ReleaseStep
  <1>5. CASE Destroy BY <1>5, DestroyStep
  <1> QED BY <1>1, <1>2, <1>3, <1>4, <1>5 DEF Next

LEMMA Invariant == Spec => []IInv
  BY InitIInv, Inductive, PTL DEF Spec

\* The scope stack of the context is the chain of parents of the current scope
\* at every step of both walks, and no scope on it waits to be freed: pushes and
\* pops (generator_push_scope, generator_pop_scope) match in every program.
THEOREM ScopeTypes == Spec => []TypeOK
  <1>1. IInv => TypeOK
    <2> SUFFICES ASSUME IInv PROVE TypeOK OBVIOUS
    <2>1. /\ phase \in {"sem", "gen", "release", "destroy", "done"} /\ at \in 1 .. Len(code) + 1
          /\ depth \in Nat /\ closed \in BOOLEAN /\ errors \subseteq DOMAIN code
      BY DEF IInv, TextInv, DepthInv
    <2>2. ASSUME NEW k \in DOMAIN gc.scopes
          PROVE  /\ gc.heap[gc.scopes[k]].frees = 0
                 /\ gc.heap[gc.scopes[k]].parent = IF k = 1 THEN 1 ELSE gc.scopes[k - 1]
                 /\ \A j \in DOMAIN gc.deferred : gc.deferred[j] # gc.scopes[k]
      <3>1. phase # "done"
        <4>1. phase = "done" => DOMAIN gc.scopes = {} BY DEF IInv, CtxInv
        <4> QED BY <4>1
      <3>2. Sound(gc) BY <3>1 DEF IInv, CtxInv
      <3>3. /\ gc.scopes[k] \in DOMAIN gc.heap
            /\ gc.heap[gc.scopes[k]].parent = IF k = 1 THEN 1 ELSE gc.scopes[k - 1]
        BY <3>2 DEF Sound, Chain
      <3>4. Listed(gc, gc.scopes[k]) BY DEF Listed
      <3> QED BY <3>2, <3>3, <3>4 DEF Sound, Partition
    <2> QED BY <2>1, <2>2 DEF TypeOK
  <1> QED BY <1>1, Invariant, PTL

\* Every scope is freed exactly once when the context is destroyed, whatever
\* reallocation failed on the way (generator_pop_scope frees the scope it cannot
\* keep), and as long as none fails the generator never follows a
\* resolved_symbol into a freed scope.
THEOREM ScopesFreedOnce == Spec => []FreedOnceAndLate
  <1>1. IInv => FreedOnceAndLate
    <2> SUFFICES ASSUME IInv PROVE FreedOnceAndLate OBVIOUS
    <2>1. ASSUME NEW s \in DOMAIN gc.heap
          PROVE  gc.heap[s].frees <= 1 /\ (phase = "done" => gc.heap[s].frees = 1)
      <3>1. CASE phase = "done" BY <3>1 DEF IInv, CtxInv
      <3>2. CASE phase # "done"
        <4>1. gc.heap[s].frees = IF s = 1 \/ Listed(gc, s) THEN 0 ELSE 1
          BY <3>2 DEF IInv, CtxInv, Sound, Partition
        <4> QED BY <3>2, <4>1
      <3> QED BY <3>1, <3>2
    <2>2. ~ gc.oom => \A b \in made : ~ b.dangling BY DEF IInv, ResolvedInv
    <2> QED BY <2>1, <2>2 DEF FreedOnceAndLate
  <1> QED BY <1>1, Invariant, PTL

-----------------------------------------------------------------------------
(* Block structure.  Every scope of the stack belongs to a statement       *)
(* around the current token, and holds for each name the last declaration  *)
(* that this statement owns; so the first scope up the stack that has a    *)
(* name holds the name's innermost declaration.                            *)

\* Declares, OwnerOf, Visible and HiddenConst, of a given text.
DeclaresIn(c, k, id) ==
  \/ c[k].t \in {"var", "const"} /\ c[k].id = id
  \/ c[k].t = "open" /\ id \in {c[k].id, c[k].param, c[k].result}
  \/ c[k].t = "open" /\ c[k].kind = "proc" /\ id = Context
NameOfProc(c, k, id) == c[k].kind = "proc" /\ c[k].id = id
OwnerIn(c, k, id) == IF c[k].t = "open" /\ ~ NameOfProc(c, k, id) THEN k ELSE InnerOf(c, k)
VisibleIn(c, e, u, id) ==
  {k \in DOMAIN c : k < u /\ k \notin e /\ DeclaresIn(c, k, id) /\ OwnerIn(c, k, id) \in Encl(c, u) \cup {0}}
HiddenIn(c, id) == \E k \in DOMAIN c : DeclaresIn(c, k, id) /\ LeftOut(c, k)

\* The declarations of a name before token u that statement o owns.
Own(c, u, e, id, o) == {k \in DOMAIN c : k < u /\ k \notin e /\ DeclaresIn(c, k, id) /\ OwnerIn(c, k, id) = o}
\* What the scope of o says of the name; a procedure's has its own name, too.
Want(c, G, u, e, id, o) ==
  IF Own(c, u, e, id, o) # {} THEN Greatest(Own(c, u, e, id, o))
  ELSE IF o = 0 THEN (IF id \in G THEN 0 ELSE NoSym)
  ELSE IF NameOfProc(c, o, id) THEN o ELSE NoSym
Val(g, s, id) == IF g.heap[s].syms[id] = NoSym THEN NoSym ELSE g.heap[s].syms[id].decl

\* The n-th scope, and the statement it belongs to; 0 is the global scope.
ScopeAt(g, n)  == IF n = 0 THEN 1 ELSE g.scopes[n]
OpenAt(os, n) == IF n = 0 THEN 0 ELSE os[n]

Sorted(c, u, os) ==
  /\ \A n \in 1 .. Len(os) : os[n] \in Encl(c, u)
  /\ \A k \in Encl(c, u) : \E n \in 1 .. Len(os) : os[n] = k
  /\ \A m, n \in 1 .. Len(os) : m < n => os[m] < os[n]
Levels(g, c, G, u, e, os) ==
  /\ os \in Seq(Nat) /\ Len(os) = Len(g.scopes) /\ Sorted(c, u, os)
  /\ \A id \in Ids : ~ HiddenIn(c, id) =>
       \A n \in 0 .. Len(os) : Val(g, ScopeAt(g, n), id) = Want(c, G, u, e, id, OpenAt(os, n))

\* d is what the name means at token u: Lexical, without its CHOOSE.
Before(c, id, j, k) ==
  OwnerIn(c, j, id) < OwnerIn(c, k, id) \/ (OwnerIn(c, j, id) = OwnerIn(c, k, id) /\ j < k)
IsLexical(c, G, e, u, id, d) ==
  \/ VisibleIn(c, e, u, id) = {} /\ d = IF id \in G THEN 0 ELSE NoSym
  \/ d \in VisibleIn(c, e, u, id) /\ \A j \in VisibleIn(c, e, u, id) \ {d} : Before(c, id, j, d)

LexInv ==
  /\ globals \subseteq Ids /\ \A k \in errors : code[k].t # "open"
  /\ phase = "sem" => /\ \E os \in Seq(Nat) : Levels(gc, code, globals, at, errors, os)
                      /\ \A u \in DOMAIN code : u >= at => u \notin errors /\ meant[u] = NoSym
  /\ meant \in [DOMAIN code -> Nat \cup {NoSym}]
  /\ \A u \in Names(code) : (u < at \/ phase # "sem") /\ ~ HiddenIn(code, code[u].id) =>
       /\ IsLexical(code, globals, errors, u, code[u].id, meant[u])
       /\ u \in errors <=> meant[u] = NoSym

-----------------------------------------------------------------------------
(* The text: what is declared, and where.                                  *)

\* A set of numbers below a bound has one greatest element.
LEMMA GreatestFacts ==
  ASSUME NEW n \in Nat, NEW S \in SUBSET (1 .. n), S # {}
  PROVE  /\ Greatest(S) \in S /\ \A j \in S : j <= Greatest(S)
         /\ \A m \in S : (\A j \in S : j <= m) => Greatest(S) = m
  <1>1. PICK T : T = {n - k : k \in S} OBVIOUS
  <1>2. T \in SUBSET Nat /\ T # {}
    <2>1. \A k \in S : n - k \in Nat OBVIOUS
    <2> QED BY <1>1, <2>1
  <1>3. PICK t \in T : \A k \in T : t <= k BY <1>2, Least
  <1>4. PICK x \in S : t = n - x BY <1>1
  <1>5. ASSUME NEW k \in S PROVE k <= x
    <2>1. n - k \in T BY <1>1
    <2>2. n - x <= n - k BY <2>1, <1>3, <1>4
    <2> QED BY <2>2
  <1>6. Greatest(S) = CHOOSE k \in S : \A j \in S : j <= k BY DEF Greatest
  <1>7. Greatest(S) \in S /\ \A j \in S : j <= Greatest(S) BY <1>5, <1>6
  <1>8. ASSUME NEW m \in S, \A j \in S : j <= m PROVE Greatest(S) = m
    <2>1. m <= Greatest(S) /\ Greatest(S) <= m BY <1>7, <1>8
    <2>2. m \in Nat /\ Greatest(S) \in Nat
      <3>1. \A j \in S : j \in Nat OBVIOUS
      <3> QED BY <3>1, <1>7
    <2> QED BY <2>1, <2>2
  <1> QED BY <1>7, <1>8

\* The innermost statement around a token.
LEMMA InnerFacts ==
  ASSUME NEW c \in Seq(TokenType), NEW u
  PROVE  /\ InnerOf(c, u) \in Encl(c, u) \cup {0} /\ InnerOf(c, u) \in Nat
         /\ \A j \in Encl(c, u) : j \in Nat /\ j >= 1 /\ j <= InnerOf(c, u)
         /\ \A m \in Encl(c, u) : (\A j \in Encl(c, u) : j <= m) => InnerOf(c, u) = m
         /\ Encl(c, u) = {} => InnerOf(c, u) = 0
  <1>1. Encl(c, u) \in SUBSET (1 .. Len(c)) /\ Len(c) \in Nat BY DEF Encl
  <1>2. CASE Encl(c, u) = {} BY <1>2 DEF InnerOf, Greatest
  <1>3. CASE Encl(c, u) # {}
    <2>1. PICK S : S = Encl(c, u) OBVIOUS
    <2>2. /\ Greatest(S) \in S /\ \A j \in S : j <= Greatest(S)
          /\ \A m \in S : (\A j \in S : j <= m) => Greatest(S) = m
      BY <1>1, <1>3, <2>1, GreatestFacts
    <2> QED BY <1>1, <1>3, <2>1, <2>2 DEF InnerOf
  <1> QED BY <1>2, <1>3

\* What is declared inside a statement belongs to it or to one inside it.
LEMMA InsideOwner ==
  ASSUME NEW c \in Seq(TokenType), WellNested(c), NEW u \in DOMAIN c, c[u].t = "open",
         NEW v \in DOMAIN c, u < v, v <= c[u].end, NEW id
  PROVE  OwnerIn(c, v, id) >= u /\ OwnerIn(c, v, id) \in Nat
  <1>1. u \in Encl(c, v) BY DEF Encl
  <1>2. InnerOf(c, v) >= u /\ InnerOf(c, v) \in Nat BY <1>1, InnerFacts
  <1> QED BY <1>2 DEF OwnerIn

LEMMA OwnerNat ==
  ASSUME NEW c \in Seq(TokenType), NEW k \in DOMAIN c, NEW id
  PROVE  OwnerIn(c, k, id) \in Nat /\ (OwnerIn(c, k, id) = 0 => OwnerIn(c, k, id) = InnerOf(c, k))
  BY InnerFacts DEF OwnerIn

\* Own only looks at the text before the token.
LEMMA OwnRange ==
  ASSUME NEW c \in Seq(TokenType), NEW u, NEW e, NEW id, NEW o
  PROVE  Own(c, u, e, id, o) \in SUBSET (1 .. Len(c)) /\ Len(c) \in Nat
  BY DEF Own

LEMMA OwnStep ==
  ASSUME NEW c \in Seq(TokenType), NEW u \in DOMAIN c, NEW e, NEW id, NEW o
  PROVE  /\ u \notin e /\ DeclaresIn(c, u, id) /\ OwnerIn(c, u, id) = o =>
              Own(c, u + 1, e, id, o) = Own(c, u, e, id, o) \cup {u}
         /\ u \in e \/ ~ DeclaresIn(c, u, id) \/ OwnerIn(c, u, id) # o =>
              Own(c, u + 1, e, id, o) = Own(c, u, e, id, o)
  <1>1. \A k \in DOMAIN c : k < u + 1 <=> k < u \/ k = u OBVIOUS
  <1>2. ~ (u < u) OBVIOUS
  <1> QED BY <1>1, <1>2 DEF Own

\* Errors at or after the token do not matter.
LEMMA OwnErrors ==
  ASSUME NEW c \in Seq(TokenType), NEW u, NEW e, NEW e2, NEW id, NEW o,
         \A k \in DOMAIN c : k < u => (k \in e <=> k \in e2)
  PROVE  Own(c, u, e2, id, o) = Own(c, u, e, id, o)
  BY DEF Own

\* The declaration just made is the last one.
LEMMA WantNew ==
  ASSUME NEW c \in Seq(TokenType), NEW G, NEW u \in DOMAIN c, NEW e, NEW id, NEW o,
         u \in Own(c, u + 1, e, id, o)
  PROVE  Want(c, G, u + 1, e, id, o) = u
  <1>1. PICK S : S = Own(c, u + 1, e, id, o) OBVIOUS
  <1>2. S \in SUBSET (1 .. Len(c)) /\ Len(c) \in Nat /\ u \in S BY <1>1, OwnRange
  <1>3. \A j \in S : j <= u BY <1>1, <1>2 DEF Own
  <1>4. Greatest(S) = u BY <1>2, <1>3, GreatestFacts
  <1> QED BY <1>1, <1>2, <1>4 DEF Want

LEMMA WantKeep ==
  ASSUME NEW c, NEW G, NEW u, NEW v, NEW e, NEW e2, NEW id, NEW o,
         Own(c, v, e2, id, o) = Own(c, u, e, id, o)
  PROVE  Want(c, G, v, e2, id, o) = Want(c, G, u, e, id, o)
  BY DEF Want

-----------------------------------------------------------------------------
(* The context: what its operations do to the names.                       *)

SameVals(g, h) == \A t \in DOMAIN g.heap, i \in Ids : Val(h, t, i) = Val(g, t, i)
\* h is g with a new meaning of one name in one scope.
OneVal(g, h, s, id, d) ==
  /\ Val(h, s, id) = d
  /\ \A t \in DOMAIN g.heap, i \in Ids : t # s \/ i # id => Val(h, t, i) = Val(g, t, i)

LEMMA ValRange ==
  ASSUME NEW g \in CtxType, NEW s \in DOMAIN g.heap, NEW id \in Ids
  PROVE  Val(g, s, id) \in Nat \cup {NoSym} /\ (Val(g, s, id) = NoSym <=> g.heap[s].syms[id] = NoSym)
  <1>1. g.heap[s] \in ScopeRec BY CtxFields
  <1>2. g.heap[s].syms[id] \in Sym BY <1>1 DEF ScopeRec
  <1>3. CASE g.heap[s].syms[id] = NoSym BY <1>3 DEF Val
  <1>4. CASE g.heap[s].syms[id] # NoSym
    <2>1. g.heap[s].syms[id].decl \in Nat BY <1>2, <1>4 DEF Sym
    <2>2. Val(g, s, id) = g.heap[s].syms[id].decl BY <1>4 DEF Val
    <2> QED BY <1>4, <2>1, <2>2, LocalAssumption
  <1> QED BY <1>3, <1>4

LEMMA AddedVal ==
  ASSUME NEW g \in CtxType, NEW s \in DOMAIN g.heap, NEW id \in Ids, NEW d \in Nat
  PROVE  OneVal(g, Added(g, s, id, d), s, id, d)
  <1>1. PICK w : w = IF g.heap[s].syms[id] = NoSym THEN [decl |-> d, konst |-> 0]
                     ELSE [g.heap[s].syms[id] EXCEPT !.decl = d]
    OBVIOUS
  <1>2. g.heap \in Seq(ScopeRec) /\ g.heap[s] \in ScopeRec BY CtxFields
  <1>3. g.heap[s].syms \in [Ids -> Sym] BY <1>2 DEF ScopeRec
  <1>4. w.decl = d /\ w # NoSym
    <2>1. CASE g.heap[s].syms[id] = NoSym
      <3>1. w \in [decl : Nat, konst : Nat] BY <1>1, <2>1
      <3> QED BY <1>1, <2>1, <3>1, LocalAssumption
    <2>2. CASE g.heap[s].syms[id] # NoSym
      <3>1. g.heap[s].syms[id] \in [decl : Nat, konst : Nat] BY <1>3, <2>2 DEF Sym
      <3>2. w \in [decl : Nat, konst : Nat] BY <1>1, <2>2, <3>1
      <3> QED BY <1>1, <2>2, <3>1, <3>2, LocalAssumption
    <2> QED BY <2>1, <2>2
  <1>5. PICK y : y = [g.heap[s].syms EXCEPT ![id] = w] OBVIOUS
  <1>6. y[id] = w /\ \A i \in Ids : i # id => y[i] = g.heap[s].syms[i] BY <1>3, <1>5
  <1>7. PICK x : x = [g.heap[s] EXCEPT !.syms = y] OBVIOUS
  <1>8. x.syms = y BY <1>2, <1>7 DEF ScopeRec
  <1>9. PICK p : p = [g.heap EXCEPT ![s] = x] OBVIOUS
  <1>10. p[s] = x /\ \A z \in DOMAIN g.heap : z # s => p[z] = g.heap[z] BY <1>2, <1>9
  <1>11. Added(g, s, id, d) = [g EXCEPT !.heap = p] BY <1>1, <1>5, <1>7, <1>9 DEF Added
  <1>12. PICK h : h = Added(g, s, id, d) OBVIOUS
  <1>13. h.heap = p BY <1>11, <1>12 DEF CtxType
  <1>14. Val(h, s, id) = d BY <1>4, <1>6, <1>8, <1>10, <1>13 DEF Val
  <1>15. ASSUME NEW t \in DOMAIN g.heap, NEW i \in Ids, t # s \/ i # id PROVE Val(h, t, i) = Val(g, t, i)
    <2>1. h.heap[t].syms[i] = g.heap[t].syms[i] BY <1>6, <1>8, <1>10, <1>13, <1>15
    <2> QED BY <2>1 DEF Val
  <1> QED BY <1>12, <1>14, <1>15 DEF OneVal

\* AddedHere, of a name that may be absent.
LEMMA AddedHereVal ==
  ASSUME NEW g, Sound(g), NEW id \in Ids \cup {NoId}, NEW d \in Nat
  PROVE  /\ id = NoId => AddedHere(g, id, d) = g
         /\ id # NoId => OneVal(g, AddedHere(g, id, d), Current(g), id, d)
  <1>1. g \in CtxType /\ Current(g) \in DOMAIN g.heap BY CurrentScope DEF Sound
  <1> QED BY <1>1, AddedVal DEF AddedHere

\* A new scope has no names.
LEMMA PushedVal ==
  ASSUME NEW g, Sound(g)
  PROVE  SameVals(g, Pushed(g)) /\ \A i \in Ids : Val(Pushed(g), Len(g.heap) + 1, i) = NoSym
  <1>1. g.heap \in Seq(ScopeRec) /\ DOMAIN g.heap = 1 .. Len(g.heap) /\ Len(g.heap) \in Nat
    BY CtxFields DEF Sound
  <1>2. PICK x : x = NewScope(Current(g)) OBVIOUS
  <1>3. \A i \in Ids : x.syms[i] = NoSym BY <1>2 DEF NewScope, NoSymbols
  <1>4. PICK p : p = Append(g.heap, x) OBVIOUS
  <1>5. Pushed(g).heap = p BY <1>2, <1>4, PushedFacts
  <1>6. p[Len(g.heap) + 1] = x /\ \A t \in DOMAIN g.heap : p[t] = g.heap[t] BY <1>1, <1>4
  <1> QED BY <1>3, <1>5, <1>6 DEF SameVals, Val

LEMMA PoppedVal ==
  ASSUME NEW g, Sound(g), NEW h \in Popped(g)
  PROVE  SameVals(g, h)
  BY PoppedFacts DEF SameVals, Val

-----------------------------------------------------------------------------
(* The stack of scopes.                                                    *)

\* The scopes of the stack are different scopes.
LEMMA ScopesDiffer ==
  ASSUME NEW g, Sound(g)
  PROVE  /\ g.scopes \in Seq(Nat) /\ Len(g.scopes) \in Nat
         /\ \A n \in 0 .. Len(g.scopes) : ScopeAt(g, n) \in DOMAIN g.heap
         /\ \A m, n \in 0 .. Len(g.scopes) : m # n => ScopeAt(g, m) # ScopeAt(g, n)
         /\ Current(g) = ScopeAt(g, Len(g.scopes))
  <1>1. g.scopes \in Seq(Nat) /\ Len(g.scopes) \in Nat /\ DOMAIN g.scopes = 1 .. Len(g.scopes)
    BY CtxFields DEF Sound
  <1>2. \A n \in 1 .. Len(g.scopes) : g.scopes[n] \in DOMAIN g.heap /\ g.scopes[n] # 1 /\ g.scopes[n] \in Nat
    BY <1>1 DEF Sound, Chain
  <1>3. 1 \in DOMAIN g.heap BY DEF Sound, Chain
  <1>4. \A m, n \in 1 .. Len(g.scopes) : m < n => g.scopes[m] < g.scopes[n] BY <1>1 DEF Sound, Chain
  <1>5. \A m, n \in 1 .. Len(g.scopes) : m # n => g.scopes[m] # g.scopes[n]
    <2> SUFFICES ASSUME NEW m \in 1 .. Len(g.scopes), NEW n \in 1 .. Len(g.scopes), m # n
                 PROVE  g.scopes[m] # g.scopes[n]
      OBVIOUS
    <2>1. m < n \/ n < m BY <1>1
    <2> QED BY <2>1, <1>2, <1>4
  <1>6. Current(g) = ScopeAt(g, Len(g.scopes)) BY <1>1 DEF Current, ScopeAt
  <1>7. \A n \in 0 .. Len(g.scopes) : ScopeAt(g, n) \in DOMAIN g.heap BY <1>2, <1>3 DEF ScopeAt
  <1>8. \A m, n \in 0 .. Len(g.scopes) : m # n => ScopeAt(g, m) # ScopeAt(g, n) BY <1>1, <1>2, <1>5 DEF ScopeAt
  <1> QED BY <1>1, <1>6, <1>7, <1>8

\* The top of the stack belongs to the innermost statement.
LEMMA TopIsInner ==
  ASSUME NEW c \in Seq(TokenType), NEW u, NEW os \in Seq(Nat), Sorted(c, u, os)
  PROVE  /\ Len(os) \in Nat /\ OpenAt(os, Len(os)) = InnerOf(c, u)
         /\ \A n \in 0 .. Len(os) : OpenAt(os, n) \in Encl(c, u) \cup {0} /\ OpenAt(os, n) \in Nat
         /\ \A m, n \in 0 .. Len(os) : m < n => OpenAt(os, m) < OpenAt(os, n)
         /\ \A k \in Encl(c, u) \cup {0} : \E n \in 0 .. Len(os) : OpenAt(os, n) = k
  <1>1. Len(os) \in Nat /\ \A n \in 1 .. Len(os) : os[n] \in Nat OBVIOUS
  <1>2. \A k \in Encl(c, u) : k \in Nat /\ k >= 1 BY InnerFacts
  <1>3. \A n \in 1 .. Len(os) : os[n] \in Encl(c, u) /\ os[n] >= 1 BY <1>2 DEF Sorted
  <1>4. \A m, n \in 1 .. Len(os) : m < n => os[m] < os[n] BY DEF Sorted
  <1>5. \A n \in 0 .. Len(os) : OpenAt(os, n) \in Encl(c, u) \cup {0} /\ OpenAt(os, n) \in Nat
    BY <1>1, <1>3 DEF OpenAt
  <1>6. \A m, n \in 0 .. Len(os) : m < n => OpenAt(os, m) < OpenAt(os, n)
    <2> SUFFICES ASSUME NEW m \in 0 .. Len(os), NEW n \in 0 .. Len(os), m < n
                 PROVE  OpenAt(os, m) < OpenAt(os, n)
      OBVIOUS
    <2>1. n \in 1 .. Len(os) /\ OpenAt(os, n) = os[n] BY <1>1 DEF OpenAt
    <2>2. CASE m = 0 BY <1>1, <1>3, <2>1, <2>2 DEF OpenAt
    <2>3. CASE m # 0
      <3>1. m \in 1 .. Len(os) /\ OpenAt(os, m) = os[m] BY <1>1, <2>3 DEF OpenAt
      <3> QED BY <1>4, <2>1, <3>1
    <2> QED BY <2>2, <2>3
  <1>7. ASSUME NEW k \in Encl(c, u) \cup {0} PROVE \E n \in 0 .. Len(os) : OpenAt(os, n) = k
    <2>1. CASE k = 0 BY <1>1, <2>1 DEF OpenAt
    <2>2. CASE k \in Encl(c, u)
      <3>1. PICK n \in 1 .. Len(os) : os[n] = k BY <2>2 DEF Sorted
      <3>2. n \in 0 .. Len(os) /\ n # 0 BY <1>1
      <3> QED BY <3>1, <3>2 DEF OpenAt
    <2> QED BY <2>1, <2>2
  <1>8. OpenAt(os, Len(os)) = InnerOf(c, u)
    <2>1. CASE Len(os) = 0
      <3>1. Encl(c, u) = {} BY <2>1 DEF Sorted
      <3> QED BY <2>1, <3>1, InnerFacts DEF OpenAt
    <2>2. CASE Len(os) # 0
      <3>1. Len(os) \in 1 .. Len(os) BY <1>1, <2>2
      <3>2. os[Len(os)] \in Encl(c, u) /\ os[Len(os)] \in Nat BY <1>1, <1>3, <3>1
      <3>3. ASSUME NEW j \in Encl(c, u) PROVE j <= os[Len(os)]
        <4>1. PICK n \in 1 .. Len(os) : os[n] = j BY DEF Sorted
        <4>2. n = Len(os) \/ n < Len(os) BY <1>1
        <4>3. n < Len(os) => os[n] < os[Len(os)] BY <1>4, <3>1
        <4> QED BY <1>1, <3>2, <4>1, <4>2, <4>3
      <3>4. InnerOf(c, u) = os[Len(os)] BY <3>2, <3>3, InnerFacts
      <3> QED BY <2>2, <3>4 DEF OpenAt
    <2> QED BY <2>1, <2>2
  <1> QED BY <1>1, <1>5, <1>6, <1>7, <1>8

\* From the n-th scope a name is found in the highest scope below that has it.
FoundIn(g, id, n) ==
  \/ FoundFrom(g, id)[ScopeAt(g, n)] = 0 /\ \A j \in 0 .. n : Val(g, ScopeAt(g, j), id) = NoSym
  \/ \E m \in 0 .. n : /\ FoundFrom(g, id)[ScopeAt(g, n)] = ScopeAt(g, m)
                       /\ Val(g, ScopeAt(g, m), id) # NoSym
                       /\ \A j \in m + 1 .. n : Val(g, ScopeAt(g, j), id) = NoSym

LEMMA FindVal ==
  ASSUME NEW g, Sound(g), NEW id \in Ids
  PROVE  FoundIn(g, id, Len(g.scopes)) /\ Find(g, id) = FoundFrom(g, id)[ScopeAt(g, Len(g.scopes))]
  <1> DEFINE f == FoundFrom(g, id)
             N == Len(g.scopes)
             Bad == {n \in 0 .. N : ~ FoundIn(g, id, n)}
  <1>0. /\ g \in CtxType /\ N \in Nat /\ \A n \in 0 .. N : ScopeAt(g, n) \in DOMAIN g.heap
        /\ Current(g) = ScopeAt(g, N) /\ DOMAIN g.heap = 1 .. Len(g.heap) /\ Len(g.heap) \in Nat
    BY ScopesDiffer, Parents DEF Sound
  <1>1. \A s \in 0 .. Len(g.heap) : f[s] = Up(g, id, f, s) BY <1>0, FoundFromWalks, WalksAt
  <1>2. f[0] = 0 BY <1>0, <1>1 DEF Up
  <1>3. g.heap[1].parent = 0
    <2>1. 1 \in DOMAIN g.heap BY DEF Sound, Chain
    <2> QED BY <2>1, <1>0, Parents
  <1>4. ASSUME NEW n \in 0 .. N
        PROVE  /\ Val(g, ScopeAt(g, n), id) # NoSym => f[ScopeAt(g, n)] = ScopeAt(g, n)
               /\ Val(g, ScopeAt(g, n), id) = NoSym => f[ScopeAt(g, n)] = f[g.heap[ScopeAt(g, n)].parent]
    <2>1. PICK s \in DOMAIN g.heap : s = ScopeAt(g, n) BY <1>0
    <2>2. f[s] = Up(g, id, f, s) /\ s # 0 BY <1>0, <1>1
    <2>3. Val(g, s, id) = NoSym <=> g.heap[s].syms[id] = NoSym BY <1>0, ValRange
    <2> QED BY <2>1, <2>2, <2>3 DEF Up
  <1>5. \A n \in 1 .. N : g.heap[ScopeAt(g, n)].parent = ScopeAt(g, n - 1)
    <2> SUFFICES ASSUME NEW n \in 1 .. N PROVE g.heap[ScopeAt(g, n)].parent = ScopeAt(g, n - 1) OBVIOUS
    <2>1. n \in DOMAIN g.scopes /\ n # 0 BY <1>0 DEF CtxType
    <2>2. g.heap[g.scopes[n]].parent = IF n = 1 THEN 1 ELSE g.scopes[n - 1] BY <2>1 DEF Sound, Chain
    <2>3. n = 1 <=> n - 1 = 0 OBVIOUS
    <2> QED BY <2>1, <2>2, <2>3 DEF ScopeAt
  <1>6. Bad = {}
    <2> SUFFICES ASSUME Bad # {} PROVE FALSE OBVIOUS
    <2>1. Bad \in SUBSET Nat BY <1>0
    <2>2. PICK n \in Bad : \A k \in Bad : n <= k
      <3> HIDE DEF Bad
      <3> QED BY <2>1, Least
    <2>3. n \in 0 .. N /\ n \in Nat BY <1>0
    <2>4. CASE Val(g, ScopeAt(g, n), id) # NoSym
      <3>1. f[ScopeAt(g, n)] = ScopeAt(g, n) /\ n \in 0 .. n BY <1>4, <2>3, <2>4
      <3>2. \A j \in n + 1 .. n : Val(g, ScopeAt(g, j), id) = NoSym BY <2>3
      <3> QED BY <2>2, <2>4, <3>1, <3>2 DEF FoundIn
    <2>5. CASE Val(g, ScopeAt(g, n), id) = NoSym /\ n = 0
      <3>1. ScopeAt(g, n) = 1 BY <2>5 DEF ScopeAt
      <3>2. f[ScopeAt(g, n)] = 0 BY <1>2, <1>3, <1>4, <2>3, <2>5, <3>1
      <3>3. \A j \in 0 .. n : j = 0 BY <2>5
      <3>4. \A j \in 0 .. n : Val(g, ScopeAt(g, j), id) = NoSym BY <2>5, <3>3
      <3> QED BY <2>2, <3>2, <3>4 DEF FoundIn
    <2>6. CASE Val(g, ScopeAt(g, n), id) = NoSym /\ n # 0
      <3>1. n - 1 \in 0 .. N /\ n - 1 \notin Bad /\ n \in 1 .. N BY <2>2, <2>3, <2>6
      <3>2. FoundIn(g, id, n - 1) BY <3>1
      <3>3. f[ScopeAt(g, n)] = f[ScopeAt(g, n - 1)] BY <1>4, <1>5, <2>3, <2>6, <3>1
      <3>4. \A j \in 0 .. n : j = n \/ j \in 0 .. n - 1 BY <2>3
      <3>5. CASE f[ScopeAt(g, n - 1)] = 0 /\ \A j \in 0 .. n - 1 : Val(g, ScopeAt(g, j), id) = NoSym
        <4>1. \A j \in 0 .. n : Val(g, ScopeAt(g, j), id) = NoSym BY <2>6, <3>4, <3>5
        <4> QED BY <2>2, <3>3, <3>5, <4>1 DEF FoundIn
      <3>6. ASSUME NEW m \in 0 .. n - 1, f[ScopeAt(g, n - 1)] = ScopeAt(g, m), Val(g, ScopeAt(g, m), id) # NoSym,
                   \A j \in m + 1 .. n - 1 : Val(g, ScopeAt(g, j), id) = NoSym
            PROVE  FALSE
        <4>1. m \in 0 .. n /\ \A j \in m + 1 .. n : j = n \/ j \in m + 1 .. n - 1 BY <2>3
        <4>2. \A j \in m + 1 .. n : Val(g, ScopeAt(g, j), id) = NoSym BY <2>6, <3>6, <4>1
        <4> QED BY <2>2, <3>3, <3>6, <4>1, <4>2 DEF FoundIn
      <3> QED BY <3>2, <3>5, <3>6 DEF FoundIn
    <2> QED BY <2>4, <2>5, <2>6
  <1>7. N \in 0 .. N BY <1>0
  <1>8. FoundIn(g, id, N) BY <1>6, <1>7
  <1>9. Find(g, id) = f[ScopeAt(g, N)] BY <1>0 DEF Find
  <1> QED BY <1>8, <1>9

-----------------------------------------------------------------------------
(* Lookup is lexical.                                                      *)

\* What is around a statement is around everything in it.
LEMMA EnclInside ==
  ASSUME NEW c \in Seq(TokenType), WellNested(c), NEW u \in Nat, NEW o \in Encl(c, u)
  PROVE  /\ Encl(c, o) \subseteq Encl(c, u)
         /\ \A k \in Encl(c, u) : k < o => k \in Encl(c, o)
  <1>0. o \in DOMAIN c /\ c[o].t = "open" /\ o < u /\ u <= c[o].end /\ o \in Nat /\ c[o].end \in Nat
    BY EndFacts DEF Encl
  <1>1. ASSUME NEW k \in Encl(c, o) PROVE k \in Encl(c, u)
    <2>1. k \in DOMAIN c /\ c[k].t = "open" /\ k < o /\ o <= c[k].end BY DEF Encl
    <2>2. k \in Nat /\ c[k].end \in Nat /\ c[c[k].end].t = "close" BY <2>1, EndFacts
    <2>3. o < c[k].end BY <1>0, <2>1, <2>2
    <2>4. c[o].end < c[k].end BY <1>0, <2>1, <2>3, NestFact
    <2> QED BY <1>0, <2>1, <2>2, <2>4 DEF Encl
  <1>2. ASSUME NEW k \in Encl(c, u), k < o PROVE k \in Encl(c, o)
    <2>1. k \in DOMAIN c /\ c[k].t = "open" /\ u <= c[k].end BY DEF Encl
    <2>2. k \in Nat /\ c[k].end \in Nat BY <2>1, EndFacts
    <2> QED BY <1>0, <1>2, <2>1, <2>2 DEF Encl
  <1> QED BY <1>1, <1>2

\* A statement has no declaration without its scope knowing the name.
LEMMA WantKnows ==
  ASSUME NEW c \in Seq(TokenType), NEW G, NEW u, NEW e, NEW id, NEW o
  PROVE  /\ Own(c, u, e, id, o) # {} => /\ Want(c, G, u, e, id, o) \in Own(c, u, e, id, o)
                                        /\ Want(c, G, u, e, id, o) # NoSym
                                        /\ \A j \in Own(c, u, e, id, o) : j <= Want(c, G, u, e, id, o)
         /\ Want(c, G, u, e, id, o) = NoSym => Own(c, u, e, id, o) = {}
  <1> SUFFICES ASSUME Own(c, u, e, id, o) # {}
               PROVE  /\ Want(c, G, u, e, id, o) \in Own(c, u, e, id, o)
                      /\ Want(c, G, u, e, id, o) # NoSym
                      /\ \A j \in Own(c, u, e, id, o) : j <= Want(c, G, u, e, id, o)
    OBVIOUS
  <1>1. PICK S : S = Own(c, u, e, id, o) OBVIOUS
  <1>2. S \in SUBSET (1 .. Len(c)) /\ Len(c) \in Nat BY <1>1, OwnRange
  <1>3. Greatest(S) \in S /\ \A j \in S : j <= Greatest(S) BY <1>1, <1>2, GreatestFacts
  <1>4. Want(c, G, u, e, id, o) = Greatest(S) BY <1>1 DEF Want
  <1>5. Greatest(S) \in Nat
    <2>1. \A j \in S : j \in Nat BY <1>2
    <2> QED BY <1>3, <2>1
  <1>6. Greatest(S) # NoSym BY <1>5, LocalAssumption
  <1> QED BY <1>1, <1>3, <1>4, <1>6

\* The scope a name is found in says what the name means in the text.
LEMMA FoundIsLexical ==
  ASSUME NEW c \in Seq(TokenType), WellNested(c), NEW u \in Nat, NEW G, NEW e, NEW g, Sound(g),
         NEW os, Levels(g, c, G, u, e, os), \A k \in e : c[k].t # "open", NEW id \in Ids, ~ HiddenIn(c, id)
  PROVE  /\ Find(g, id) = 0 => IsLexical(c, G, e, u, id, NoSym)
         /\ Find(g, id) # 0 => IsLexical(c, G, e, u, id, Val(g, Find(g, id), id)) /\ Val(g, Find(g, id), id) \in Nat
  <1> DEFINE N == Len(g.scopes)
             W(n) == Want(c, G, u, e, id, OpenAt(os, n))
             O(n) == Own(c, u, e, id, OpenAt(os, n))
             V == VisibleIn(c, e, u, id)
  <1>1. /\ os \in Seq(Nat) /\ Len(os) = N /\ Sorted(c, u, os) /\ N \in Nat
        /\ \A n \in 0 .. N : Val(g, ScopeAt(g, n), id) = W(n)
    BY ScopesDiffer DEF Levels
  <1>2. /\ \A n \in 0 .. N : OpenAt(os, n) \in Encl(c, u) \cup {0} /\ OpenAt(os, n) \in Nat
        /\ \A m, n \in 0 .. N : m < n => OpenAt(os, m) < OpenAt(os, n)
        /\ \A k \in Encl(c, u) \cup {0} : \E n \in 0 .. N : OpenAt(os, n) = k
    <2>1. /\ \A n \in 0 .. Len(os) : OpenAt(os, n) \in Encl(c, u) \cup {0} /\ OpenAt(os, n) \in Nat
          /\ \A m, n \in 0 .. Len(os) : m < n => OpenAt(os, m) < OpenAt(os, n)
          /\ \A k \in Encl(c, u) \cup {0} : \E n \in 0 .. Len(os) : OpenAt(os, n) = k
      <3>1. os \in Seq(Nat) /\ Sorted(c, u, os) BY <1>1
      <3> QED BY <3>1, TopIsInner, Zenon
    <2> HIDE DEF N
    <2> QED BY <1>1, <2>1
  <1>3. \A n \in 0 .. N : /\ O(n) # {} => W(n) \in O(n) /\ \A j \in O(n) : j <= W(n)
                          /\ W(n) = NoSym => O(n) = {}
    BY WantKnows
  <1>4. /\ \A k \in V : k \in Nat /\ \E n \in 0 .. N : k \in O(n)
        /\ \A n \in 0 .. N : \A k \in O(n) : k \in V /\ OwnerIn(c, k, id) = OpenAt(os, n)
    BY <1>2 DEF VisibleIn, Own
  <1>5. OpenAt(os, 0) = 0 BY DEF OpenAt
  <1>6. FoundIn(g, id, N) /\ Find(g, id) = FoundFrom(g, id)[ScopeAt(g, N)] BY FindVal
  <1>7. \A n \in 0 .. N : ScopeAt(g, n) \in DOMAIN g.heap /\ ScopeAt(g, n) # 0
    <2>1. DOMAIN g.heap = 1 .. Len(g.heap) BY Parents
    <2> QED BY <2>1, ScopesDiffer
  <1>8. CASE Find(g, id) = 0 /\ \A n \in 0 .. N : W(n) = NoSym
    <2>1. V = {} BY <1>3, <1>4, <1>8
    <2>2. 0 \in 0 .. N BY <1>1
    <2>3. O(0) = {} /\ W(0) = NoSym BY <1>3, <1>8, <2>2
    <2>4. W(0) = IF id \in G THEN 0 ELSE NoSym BY <1>5, <2>3 DEF Want
    <2> QED BY <1>8, <2>1, <2>3, <2>4 DEF IsLexical
  <1>9. ASSUME NEW m \in 0 .. N, Find(g, id) = ScopeAt(g, m), W(m) # NoSym,
               \A n \in m + 1 .. N : W(n) = NoSym
        PROVE  Find(g, id) # 0 /\ IsLexical(c, G, e, u, id, W(m)) /\ W(m) \in Nat
    <2>0. Find(g, id) # 0 BY <1>7, <1>9
    <2>1. \A n \in 0 .. N : O(n) # {} => n <= m
      <3> SUFFICES ASSUME NEW n \in 0 .. N, O(n) # {}, ~ (n <= m) PROVE FALSE OBVIOUS
      <3>1. n \in m + 1 .. N BY <1>1
      <3> QED BY <3>1, <1>3, <1>9
    <2>2. CASE O(m) # {}
      <3>1. W(m) \in O(m) /\ W(m) \in V BY <1>3, <1>4, <2>2
      <3>2. ASSUME NEW j \in V \ {W(m)} PROVE Before(c, id, j, W(m))
        <4>1. PICK n \in 0 .. N : j \in O(n) BY <1>4
        <4>2. n < m \/ n = m BY <2>1, <4>1
        <4>3. OwnerIn(c, j, id) = OpenAt(os, n) /\ OwnerIn(c, W(m), id) = OpenAt(os, m) BY <1>4, <3>1, <4>1
        <4>4. CASE n < m BY <1>2, <4>3, <4>4 DEF Before
        <4>5. CASE n = m
          <5>1. j <= W(m) /\ j # W(m) /\ j \in Nat /\ W(m) \in Nat BY <1>3, <1>4, <2>2, <3>1, <4>1, <4>5
          <5>2. j < W(m) BY <5>1
          <5> QED BY <4>3, <4>5, <5>2 DEF Before
        <4> QED BY <4>2, <4>4, <4>5
      <3>3. W(m) \in Nat BY <1>4, <3>1
      <3> HIDE DEF W, V
      <3> QED BY <2>0, <3>1, <3>2, <3>3 DEF IsLexical, V
    <2>3. CASE O(m) = {} /\ m = 0
      <3>1. W(m) = IF id \in G THEN 0 ELSE NoSym BY <1>5, <2>3 DEF Want
      <3>2. V = {}
        <4> SUFFICES ASSUME NEW j \in V PROVE FALSE OBVIOUS
        <4>1. PICK n \in 0 .. N : j \in O(n) BY <1>4
        <4>2. n = 0 BY <2>1, <2>3, <4>1
        <4> QED BY <2>3, <4>1, <4>2
      <3>3. W(m) = 0 BY <1>9, <3>1
      <3> QED BY <2>0, <3>1, <3>2, <3>3 DEF IsLexical
    <2>4. CASE O(m) = {} /\ m # 0
      <3>0. PICK o : o = OpenAt(os, m) OBVIOUS
      <3>1. o # 0 /\ o \in Encl(c, u)
        <4>1. 0 \in 0 .. N /\ 0 < m BY <1>1, <2>4
        <4>2. OpenAt(os, 0) < o /\ o \in Nat BY <1>2, <3>0, <4>1
        <4> QED BY <1>2, <1>5, <3>0, <4>2
      <3>2. W(m) = o /\ NameOfProc(c, o, id) BY <1>9, <2>4, <3>0, <3>1 DEF Want
      <3>3. o \in DOMAIN c /\ c[o].t = "open" /\ o < u /\ u <= c[o].end /\ o \in Nat /\ c[o].end \in Nat
        BY <3>1, EndFacts DEF Encl
      <3>4. OwnerIn(c, o, id) = InnerOf(c, o) BY <3>2 DEF OwnerIn
      <3>5. InnerOf(c, o) \in Encl(c, o) \cup {0} /\ \A k \in Encl(c, o) : k <= InnerOf(c, o) /\ InnerOf(c, o) \in Nat
        BY InnerFacts
      <3>6. o \in V
        <4>1. Encl(c, o) \subseteq Encl(c, u) BY <3>1, EnclInside
        <4>2. DeclaresIn(c, o, id) BY <3>2, <3>3 DEF DeclaresIn, NameOfProc
        <4> QED BY <3>3, <3>4, <3>5, <4>1, <4>2 DEF VisibleIn
      <3>7. ASSUME NEW j \in V \ {o} PROVE Before(c, id, j, o)
        <4>1. PICK n \in 0 .. N : j \in O(n) BY <1>4
        <4>2. n < m
          <5>1. n # m BY <2>4, <4>1
          <5> QED BY <2>1, <4>1, <5>1
        <4>3. OwnerIn(c, j, id) = OpenAt(os, n) /\ OpenAt(os, n) < o BY <1>2, <1>4, <3>0, <4>1, <4>2
        <4>4. j \in DOMAIN c /\ j < u /\ j \in Nat BY <4>1 DEF Own
        <4>5. j < o
          <5>1. ~ (o < j)
            <6> SUFFICES ASSUME o < j PROVE FALSE OBVIOUS
            <6>1. j <= c[o].end BY <3>3, <4>4
            <6>2. OwnerIn(c, j, id) >= o /\ OwnerIn(c, j, id) \in Nat BY <3>3, <4>4, <6>1, InsideOwner
            <6> QED BY <3>3, <4>3, <6>2
          <5> QED BY <3>3, <4>4, <5>1
        <4>6. OwnerIn(c, j, id) <= InnerOf(c, o)
          <5>1. CASE OpenAt(os, n) = 0 BY <3>5, <4>3, <5>1, InnerFacts
          <5>2. CASE OpenAt(os, n) \in Encl(c, u)
            <6>1. OpenAt(os, n) \in Encl(c, o) BY <3>1, <4>3, <5>2, EnclInside
            <6> QED BY <3>5, <4>3, <6>1
          <5> QED BY <1>2, <5>1, <5>2
        <4>7. OwnerIn(c, j, id) \in Nat /\ InnerOf(c, o) \in Nat BY <1>2, <4>3, InnerFacts
        <4> QED BY <3>4, <4>5, <4>6, <4>7 DEF Before
      <3> HIDE DEF W, V
      <3> QED BY <2>0, <3>2, <3>3, <3>6, <3>7 DEF IsLexical, V
    <2> QED BY <2>2, <2>3, <2>4
  <1>10. \/ Find(g, id) = 0 /\ \A n \in 0 .. N : W(n) = NoSym
         \/ \E m \in 0 .. N : /\ Find(g, id) = ScopeAt(g, m) /\ W(m) # NoSym
                              /\ \A n \in m + 1 .. N : W(n) = NoSym
    <2>1. CASE FoundFrom(g, id)[ScopeAt(g, N)] = 0 /\ \A j \in 0 .. N : Val(g, ScopeAt(g, j), id) = NoSym
      BY <1>1, <1>6, <2>1
    <2>2. ASSUME NEW m \in 0 .. N, FoundFrom(g, id)[ScopeAt(g, N)] = ScopeAt(g, m), Val(g, ScopeAt(g, m), id) # NoSym,
                 \A j \in m + 1 .. N : Val(g, ScopeAt(g, j), id) = NoSym
          PROVE  \E k \in 0 .. N : /\ Find(g, id) = ScopeAt(g, k) /\ W(k) # NoSym
                                   /\ \A n \in k + 1 .. N : W(n) = NoSym
      <3>1. \A n \in m + 1 .. N : n \in 0 .. N BY <1>1
      <3> HIDE DEF W
      <3> QED BY <1>1, <1>6, <2>2, <3>1
    <2> QED BY <1>6, <2>1, <2>2 DEF FoundIn
  <1>11. CASE \E m \in 0 .. N : /\ Find(g, id) = ScopeAt(g, m) /\ W(m) # NoSym
                                /\ \A n \in m + 1 .. N : W(n) = NoSym
    <2>1. PICK m \in 0 .. N : /\ Find(g, id) = ScopeAt(g, m) /\ W(m) # NoSym
                              /\ \A n \in m + 1 .. N : W(n) = NoSym
      BY <1>11
    <2>2. Val(g, Find(g, id), id) = W(m) BY <1>1, <2>1
    <2> HIDE DEF W
    <2> QED BY <1>9, <2>1, <2>2
  <1> HIDE DEF W
  <1> QED BY <1>8, <1>10, <1>11

-----------------------------------------------------------------------------
(* The stack stays in step with the text.                                  *)

\* The same names for the same declarations.
LEMMA LevelsAgain ==
  ASSUME NEW c \in Seq(TokenType), NEW u, NEW v, NEW G, NEW e, NEW e2, NEW g, Sound(g), NEW h,
         NEW os, Levels(g, c, G, u, e, os), h.scopes = g.scopes, SameVals(g, h), Encl(c, v) = Encl(c, u),
         \A id \in Ids, o \in Encl(c, u) \cup {0} : ~ HiddenIn(c, id) => Own(c, v, e2, id, o) = Own(c, u, e, id, o)
  PROVE  Levels(h, c, G, v, e2, os)
  <1>1. /\ os \in Seq(Nat) /\ Len(os) = Len(g.scopes) /\ Sorted(c, u, os) /\ Sorted(c, v, os)
        /\ \A id \in Ids : ~ HiddenIn(c, id) =>
             \A n \in 0 .. Len(os) : Val(g, ScopeAt(g, n), id) = Want(c, G, u, e, id, OpenAt(os, n))
    BY DEF Levels, Sorted
  <1>2. \A n \in 0 .. Len(os) : ScopeAt(h, n) = ScopeAt(g, n) /\ ScopeAt(g, n) \in DOMAIN g.heap
    BY <1>1, ScopesDiffer DEF ScopeAt
  <1>3. \A n \in 0 .. Len(os) : OpenAt(os, n) \in Encl(c, u) \cup {0}
    <2>1. os \in Seq(Nat) /\ Sorted(c, u, os) BY <1>1
    <2> QED BY <2>1, TopIsInner, Zenon
  <1>4. ASSUME NEW id \in Ids, ~ HiddenIn(c, id), NEW n \in 0 .. Len(os)
        PROVE  Val(h, ScopeAt(h, n), id) = Want(c, G, v, e2, id, OpenAt(os, n))
    <2>1. PICK o \in Encl(c, u) \cup {0} : o = OpenAt(os, n) BY <1>3
    <2>2. Own(c, v, e2, id, o) = Own(c, u, e, id, o) BY <1>4
    <2>3. Want(c, G, v, e2, id, o) = Want(c, G, u, e, id, o) BY <2>2, WantKeep
    <2>4. Val(h, ScopeAt(h, n), id) = Val(g, ScopeAt(g, n), id) BY <1>2, <1>4 DEF SameVals
    <2>5. Val(g, ScopeAt(g, n), id) = Want(c, G, u, e, id, OpenAt(os, n)) BY <1>1, <1>4
    <2> QED BY <2>1, <2>3, <2>4, <2>5
  <1> QED BY <1>1, <1>4 DEF Levels

\* One name in the current scope, declared by what the text says there.
LEMMA LevelsSet ==
  ASSUME NEW c \in Seq(TokenType), NEW u, NEW v, NEW G, NEW e, NEW e2, NEW g, Sound(g), NEW h,
         NEW os, Levels(g, c, G, u, e, os), h.scopes = g.scopes, Encl(c, v) = Encl(c, u),
         NEW name \in Ids, NEW d, OneVal(g, h, Current(g), name, d),
         ~ HiddenIn(c, name) => Want(c, G, v, e2, name, InnerOf(c, u)) = d,
         \A id \in Ids, o \in Encl(c, u) \cup {0} :
            ~ HiddenIn(c, id) /\ (id # name \/ o # InnerOf(c, u)) => Own(c, v, e2, id, o) = Own(c, u, e, id, o)
  PROVE  Levels(h, c, G, v, e2, os)
  <1>1. /\ os \in Seq(Nat) /\ Len(os) = Len(g.scopes) /\ Sorted(c, u, os) /\ Sorted(c, v, os)
        /\ \A id \in Ids : ~ HiddenIn(c, id) =>
             \A n \in 0 .. Len(os) : Val(g, ScopeAt(g, n), id) = Want(c, G, u, e, id, OpenAt(os, n))
    BY DEF Levels, Sorted
  <1>2. /\ Len(os) \in Nat /\ Current(g) = ScopeAt(g, Len(os))
        /\ \A n \in 0 .. Len(os) : ScopeAt(h, n) = ScopeAt(g, n) /\ ScopeAt(g, n) \in DOMAIN g.heap
        /\ \A m, n \in 0 .. Len(os) : m # n => ScopeAt(g, m) # ScopeAt(g, n)
    BY <1>1, ScopesDiffer DEF ScopeAt
  <1>3. /\ OpenAt(os, Len(os)) = InnerOf(c, u)
        /\ \A n \in 0 .. Len(os) : OpenAt(os, n) \in Encl(c, u) \cup {0} /\ OpenAt(os, n) \in Nat
        /\ \A m, n \in 0 .. Len(os) : m < n => OpenAt(os, m) < OpenAt(os, n)
    <2>1. os \in Seq(Nat) /\ Sorted(c, u, os) BY <1>1
    <2> QED BY <2>1, TopIsInner, Zenon
  <1>4. ASSUME NEW id \in Ids, ~ HiddenIn(c, id), NEW n \in 0 .. Len(os)
        PROVE  Val(h, ScopeAt(h, n), id) = Want(c, G, v, e2, id, OpenAt(os, n))
    <2>1. PICK o \in Encl(c, u) \cup {0} : o = OpenAt(os, n) BY <1>3
    <2>2. CASE id = name /\ n = Len(os)
      <3>1. Val(h, ScopeAt(h, n), id) = d BY <1>2, <2>2 DEF OneVal
      <3> QED BY <1>3, <1>4, <2>2, <3>1
    <2>3. CASE id # name \/ n # Len(os)
      <3>1. n # Len(os) => o # InnerOf(c, u)
        <4> SUFFICES ASSUME n # Len(os) PROVE o # InnerOf(c, u) OBVIOUS
        <4>1. n < Len(os) /\ Len(os) \in 0 .. Len(os) BY <1>2
        <4>2. OpenAt(os, n) < InnerOf(c, u) /\ OpenAt(os, n) \in Nat BY <1>3, <4>1
        <4>3. ~ (OpenAt(os, n) < OpenAt(os, n)) BY <4>2
        <4> QED BY <2>1, <4>2, <4>3
      <3>2. Own(c, v, e2, id, o) = Own(c, u, e, id, o) BY <1>4, <2>3, <3>1
      <3>3. Want(c, G, v, e2, id, o) = Want(c, G, u, e, id, o) BY <3>2, WantKeep
      <3>4. Val(h, ScopeAt(h, n), id) = Val(g, ScopeAt(g, n), id)
        <4>1. n # Len(os) => ScopeAt(g, n) # Current(g)
          <5>1. Len(os) \in 0 .. Len(os) BY <1>2
          <5> QED BY <1>2, <5>1
        <4>2. ScopeAt(g, n) # Current(g) \/ id # name BY <2>3, <4>1
        <4> QED BY <1>2, <1>4, <4>2 DEF OneVal
      <3>5. Val(g, ScopeAt(g, n), id) = Want(c, G, u, e, id, OpenAt(os, n)) BY <1>1, <1>4
      <3> QED BY <2>1, <3>3, <3>4, <3>5
    <2> QED BY <2>2, <2>3
  <1> QED BY <1>1, <1>4 DEF Levels

\* A token that opens nothing and declares nothing that is kept.
LEMMA LevelsStay ==
  ASSUME NEW c \in Seq(TokenType), WellNested(c), NEW u \in DOMAIN c, NEW G, NEW e, NEW e2, NEW g, Sound(g), NEW h,
         NEW os, Levels(g, c, G, u, e, os), h.scopes = g.scopes, SameVals(g, h),
         c[u].t \notin {"open", "close"}, \A k \in DOMAIN c : k < u => (k \in e <=> k \in e2),
         \A id \in Ids : ~ HiddenIn(c, id) => u \in e2 \/ ~ DeclaresIn(c, u, id)
  PROVE  Levels(h, c, G, u + 1, e2, os)
  <1>1. Encl(c, u + 1) = Encl(c, u) BY EnclStay
  <1>2. ASSUME NEW id \in Ids, NEW o \in Encl(c, u) \cup {0}, ~ HiddenIn(c, id)
        PROVE  Own(c, u + 1, e2, id, o) = Own(c, u, e, id, o)
    <2>1. Own(c, u + 1, e2, id, o) = Own(c, u, e2, id, o) BY <1>2, OwnStep
    <2>2. Own(c, u, e2, id, o) = Own(c, u, e, id, o) BY OwnErrors
    <2> QED BY <2>1, <2>2
  <1> HIDE DEF Levels, SameVals
  <1> QED BY <1>1, <1>2, LevelsAgain

\* A variable or a constant that is declared.
LEMMA LevelsDeclare ==
  ASSUME NEW c \in Seq(TokenType), WellNested(c), NEW u \in DOMAIN c, NEW G, NEW e, NEW g, Sound(g), NEW h,
         NEW os, Levels(g, c, G, u, e, os), h.scopes = g.scopes,
         c[u].t \in {"var", "const"}, u \notin e, OneVal(g, h, Current(g), c[u].id, u)
  PROVE  Levels(h, c, G, u + 1, e, os)
  <1>1. Encl(c, u + 1) = Encl(c, u) BY EnclStay
  <1>2. PICK name \in Ids : name = c[u].id
    <2>1. c[u] \in TokenType OBVIOUS
    <2>2. c[u].id \in Ids BY <2>1, TokenFields
    <2> QED BY <2>2
  <1>3. \A id : DeclaresIn(c, u, id) <=> id = name BY <1>2 DEF DeclaresIn
  <1>4. \A id : OwnerIn(c, u, id) = InnerOf(c, u) BY DEF OwnerIn
  <1>5. Want(c, G, u + 1, e, name, InnerOf(c, u)) = u
    <2>1. Own(c, u + 1, e, name, InnerOf(c, u)) = Own(c, u, e, name, InnerOf(c, u)) \cup {u}
      BY <1>3, <1>4, OwnStep
    <2> QED BY <2>1, WantNew
  <1>6. ASSUME NEW id \in Ids, NEW o \in Encl(c, u) \cup {0}, id # name \/ o # InnerOf(c, u)
        PROVE  Own(c, u + 1, e, id, o) = Own(c, u, e, id, o)
    <2>1. ~ DeclaresIn(c, u, id) \/ OwnerIn(c, u, id) # o BY <1>3, <1>4, <1>6
    <2> QED BY <2>1, OwnStep
  <1>7. OneVal(g, h, Current(g), name, u) BY <1>2
  <1> QED BY <1>1, <1>5, <1>6, <1>7, LevelsSet

\* A statement that is left out declares nothing outside itself.
LEMMA LevelsSkip ==
  ASSUME NEW c \in Seq(TokenType), WellNested(c), NEW u \in DOMAIN c, c[u].t = "open", LeftOut(c, u),
         NEW G, NEW e, NEW g, Sound(g), NEW os, Levels(g, c, G, u, e, os)
  PROVE  Levels(g, c, G, c[u].end + 1, e, os)
  <1>1. Encl(c, c[u].end + 1) = Encl(c, u) BY EnclSkip
  <1>2. u \in Nat /\ c[u].end \in Nat /\ u < c[u].end BY EndFacts
  <1>3. ASSUME NEW id \in Ids, NEW o \in Encl(c, u) \cup {0}, ~ HiddenIn(c, id)
        PROVE  Own(c, c[u].end + 1, e, id, o) = Own(c, u, e, id, o)
    <2>1. o < u /\ o \in Nat
      <3>1. \A k \in Encl(c, u) : k < u /\ k \in Nat BY <1>2 DEF Encl
      <3>2. 0 < u BY <1>2
      <3> QED BY <1>2, <3>1, <3>2
    <2>2. ASSUME NEW k \in DOMAIN c, DeclaresIn(c, k, id), OwnerIn(c, k, id) = o
          PROVE  k < c[u].end + 1 <=> k < u
      <3>1. k # u BY <1>3, <2>2 DEF HiddenIn
      <3>2. ~ (u < k /\ k <= c[u].end)
        <4> SUFFICES ASSUME u < k, k <= c[u].end PROVE FALSE OBVIOUS
        <4>1. OwnerIn(c, k, id) >= u /\ OwnerIn(c, k, id) \in Nat BY InsideOwner
        <4> QED BY <1>2, <2>1, <2>2, <4>1
      <3>3. k \in Nat OBVIOUS
      <3> QED BY <1>2, <3>1, <3>2, <3>3
    <2> QED BY <2>2 DEF Own
  <1>4. SameVals(g, g) BY DEF SameVals
  <1> QED BY <1>1, <1>3, <1>4, LevelsAgain

\* What entering a statement does to the names.
OpenVals(c, u, g, h) ==
  /\ h.scopes = Append(g.scopes, Len(g.heap) + 1)
  /\ \A id \in Ids : Val(h, Len(g.heap) + 1, id) = IF DeclaresIn(c, u, id) THEN u ELSE NoSym
  /\ \A t \in DOMAIN g.heap, id \in Ids :
       Val(h, t, id) = IF t = Current(g) /\ NameOfProc(c, u, id) THEN u ELSE Val(g, t, id)

\* A statement that is entered: its scope gets what it declares, and the scope
\* around it the name of a procedure.
LEMMA LevelsOpen ==
  ASSUME NEW c \in Seq(TokenType), WellNested(c), NEW u \in DOMAIN c, c[u].t = "open", ~ LeftOut(c, u),
         NEW G, NEW e, u \notin e, NEW g, Sound(g), NEW h, OpenVals(c, u, g, h),
         NEW os, Levels(g, c, G, u, e, os)
  PROVE  Levels(h, c, G, u + 1, e, Append(os, u))
  <1>1. /\ os \in Seq(Nat) /\ Len(os) = Len(g.scopes) /\ Sorted(c, u, os) /\ Len(os) \in Nat
        /\ \A id \in Ids : ~ HiddenIn(c, id) =>
             \A n \in 0 .. Len(os) : Val(g, ScopeAt(g, n), id) = Want(c, G, u, e, id, OpenAt(os, n))
    BY DEF Levels
  <1>2. PICK N \in Nat : N = Len(os) BY <1>1
  <1>3. /\ g.scopes \in Seq(Nat) /\ Len(g.scopes) = N /\ Current(g) = ScopeAt(g, N)
        /\ \A n \in 0 .. N : ScopeAt(g, n) \in DOMAIN g.heap
        /\ \A m, n \in 0 .. N : m # n => ScopeAt(g, m) # ScopeAt(g, n)
    BY <1>1, <1>2, ScopesDiffer
  <1>4. /\ OpenAt(os, N) = InnerOf(c, u)
        /\ \A n \in 0 .. N : OpenAt(os, n) \in Encl(c, u) \cup {0} /\ OpenAt(os, n) \in Nat
        /\ \A m, n \in 0 .. N : m < n => OpenAt(os, m) < OpenAt(os, n)
    <2>1. os \in Seq(Nat) /\ Sorted(c, u, os) BY <1>1
    <2>2. /\ OpenAt(os, Len(os)) = InnerOf(c, u)
          /\ \A n \in 0 .. Len(os) : OpenAt(os, n) \in Encl(c, u) \cup {0} /\ OpenAt(os, n) \in Nat
          /\ \A m, n \in 0 .. Len(os) : m < n => OpenAt(os, m) < OpenAt(os, n)
      BY <2>1, TopIsInner, Zenon
    <2> QED BY <1>2, <2>2
  <1>5. Encl(c, u + 1) = Encl(c, u) \cup {u} /\ u \in Nat /\ u >= 1
    <2>1. u \in Nat /\ u >= 1 OBVIOUS
    <2> QED BY <2>1, EnclOpen
  <1>6. \A k \in Encl(c, u) : k < u /\ k \in Nat BY DEF Encl
  <1>7. PICK q : q = Append(os, u) OBVIOUS
  <1>8. /\ q \in Seq(Nat) /\ Len(q) = N + 1 /\ q[N + 1] = u
        /\ \A n \in 1 .. N : q[n] = os[n]
    BY <1>1, <1>2, <1>5, <1>7
  <1>9. /\ Len(h.scopes) = N + 1 /\ ScopeAt(h, N + 1) = Len(g.heap) + 1
        /\ \A n \in 0 .. N : ScopeAt(h, n) = ScopeAt(g, n)
    BY <1>3 DEF OpenVals, ScopeAt
  <1>10. OpenAt(q, N + 1) = u /\ \A n \in 0 .. N : OpenAt(q, n) = OpenAt(os, n) BY <1>8 DEF OpenAt
  <1>11. Sorted(c, u + 1, q)
    <2>1. \A n \in 1 .. N : os[n] \in Encl(c, u) BY <1>1, <1>2 DEF Sorted
    <2>2. \A n \in 1 .. N + 1 : n = N + 1 \/ n \in 1 .. N OBVIOUS
    <2>3. \A n \in 1 .. N + 1 : q[n] \in Encl(c, u + 1) BY <1>5, <1>8, <2>1, <2>2
    <2>4. ASSUME NEW k \in Encl(c, u + 1) PROVE \E n \in 1 .. N + 1 : q[n] = k
      <3>1. CASE k = u
        <4>1. N + 1 \in 1 .. N + 1 OBVIOUS
        <4> QED BY <3>1, <4>1, <1>8
      <3>2. CASE k \in Encl(c, u)
        <4>1. PICK n \in 1 .. N : os[n] = k BY <1>1, <1>2, <3>2 DEF Sorted
        <4>2. n \in 1 .. N + 1 OBVIOUS
        <4> QED BY <1>8, <4>1, <4>2
      <3> QED BY <1>5, <3>1, <3>2
    <2>5. ASSUME NEW m \in 1 .. N + 1, NEW n \in 1 .. N + 1, m < n PROVE q[m] < q[n]
      <3>1. m \in 1 .. N BY <2>5
      <3>2. CASE n = N + 1 BY <1>6, <1>8, <2>1, <3>1, <3>2
      <3>3. CASE n \in 1 .. N
        <4>1. os[m] < os[n] BY <1>1, <1>2, <2>5, <3>1, <3>3 DEF Sorted
        <4> QED BY <1>8, <3>1, <3>3, <4>1
      <3> QED BY <2>2, <3>2, <3>3
    <2> QED BY <1>8, <2>3, <2>4, <2>5 DEF Sorted
  <1>12. ASSUME NEW id \in Ids, ~ HiddenIn(c, id), NEW n \in 0 .. N
         PROVE  Val(h, ScopeAt(h, n), id) = Want(c, G, u + 1, e, id, OpenAt(q, n))
    <2>1. PICK o \in Encl(c, u) \cup {0} : o = OpenAt(os, n) BY <1>4
    <2>2. Val(g, ScopeAt(g, n), id) = Want(c, G, u, e, id, o) BY <1>1, <1>2, <1>12, <2>1
    <2>3. CASE n = N /\ NameOfProc(c, u, id)
      <3>1. Val(h, ScopeAt(h, n), id) = u BY <1>3, <1>9, <1>12, <2>3 DEF OpenVals
      <3>2. OwnerIn(c, u, id) = o /\ DeclaresIn(c, u, id)
        BY <1>4, <2>1, <2>3 DEF OwnerIn, DeclaresIn, NameOfProc
      <3>3. u \in Own(c, u + 1, e, id, o) BY <3>2, OwnStep
      <3>4. Want(c, G, u + 1, e, id, o) = u BY <3>3, WantNew
      <3> QED BY <1>10, <1>12, <2>1, <3>1, <3>4
    <2>4. CASE ~ (n = N /\ NameOfProc(c, u, id))
      <3>1. OwnerIn(c, u, id) # o
        <4>1. CASE NameOfProc(c, u, id)
          <5>1. OwnerIn(c, u, id) = OpenAt(os, N) BY <1>4, <4>1 DEF OwnerIn
          <5>2. n < N /\ N \in 0 .. N BY <2>4, <4>1
          <5>3. o < OpenAt(os, N) /\ o \in Nat BY <1>4, <2>1, <5>2
          <5> QED BY <5>1, <5>3
        <4>2. CASE ~ NameOfProc(c, u, id)
          <5>1. OwnerIn(c, u, id) = u BY <4>2 DEF OwnerIn
          <5> QED BY <1>5, <1>6, <5>1
        <4> QED BY <4>1, <4>2
      <3>2. Own(c, u + 1, e, id, o) = Own(c, u, e, id, o) BY <3>1, OwnStep
      <3>3. Want(c, G, u + 1, e, id, o) = Want(c, G, u, e, id, o) BY <3>2, WantKeep
      <3>4. Val(h, ScopeAt(h, n), id) = Val(g, ScopeAt(g, n), id)
        <4>1. n # N => ScopeAt(g, n) # Current(g)
          <5>1. N \in 0 .. N OBVIOUS
          <5> QED BY <1>3, <5>1
        <4> QED BY <1>3, <1>9, <1>12, <2>4, <4>1 DEF OpenVals
      <3> QED BY <1>10, <1>12, <2>1, <2>2, <3>3, <3>4
    <2> QED BY <2>3, <2>4
  <1>13. ASSUME NEW id \in Ids, ~ HiddenIn(c, id)
         PROVE  Val(h, ScopeAt(h, N + 1), id) = Want(c, G, u + 1, e, id, OpenAt(q, N + 1))
    <2>1. Val(h, ScopeAt(h, N + 1), id) = IF DeclaresIn(c, u, id) THEN u ELSE NoSym
      BY <1>9, <1>13 DEF OpenVals
    <2>2. Own(c, u, e, id, u) = {}
      <3> SUFFICES ASSUME NEW k \in Own(c, u, e, id, u) PROVE FALSE OBVIOUS
      <3>1. k \in DOMAIN c /\ k < u /\ OwnerIn(c, k, id) = u /\ k \in Nat BY DEF Own
      <3>2. InnerOf(c, k) = 0 \/ InnerOf(c, k) \in Encl(c, k) BY InnerFacts
      <3>3. InnerOf(c, k) < k BY <3>1, <3>2 DEF Encl
      <3>4. InnerOf(c, k) \in Nat BY InnerFacts
      <3> QED BY <1>5, <3>1, <3>3, <3>4 DEF OwnerIn
    <2>3. CASE DeclaresIn(c, u, id) /\ ~ NameOfProc(c, u, id)
      <3>1. OwnerIn(c, u, id) = u BY <2>3 DEF OwnerIn
      <3>2. u \in Own(c, u + 1, e, id, u) BY <2>3, <3>1, OwnStep
      <3>3. Want(c, G, u + 1, e, id, u) = u BY <3>2, WantNew
      <3> QED BY <1>10, <2>1, <2>3, <3>3
    <2>4. CASE NameOfProc(c, u, id)
      <3>1. DeclaresIn(c, u, id) BY <2>4 DEF DeclaresIn, NameOfProc
      <3>2. OwnerIn(c, u, id) # u
        <4>1. OwnerIn(c, u, id) = InnerOf(c, u) BY <2>4 DEF OwnerIn
        <4>2. InnerOf(c, u) = 0 \/ InnerOf(c, u) \in Encl(c, u) BY InnerFacts
        <4> QED BY <1>5, <1>6, <4>1, <4>2
      <3>3. Own(c, u + 1, e, id, u) = {} BY <2>2, <3>2, OwnStep
      <3>4. Want(c, G, u + 1, e, id, u) = u BY <1>5, <2>4, <3>3 DEF Want
      <3> QED BY <1>10, <2>1, <3>1, <3>4
    <2>5. CASE ~ DeclaresIn(c, u, id) /\ ~ NameOfProc(c, u, id)
      <3>1. Own(c, u + 1, e, id, u) = {} BY <2>2, <2>5, OwnStep
      <3>2. Want(c, G, u + 1, e, id, u) = NoSym BY <1>5, <2>5, <3>1 DEF Want
      <3> QED BY <1>10, <2>1, <2>5, <3>2
    <2> QED BY <2>3, <2>4, <2>5
  <1>14. ASSUME NEW id \in Ids, ~ HiddenIn(c, id), NEW n \in 0 .. N + 1
         PROVE  Val(h, ScopeAt(h, n), id) = Want(c, G, u + 1, e, id, OpenAt(q, n))
    <2>1. n \in 0 .. N \/ n = N + 1 OBVIOUS
    <2> QED BY <2>1, <1>12, <1>13, <1>14
  <1> QED BY <1>7, <1>8, <1>9, <1>11, <1>14 DEF Levels

\* Entering a statement that is no procedure.
LEMMA StmtVals ==
  ASSUME code \in Seq(TokenType), NEW u \in DOMAIN code, code[u].t = "open", code[u].kind # "proc",
         NEW g, Sound(g)
  PROVE  OpenVals(code, u, g, StmtScope(g, u))
  <1>1. /\ u \in Nat /\ code[u].id \in Ids \cup {NoId} BY OpenToken
  <1>2. code[u].param = NoId /\ code[u].result = NoId
    <2>1. code[u] \in TokenType OBVIOUS
    <2> QED BY <2>1, TokenFields
  <1>3. \A id \in Ids : DeclaresIn(code, u, id) <=> id = code[u].id
    BY <1>2, LocalAssumption DEF DeclaresIn
  <1>4. \A id : ~ NameOfProc(code, u, id) BY DEF NameOfProc
  <1>5. PICK p : p = Pushed(g) OBVIOUS
  <1>6. PICK n : n = Len(g.heap) + 1 OBVIOUS
  <1>7. /\ Sound(p) /\ p.scopes = Append(g.scopes, n) /\ Len(p.heap) = n
    BY <1>5, <1>6, PushedFacts
  <1>8. SameVals(g, p) /\ \A id \in Ids : Val(p, n, id) = NoSym BY <1>5, <1>6, PushedVal
  <1>9. Current(p) = n
    <2>1. g.scopes \in Seq(Nat) BY ScopesDiffer
    <2>2. n \in Nat BY <1>6, Parents
    <2> QED BY <1>7, <2>1, <2>2 DEF Current
  <1>10. n \notin DOMAIN g.heap /\ DOMAIN g.heap \subseteq DOMAIN p.heap /\ n \in DOMAIN p.heap
    BY <1>6, <1>7, Parents
  <1>11. PICK h : h = AddedHere(p, code[u].id, u) OBVIOUS
  <1>12. h.scopes = p.scopes BY <1>1, <1>7, <1>11, AddedHereShape DEF SameShape
  <1>13. CASE code[u].id = NoId
    <2>1. h = p BY <1>13, <1>11 DEF AddedHere
    <2>2. \A id \in Ids : id # code[u].id BY <1>13, LocalAssumption
    <2> QED BY <1>3, <1>4, <1>5, <1>6, <1>7, <1>8, <1>11, <2>1, <2>2 DEF OpenVals, StmtScope, SameVals
  <1>14. CASE code[u].id # NoId
    <2>1. OneVal(p, h, n, code[u].id, u) BY <1>1, <1>7, <1>9, <1>11, <1>14, AddedHereVal
    <2>2. \A id \in Ids : Val(h, n, id) = IF DeclaresIn(code, u, id) THEN u ELSE NoSym
      BY <1>3, <1>8, <1>10, <2>1 DEF OneVal
    <2>3. \A t \in DOMAIN g.heap, id \in Ids : Val(h, t, id) = Val(g, t, id)
      BY <1>8, <1>10, <2>1 DEF OneVal, SameVals
    <2> QED BY <1>4, <1>5, <1>6, <1>7, <1>11, <1>12, <2>2, <2>3 DEF OpenVals, StmtScope
  <1> QED BY <1>13, <1>14

\* The current scope n has the names of S, all of them declared at d.
HasNames(p, n, S, d) ==
  Sound(p) /\ Current(p) = n /\ \A i \in Ids : Val(p, n, i) = IF i \in S THEN d ELSE NoSym
ChangesOnly(p, h, n) ==
  /\ h.scopes = p.scopes /\ DOMAIN h.heap = DOMAIN p.heap
  /\ \A t \in DOMAIN p.heap, i \in Ids : t # n => Val(h, t, i) = Val(p, t, i)

\* One more name in the scope of a procedure.
LEMMA ProcAdds ==
  ASSUME NEW p, NEW n, NEW id \in Ids \cup {NoId}, NEW d \in Nat, NEW S, HasNames(p, n, S, d)
  PROVE  HasNames(AddedHere(p, id, d), n, S \cup {id}, d) /\ ChangesOnly(p, AddedHere(p, id, d), n)
  <1>0. Sound(p) /\ Current(p) = n /\ \A i \in Ids : Val(p, n, i) = IF i \in S THEN d ELSE NoSym
    BY DEF HasNames
  <1>1. PICK h : h = AddedHere(p, id, d) OBVIOUS
  <1>2. SameShape(p, h) /\ Sound(h) BY <1>0, <1>1, AddedHereShape
  <1>3. h.scopes = p.scopes /\ DOMAIN h.heap = DOMAIN p.heap /\ Current(h) = n
    BY <1>0, <1>2, SameShapeKeeps DEF SameShape
  <1>4. n \in DOMAIN p.heap BY <1>0, CurrentScope
  <1>5. CASE id = NoId
    <2>1. h = p /\ \A i \in Ids : i # id BY <1>1, <1>5, LocalAssumption DEF AddedHere
    <2> QED BY <1>0, <1>1, <1>2, <1>3, <2>1 DEF HasNames, ChangesOnly
  <1>6. CASE id # NoId
    <2>1. OneVal(p, h, n, id, d) BY <1>0, <1>1, <1>6, AddedHereVal
    <2>2. \A i \in Ids : Val(h, n, i) = IF i \in S \cup {id} THEN d ELSE NoSym BY <1>0, <1>4, <2>1 DEF OneVal
    <2>3. \A t \in DOMAIN p.heap, i \in Ids : t # n => Val(h, t, i) = Val(p, t, i) BY <2>1 DEF OneVal
    <2> QED BY <1>1, <1>2, <1>3, <2>2, <2>3 DEF HasNames, ChangesOnly
  <1> QED BY <1>5, <1>6

\* Entering a procedure.
LEMMA ProcVals ==
  ASSUME code \in Seq(TokenType), NEW u \in DOMAIN code, code[u].t = "open", code[u].kind = "proc",
         NEW g, Sound(g)
  PROVE  OpenVals(code, u, g, ProcScope(g, u))
  <1>1. /\ u \in Nat /\ code[u].id \in Ids /\ code[u].param \in Ids \cup {NoId}
        /\ code[u].result \in Ids \cup {NoId} /\ Context \in Ids \cup {NoId}
    <2>1. code[u] \in TokenType OBVIOUS
    <2>2. code[u].id \in Ids BY <2>1, TokenFields
    <2> QED BY <2>2, OpenToken, LocalAssumption
  <1>2. PICK p : p = Pushed(g) OBVIOUS
  <1>3. PICK n : n = Len(g.heap) + 1 OBVIOUS
  <1>4. Sound(p) /\ p.scopes = Append(g.scopes, n) /\ Len(p.heap) = n BY <1>2, <1>3, PushedFacts
  <1>5. SameVals(g, p) /\ \A i \in Ids : Val(p, n, i) = NoSym BY <1>2, <1>3, PushedVal
  <1>6. Current(p) = n
    <2>1. g.scopes \in Seq(Nat) BY ScopesDiffer
    <2>2. n \in Nat BY <1>3, Parents
    <2>3. PICK y : y = p.scopes OBVIOUS
    <2>4. y = Append(g.scopes, n) BY <1>4, <2>3
    <2>5. y # <<>> /\ y[Len(y)] = n BY <2>1, <2>2, <2>4, LastAppended
    <2> QED BY <2>3, <2>5 DEF Current
  <1>7. n \notin DOMAIN g.heap /\ DOMAIN g.heap \subseteq DOMAIN p.heap /\ n \in DOMAIN p.heap
    BY <1>3, <1>4, Parents
  <1>8. PICK S0 : S0 = {} OBVIOUS
  <1>9. HasNames(p, n, S0, u) BY <1>4, <1>5, <1>6, <1>8 DEF HasNames
  <1>10. PICK g1 : g1 = AddedHere(p, Context, u) OBVIOUS
  <1>10a. PICK S1 : S1 = S0 \cup {Context} OBVIOUS
  <1>11. HasNames(g1, n, S1, u) /\ ChangesOnly(p, g1, n)
    <2>1. Context \in Ids \cup {NoId} BY <1>1
    <2> QED BY <1>1, <1>9, <1>10, <1>10a, <2>1, ProcAdds
  <1>12. PICK g2 : g2 = AddedHere(g1, code[u].param, u) OBVIOUS
  <1>12a. PICK S2 : S2 = S1 \cup {code[u].param} OBVIOUS
  <1>13. HasNames(g2, n, S2, u) /\ ChangesOnly(g1, g2, n)
    <2>1. code[u].param \in Ids \cup {NoId} BY <1>1
    <2> QED BY <1>1, <1>11, <1>12, <1>12a, <2>1, ProcAdds
  <1>14. PICK g3 : g3 = AddedHere(g2, code[u].result, u) OBVIOUS
  <1>14a. PICK S3 : S3 = S2 \cup {code[u].result} OBVIOUS
  <1>15. HasNames(g3, n, S3, u) /\ ChangesOnly(g2, g3, n)
    <2>1. code[u].result \in Ids \cup {NoId} BY <1>1
    <2> QED BY <1>1, <1>13, <1>14, <1>14a, <2>1, ProcAdds
  <1>16. PICK g4 : g4 = AddedHere(g3, code[u].id, u) OBVIOUS
  <1>16a. PICK S4 : S4 = S3 \cup {code[u].id} OBVIOUS
  <1>17. HasNames(g4, n, S4, u) /\ ChangesOnly(g3, g4, n)
    <2>1. code[u].id \in Ids \cup {NoId} BY <1>1
    <2> QED BY <1>1, <1>15, <1>16, <1>16a, <2>1, ProcAdds
  <1>18. /\ g4.scopes = Append(g.scopes, n) /\ DOMAIN g4.heap = DOMAIN p.heap
         /\ \A i \in Ids : Val(g4, n, i) = IF DeclaresIn(code, u, i) THEN u ELSE NoSym
    <2>1. g4.scopes = Append(g.scopes, n) /\ DOMAIN g4.heap = DOMAIN p.heap BY <1>4, <1>11, <1>13, <1>15, <1>17 DEF ChangesOnly
    <2>2. \A i \in Ids : i \in S4 <=> DeclaresIn(code, u, i)
      BY <1>8, <1>10a, <1>12a, <1>14a, <1>16a DEF DeclaresIn
    <2> QED BY <1>17, <2>1, <2>2 DEF HasNames
  <1>19. \A t \in DOMAIN g.heap, i \in Ids : Val(g4, t, i) = Val(g, t, i)
    <2> SUFFICES ASSUME NEW t \in DOMAIN g.heap, NEW i \in Ids PROVE Val(g4, t, i) = Val(g, t, i) OBVIOUS
    <2>1. t \in DOMAIN p.heap /\ t # n BY <1>7
    <2>2. Val(p, t, i) = Val(g, t, i) BY <1>5 DEF SameVals
    <2>3. Val(g1, t, i) = Val(p, t, i) BY <1>11, <2>1 DEF ChangesOnly
    <2>4. Val(g2, t, i) = Val(g1, t, i) BY <1>11, <1>13, <2>1 DEF ChangesOnly
    <2>5. Val(g3, t, i) = Val(g2, t, i) BY <1>11, <1>13, <1>15, <2>1 DEF ChangesOnly
    <2>6. Val(g4, t, i) = Val(g3, t, i) BY <1>11, <1>13, <1>15, <1>17, <2>1 DEF ChangesOnly
    <2> QED BY <2>2, <2>3, <2>4, <2>5, <2>6
  <1>20. Current(g) \in DOMAIN g.heap /\ Current(g) # n /\ Current(g) \in DOMAIN g4.heap
    BY <1>7, <1>18, CurrentScope
  <1>21. PICK g5 : g5 = Added(g4, Current(g), code[u].id, u) OBVIOUS
  <1>17a. Sound(g4) BY <1>17 DEF HasNames
  <1>22. OneVal(g4, g5, Current(g), code[u].id, u) BY <1>1, <1>17a, <1>20, <1>21, AddedVal DEF Sound
  <1>23. g5.scopes = g4.scopes
    <2>1. g4 \in CtxType BY <1>17a DEF Sound
    <2>2. PICK s \in DOMAIN g4.heap : s = Current(g) BY <1>20
    <2>3. PICK x \in Ids : x = code[u].id BY <1>1
    <2>4. SameShape(g4, Added(g4, s, x, u)) BY <1>1, <2>1, AddedShape
    <2> QED BY <1>21, <2>2, <2>3, <2>4 DEF SameShape
  <1>24. ProcScope(g, u) = g5 BY <1>2, <1>10, <1>12, <1>14, <1>16, <1>21 DEF ProcScope
  <1>25. \A i \in Ids : NameOfProc(code, u, i) <=> i = code[u].id BY DEF NameOfProc
  <1>26. \A i \in Ids : Val(g5, n, i) = IF DeclaresIn(code, u, i) THEN u ELSE NoSym
    BY <1>7, <1>18, <1>20, <1>22 DEF OneVal
  <1>27. \A t \in DOMAIN g.heap, i \in Ids :
           Val(g5, t, i) = IF t = Current(g) /\ NameOfProc(code, u, i) THEN u ELSE Val(g, t, i)
    BY <1>7, <1>18, <1>19, <1>20, <1>22, <1>25 DEF OneVal
  <1> QED BY <1>3, <1>18, <1>23, <1>24, <1>26, <1>27 DEF OpenVals

\* A statement that is left: its scope goes.
LEMMA LevelsPop ==
  ASSUME NEW c \in Seq(TokenType), WellNested(c), NEW u \in DOMAIN c, c[u].t = "close", NEW G, NEW e,
         NEW g, Sound(g), NEW h \in Popped(g), NEW os, Levels(g, c, G, u, e, os)
  PROVE  \E q \in Seq(Nat) : Levels(h, c, G, u + 1, e, q)
  <1>1. /\ os \in Seq(Nat) /\ Len(os) = Len(g.scopes) /\ Sorted(c, u, os) /\ Len(os) \in Nat
        /\ \A id \in Ids : ~ HiddenIn(c, id) =>
             \A n \in 0 .. Len(os) : Val(g, ScopeAt(g, n), id) = Want(c, G, u, e, id, OpenAt(os, n))
    BY DEF Levels
  <1>2. PICK o : o = InnerOf(c, u) OBVIOUS
  <1>3. o \in Encl(c, u) /\ o \in Nat /\ o >= 1 /\ Encl(c, u + 1) = Encl(c, u) \ {o}
    BY <1>2, CloseFacts, InnerFacts
  <1>4. /\ OpenAt(os, Len(os)) = o
        /\ \A n \in 0 .. Len(os) : OpenAt(os, n) \in Encl(c, u) \cup {0} /\ OpenAt(os, n) \in Nat
        /\ \A m, n \in 0 .. Len(os) : m < n => OpenAt(os, m) < OpenAt(os, n)
    <2>1. os \in Seq(Nat) /\ Sorted(c, u, os) BY <1>1
    <2>2. /\ OpenAt(os, Len(os)) = InnerOf(c, u)
          /\ \A n \in 0 .. Len(os) : OpenAt(os, n) \in Encl(c, u) \cup {0} /\ OpenAt(os, n) \in Nat
          /\ \A m, n \in 0 .. Len(os) : m < n => OpenAt(os, m) < OpenAt(os, n)
      BY <2>1, TopIsInner, Zenon
    <2> QED BY <1>2, <2>2
  <1>5. Len(os) # 0 /\ os # <<>> BY <1>3, <1>4 DEF OpenAt
  <1>6. PICK N \in Nat : N = Len(os) - 1 BY <1>1, <1>5
  <1>7. PICK q : q = SubSeq(os, 1, Len(os) - 1) OBVIOUS
  <1>8. q \in Seq(Nat) /\ IsFront(q, os) BY <1>1, <1>5, <1>7, FrontOf
  <1>9. Len(os) = N + 1 /\ os[N + 1] = o /\ Len(q) = N /\ \A n \in 1 .. N : q[n] = os[n]
    <2>1. Len(os) = N + 1 BY <1>1, <1>6
    <2>2. os[N + 1] = o BY <1>4, <1>5, <2>1 DEF OpenAt
    <2>3. Len(q) = N /\ \A n \in 1 .. N : q[n] = os[n] BY <1>8, <2>1 DEF IsFront
    <2> QED BY <2>1, <2>2, <2>3
  <1>10. \A n \in 0 .. N : n \in 0 .. N + 1 /\ n < N + 1 /\ OpenAt(q, n) = OpenAt(os, n) BY <1>9 DEF OpenAt
  <1>11. \A n \in 0 .. N : OpenAt(os, n) < o /\ OpenAt(os, n) \in Nat
    <2>1. N + 1 \in 0 .. N + 1 OBVIOUS
    <2> QED BY <1>4, <1>9, <1>10, <2>1
  <1>12. Sorted(c, u + 1, q)
    <2>1. ASSUME NEW n \in 1 .. N PROVE q[n] \in Encl(c, u + 1)
      <3>1. n \in 0 .. N /\ n \in 1 .. N + 1 /\ n # 0 OBVIOUS
      <3>2. os[n] \in Encl(c, u) BY <1>1, <1>9, <3>1 DEF Sorted
      <3>3. os[n] < o /\ os[n] \in Nat BY <1>11, <3>1 DEF OpenAt
      <3> QED BY <1>3, <1>9, <3>2, <3>3
    <2>2. ASSUME NEW k \in Encl(c, u + 1) PROVE \E n \in 1 .. N : q[n] = k
      <3>1. k \in Encl(c, u) /\ k # o BY <1>3
      <3>2. PICK n \in 1 .. N + 1 : os[n] = k BY <1>1, <1>9, <3>1 DEF Sorted
      <3>3. n \in 1 .. N BY <1>9, <3>1, <3>2
      <3> QED BY <1>9, <3>2, <3>3
    <2>3. ASSUME NEW m \in 1 .. N, NEW n \in 1 .. N, m < n PROVE q[m] < q[n]
      <3>1. m \in 1 .. N + 1 /\ n \in 1 .. N + 1 OBVIOUS
      <3>2. os[m] < os[n] BY <1>1, <1>9, <2>3, <3>1 DEF Sorted
      <3> QED BY <1>9, <3>2
    <2> QED BY <1>9, <2>1, <2>2, <2>3 DEF Sorted
  <1>13. g.scopes # <<>> /\ Len(g.scopes) = N + 1
    <2>1. Len(g.scopes) = N + 1 /\ N + 1 # 0 BY <1>1, <1>9
    <2>2. Len(<<>>) = 0 OBVIOUS
    <2> QED BY <2>1, <2>2
  <1>14. /\ Len(h.scopes) = N /\ h.scopes \in Seq(Nat) /\ \A k \in DOMAIN h.scopes : h.scopes[k] = g.scopes[k]
    BY <1>13, PoppedFacts, CtxFields DEF Sound
  <1>15. \A n \in 0 .. N : ScopeAt(h, n) = ScopeAt(g, n) BY <1>14 DEF ScopeAt
  <1>16. \A n \in 0 .. N + 1 : ScopeAt(g, n) \in DOMAIN g.heap BY <1>13, ScopesDiffer
  <1>17. ASSUME NEW id \in Ids, ~ HiddenIn(c, id), NEW n \in 0 .. N
         PROVE  Val(h, ScopeAt(h, n), id) = Want(c, G, u + 1, e, id, OpenAt(q, n))
    <2>1. Val(g, ScopeAt(g, n), id) = Want(c, G, u, e, id, OpenAt(os, n)) BY <1>1, <1>9, <1>10, <1>17
    <2>2. Val(h, ScopeAt(g, n), id) = Val(g, ScopeAt(g, n), id) BY <1>10, <1>16, <1>17, PoppedVal DEF SameVals
    <2>3. ~ DeclaresIn(c, u, id) BY DEF DeclaresIn
    <2>4. PICK p : p = OpenAt(os, n) OBVIOUS
    <2>5. Own(c, u + 1, e, id, p) = Own(c, u, e, id, p) BY <2>3, OwnStep
    <2>6. Want(c, G, u + 1, e, id, p) = Want(c, G, u, e, id, p) BY <2>5, WantKeep
    <2> QED BY <1>10, <1>15, <1>17, <2>1, <2>2, <2>4, <2>6
  <1>18. Levels(h, c, G, u + 1, e, q) BY <1>8, <1>9, <1>12, <1>14, <1>17 DEF Levels
  <1> QED BY <1>8, <1>18

\* After a procedure its name is its last declaration around it.
LEMMA LevelsName ==
  ASSUME NEW c \in Seq(TokenType), WellNested(c), NEW u \in DOMAIN c, c[u].t = "close", NEW G, NEW e,
         NEW g, Sound(g), NEW o, o = InnerOf(c, u), o \notin e, c[o].kind = "proc",
         NEW q, Levels(g, c, G, u + 1, e, q)
  PROVE  Levels(AddedHere(g, c[o].id, o), c, G, u + 1, e, q)
  <1>1. /\ o \in Encl(c, u) /\ o \in DOMAIN c /\ c[o].t = "open" /\ o \in Nat /\ o < u /\ c[o].end = u
        /\ Encl(c, u + 1) = Encl(c, u) \ {o} /\ Encl(c, u) = Encl(c, o) \cup {o} /\ u \in Nat
    BY CloseFacts
  <1>2. o \notin Encl(c, o) BY <1>1, EnclOpen
  <1>3. Encl(c, u + 1) = Encl(c, o) BY <1>1, <1>2
  <1>4. PICK p : p = InnerOf(c, u + 1) OBVIOUS
  <1>5. InnerOf(c, o) = p BY <1>3, <1>4 DEF InnerOf
  <1>6. p \in Nat /\ p < o
    <2>1. p \in Nat /\ p \in Encl(c, o) \cup {0} BY <1>5, InnerFacts
    <2>2. o >= 1 BY <1>1
    <2> QED BY <1>1, <2>1, <2>2 DEF Encl
  <1>7. PICK name \in Ids : name = c[o].id
    <2>1. c[o] \in TokenType BY <1>1
    <2>2. c[o].id \in Ids BY <1>1, <2>1, TokenFields
    <2> QED BY <2>2
  <1>8. DeclaresIn(c, o, name) /\ OwnerIn(c, o, name) = p BY <1>1, <1>5, <1>7 DEF DeclaresIn, OwnerIn, NameOfProc
  <1>9. PICK S : S = Own(c, u + 1, e, name, p) OBVIOUS
  <1>10. S \in SUBSET (1 .. Len(c)) /\ Len(c) \in Nat BY <1>9, OwnRange
  <1>11. o \in S BY <1>1, <1>8, <1>9 DEF Own
  <1>12. ASSUME NEW j \in S PROVE j <= o
    <2>1. j \in DOMAIN c /\ j < u + 1 /\ OwnerIn(c, j, name) = p /\ j \in Nat BY <1>9 DEF Own
    <2>2. ~ (o < j)
      <3> SUFFICES ASSUME o < j PROVE FALSE OBVIOUS
      <3>1. j <= c[o].end BY <1>1, <2>1
      <3>2. OwnerIn(c, j, name) >= o BY <1>1, <2>1, <3>1, InsideOwner
      <3> QED BY <1>1, <1>6, <2>1, <3>2
    <2> QED BY <1>1, <2>1, <2>2
  <1>13. Greatest(S) = o BY <1>10, <1>11, <1>12, GreatestFacts
  <1>14. Want(c, G, u + 1, e, name, InnerOf(c, u + 1)) = o BY <1>4, <1>9, <1>11, <1>13 DEF Want
  <1>15. PICK h : h = AddedHere(g, name, o) OBVIOUS
  <1>16. OneVal(g, h, Current(g), name, o)
    <2>1. name \in Ids \cup {NoId} /\ name # NoId BY LocalAssumption
    <2> QED BY <1>1, <1>15, <2>1, AddedHereVal
  <1>17. h.scopes = g.scopes
    <2>1. name \in Ids \cup {NoId} OBVIOUS
    <2> QED BY <1>1, <1>15, <2>1, AddedHereShape DEF SameShape
  <1>18. Levels(h, c, G, u + 1, e, q) BY <1>14, <1>16, <1>17, LevelsSet
  <1> QED BY <1>7, <1>15, <1>18

-----------------------------------------------------------------------------
(* The steps.                                                              *)

\* An error reported at or after a token changes no meaning there.
LEMMA LexStable ==
  ASSUME NEW c \in Seq(TokenType), NEW G, NEW e, NEW e2, NEW u, NEW id, NEW d,
         \A k \in DOMAIN c : k < u => (k \in e <=> k \in e2)
  PROVE  IsLexical(c, G, e, u, id, d) <=> IsLexical(c, G, e2, u, id, d)
  <1>1. VisibleIn(c, e2, u, id) = VisibleIn(c, e, u, id) BY DEF VisibleIn
  <1> QED BY <1>1 DEF IsLexical

\* The invariant of a step of the analyser, spelled out.
LEMMA LexFacts ==
  ASSUME IInv, LexInv, phase = "sem"
  PROVE  /\ globals \subseteq Ids /\ (\A k \in errors : code[k].t # "open")
         /\ (\A u \in DOMAIN code : u >= at => u \notin errors /\ meant[u] = NoSym)
         /\ meant \in [DOMAIN code -> Nat \cup {NoSym}]
         /\ \E os \in Seq(Nat) : Levels(gc, code, globals, at, errors, os)
  BY DEF LexInv

\* The names before a token keep the meaning they have.
NamesMean(c, G, e, m, n) ==
  \A u \in Names(c) : u < n /\ ~ HiddenIn(c, c[u].id) =>
    IsLexical(c, G, e, u, c[u].id, m[u]) /\ (u \in e <=> m[u] = NoSym)

\* What a step of the analyser over a token has to show.
LEMMA LexStep ==
  ASSUME IInv, LexInv, phase = "sem", phase' = "sem", UNCHANGED <<globals, code>>,
         at \in DOMAIN code, at' \in Nat, at' > at, errors' \in {errors, errors \cup {at}}, code[at].t # "open" \/ errors' = errors,
         meant' \in [DOMAIN code -> Nat \cup {NoSym}],
         \A u \in DOMAIN code : u # at => meant'[u] = meant[u],
         \E os \in Seq(Nat) : Levels(gc', code, globals, at', errors', os),
         NamesMean(code, globals, errors', meant', at')
  PROVE  LexInv'
  <1>1. code \in Seq(TokenType) /\ DOMAIN code \subseteq Nat BY DEF IInv, TextInv
  <1>2. /\ globals \subseteq Ids /\ \A k \in errors : code[k].t # "open"
        /\ \A u \in DOMAIN code : u >= at => u \notin errors /\ meant[u] = NoSym
    BY LexFacts
  <1>3. \A k \in errors' : code[k].t # "open" BY <1>2
  <1>4. \A u \in DOMAIN code : u >= at' => u \notin errors' /\ meant'[u] = NoSym
    <2> SUFFICES ASSUME NEW u \in DOMAIN code, u >= at' PROVE u \notin errors' /\ meant'[u] = NoSym OBVIOUS
    <2>1. u >= at /\ u # at BY <1>1
    <2> QED BY <1>2, <2>1
  <1>5. \A u \in Names(code) : u < at' /\ ~ HiddenIn(code, code[u].id) =>
          /\ IsLexical(code, globals, errors', u, code[u].id, meant'[u])
          /\ u \in errors' <=> meant'[u] = NoSym
    BY DEF NamesMean
  <1> QED BY <1>2, <1>3, <1>4, <1>5 DEF LexInv

\* A step that names nothing.
LEMMA LexQuiet ==
  ASSUME IInv, LexInv, phase = "sem", phase' = "sem", UNCHANGED <<globals, code, meant>>,
         at \in DOMAIN code, at' \in Nat, at' > at, errors' \in {errors, errors \cup {at}}, code[at].t # "open" \/ errors' = errors,
         \A u \in Names(code) : u < at' => u < at,
         \E os \in Seq(Nat) : Levels(gc', code, globals, at', errors', os)
  PROVE  LexInv'
  <1>1. code \in Seq(TokenType) BY DEF IInv, TextInv
  <1>2. meant' \in [DOMAIN code -> Nat \cup {NoSym}] /\ \A u \in DOMAIN code : u # at => meant'[u] = meant[u]
    BY LexFacts
  <1>3. NamesMean(code, globals, errors', meant', at')
    <2> SUFFICES ASSUME NEW u \in Names(code), u < at', ~ HiddenIn(code, code[u].id)
                 PROVE  /\ IsLexical(code, globals, errors', u, code[u].id, meant'[u])
                        /\ u \in errors' <=> meant'[u] = NoSym
      BY DEF NamesMean
    <2>1. u < at /\ u \in DOMAIN code /\ u \in Nat /\ at \in Nat BY <1>1 DEF Names
    <2>2. IsLexical(code, globals, errors, u, code[u].id, meant[u]) /\ (u \in errors <=> meant[u] = NoSym)
      BY <2>1 DEF LexInv
    <2>3. \A k \in DOMAIN code : k < u => (k \in errors <=> k \in errors') BY <1>1, <2>1
    <2>4. u \in errors <=> u \in errors' BY <2>1
    <2>5. IsLexical(code, globals, errors', u, code[u].id, meant[u]) BY <1>1, <2>2, <2>3, LexStable
    <2> QED BY <2>2, <2>4, <2>5
  <1> QED BY <1>2, <1>3, LexStep

\* A token that is no name, next to be walked over.
LEMMA QuietToken ==
  ASSUME IInv, phase = "sem", at <= Len(code), Token.t \notin {"use", "defer"}
  PROVE  /\ code \in Seq(TokenType) /\ WellNested(code) /\ at \in DOMAIN code /\ Token = code[at] /\ at \in Nat
         /\ Sound(gc) /\ \A u \in Names(code) : u < at + 1 => u < at
  <1>1. /\ code \in Seq(TokenType) /\ WellNested(code) /\ at \in DOMAIN code /\ Token = code[at] /\ at \in Nat
        /\ Sound(gc) /\ TextInv
    BY SemFacts, NextToken
  <1>2. ASSUME NEW u \in Names(code), u < at + 1 PROVE u < at
    <2>1. u < at \/ u = at BY <1>1, <1>2, NamesBefore
    <2>2. u # at BY <1>1 DEF Names
    <2> QED BY <2>1, <2>2
  <1> QED BY <1>1, <1>2

\* A declaration in the current scope.
LEMMA LexDeclares ==
  ASSUME IInv, LexInv, phase = "sem", phase' = "sem", UNCHANGED <<globals, code, meant, errors>>,
         at <= Len(code), at' = at + 1, Token.t \in {"var", "const"}, gc' = AddedHere(gc, Token.id, at)
  PROVE  LexInv'
  <1>1. /\ code \in Seq(TokenType) /\ WellNested(code) /\ at \in DOMAIN code /\ Token = code[at] /\ at \in Nat
        /\ Sound(gc) /\ \A u \in Names(code) : u < at + 1 => u < at
    BY QuietToken
  <1>2. PICK os \in Seq(Nat) : Levels(gc, code, globals, at, errors, os) BY LexFacts
  <1>3. at \notin errors BY <1>1, LexFacts
  <1>4. PICK name \in Ids : name = Token.id
    <2>1. Token \in TokenType BY <1>1
    <2>2. Token.id \in Ids BY <2>1, TokenFields
    <2> QED BY <2>2
  <1>5. name \in Ids \cup {NoId} /\ name # NoId BY LocalAssumption
  <1>6. OneVal(gc, gc', Current(gc), name, at) BY <1>1, <1>4, <1>5, AddedHereVal
  <1>7. gc'.scopes = gc.scopes BY <1>1, <1>4, <1>5, AddedHereShape DEF SameShape
  <1>8. Levels(gc', code, globals, at + 1, errors, os)
    <2>1. OneVal(gc, gc', Current(gc), code[at].id, at) BY <1>1, <1>4, <1>6
    <2>2. code[at].t \in {"var", "const"} BY <1>1
    <2> QED BY <1>1, <1>2, <1>3, <1>7, <2>1, <2>2, LevelsDeclare
  <1>9. \E x \in Seq(Nat) : Levels(gc', code, globals, at', errors', x) BY <1>2, <1>8
  <1>10. code[at].t # "open" BY <1>1
  <1>11. at' \in Nat /\ at' > at BY <1>1
  <1> QED BY <1>1, <1>9, <1>10, <1>11, LexQuiet

\* A token that declares nothing that is seen.
LEMMA LexStays ==
  ASSUME IInv, LexInv, phase = "sem", phase' = "sem", UNCHANGED <<globals, code, meant, gc>>,
         at <= Len(code), at' = at + 1, Token.t \in {"var", "const", "return"}, errors' \in {errors, errors \cup {at}},
         \A id \in Ids : ~ HiddenIn(code, id) => at \in errors' \/ ~ DeclaresIn(code, at, id)
  PROVE  LexInv'
  <1>1. /\ code \in Seq(TokenType) /\ WellNested(code) /\ at \in DOMAIN code /\ Token = code[at] /\ at \in Nat
        /\ Sound(gc) /\ \A u \in Names(code) : u < at + 1 => u < at
    BY QuietToken
  <1>2. PICK os \in Seq(Nat) : Levels(gc, code, globals, at, errors, os) BY LexFacts
  <1>3. SameVals(gc, gc) BY DEF SameVals
  <1>4. code[at].t \notin {"open", "close"} BY <1>1
  <1>5. \A k \in DOMAIN code : k < at => (k \in errors <=> k \in errors') BY <1>1
  <1>6. Levels(gc, code, globals, at + 1, errors', os)
    <2>1. PICK e2 : e2 = errors' OBVIOUS
    <2>2. Levels(gc, code, globals, at + 1, e2, os) BY <1>1, <1>2, <1>3, <1>4, <1>5, <2>1, LevelsStay
    <2> QED BY <2>1, <2>2
  <1>7. \E x \in Seq(Nat) : Levels(gc', code, globals, at', errors', x) BY <1>2, <1>6
  <1>8. at' \in Nat /\ at' > at BY <1>1
  <1> QED BY <1>1, <1>4, <1>7, <1>8, LexQuiet

LEMMA LexVar == ASSUME IInv, LexInv, SemVar PROVE LexInv'
  <1>1. /\ phase = "sem" /\ phase' = "sem" /\ at <= Len(code) /\ Token.t = "var" /\ at' = at + 1
        /\ UNCHANGED <<code, globals, meant>>
        /\ \/ errors' = errors \cup {at} /\ gc' = gc
           \/ gc' = AddedHere(gc, Token.id, at) /\ errors' = errors
    BY DEF SemVar, AtSem
  <1>2. CASE errors' = errors \cup {at} /\ gc' = gc BY <1>1, <1>2, LexStays
  <1>3. CASE gc' = AddedHere(gc, Token.id, at) /\ errors' = errors BY <1>1, <1>3, LexDeclares
  <1> QED BY <1>1, <1>2, <1>3

LEMMA LexConst == ASSUME IInv, LexInv, SemConst PROVE LexInv'
  <1>1. /\ phase = "sem" /\ phase' = "sem" /\ at <= Len(code) /\ Token.t = "const" /\ at' = at + 1
        /\ UNCHANGED <<code, globals, meant, errors>>
        /\ gc' = IF Unanalysed(at) THEN gc ELSE AddedHere(gc, Token.id, at)
    BY DEF SemConst, AtSem, semVars
  <1>2. CASE Unanalysed(at)
    <2>1. LeftOut(code, at) /\ at \in DOMAIN code BY <1>1, <1>2, TextNames, QuietToken
    <2>2. \A id \in Ids : ~ HiddenIn(code, id) => ~ DeclaresIn(code, at, id) BY <2>1 DEF HiddenIn
    <2> QED BY <1>1, <1>2, <2>2, LexStays
  <1>3. CASE ~ Unanalysed(at) BY <1>1, <1>3, LexDeclares
  <1> QED BY <1>2, <1>3

LEMMA LexReturn == ASSUME IInv, LexInv, SemReturn PROVE LexInv'
  <1>1. /\ phase = "sem" /\ phase' = "sem" /\ at <= Len(code) /\ Token.t = "return" /\ at' = at + 1
        /\ UNCHANGED <<code, globals, meant, errors, gc>>
    BY DEF SemReturn, AtSem, semVars
  <1>2. Token = code[at] BY <1>1, QuietToken
  <1>3. \A id \in Ids : ~ DeclaresIn(code, at, id) BY <1>1, <1>2 DEF DeclaresIn
  <1> QED BY <1>1, <1>3, LexStays

\* A name that is found has a declaration.
LEMMA FoundDeclared ==
  ASSUME NEW g, Sound(g), NEW id \in Ids, Find(g, id) # 0
  PROVE  /\ Val(g, Find(g, id), id) \in Nat
         /\ g.heap[Find(g, id)].syms[id].decl = Val(g, Find(g, id), id)
  <1>1. FoundIn(g, id, Len(g.scopes)) /\ Find(g, id) = FoundFrom(g, id)[ScopeAt(g, Len(g.scopes))] BY FindVal
  <1>2. PICK s : s = Find(g, id) OBVIOUS
  <1>3. Val(g, s, id) # NoSym BY <1>1, <1>2 DEF FoundIn
  <1>4. s \in DOMAIN g.heap BY <1>2, FindRange
  <1>5. Val(g, s, id) \in Nat BY <1>3, <1>4, ValRange DEF Sound
  <1>6. g.heap[s].syms[id].decl = Val(g, s, id) BY <1>3 DEF Val
  <1> QED BY <1>2, <1>5, <1>6

LEMMA LexUse == ASSUME IInv, LexInv, SemUse PROVE LexInv'
  <1>1. /\ phase = "sem" /\ phase' = "sem" /\ at <= Len(code) /\ Token.t \in {"use", "defer"} /\ at' = at + 1
        /\ UNCHANGED <<code, globals, gc>>
    BY DEF SemUse, AtSem
  <1>2. /\ code \in Seq(TokenType) /\ WellNested(code) /\ at \in DOMAIN code /\ Token = code[at] /\ at \in Nat
        /\ Sound(gc) /\ TextInv
    BY <1>1, SemFacts, NextToken
  <1>3. PICK id \in Ids : id = Token.id
    <2>1. Token \in TokenType BY <1>2
    <2>2. Token.id \in Ids BY <1>1, <2>1, TokenFields
    <2> QED BY <2>2
  <1>4. PICK s : s = Find(gc, id) OBVIOUS
  <1>5. PICK os \in Seq(Nat) : Levels(gc, code, globals, at, errors, os) BY <1>1, LexFacts
  <1>6. /\ at \notin errors /\ meant[at] = NoSym /\ (\A k \in errors : code[k].t # "open")
        /\ meant \in [DOMAIN code -> Nat \cup {NoSym}]
    BY <1>1, <1>2, LexFacts
  <1>7. /\ s = 0 => errors' = errors \cup {at} /\ meant' = meant
        /\ s # 0 => errors' = errors /\ meant' = [meant EXCEPT ![at] = gc.heap[s].syms[id].decl]
    BY <1>3, <1>4 DEF SemUse
  <1>8. s # 0 => Val(gc, s, id) \in Nat /\ gc.heap[s].syms[id].decl = Val(gc, s, id) BY <1>2, <1>4, FoundDeclared
  <1>9. /\ meant' \in [DOMAIN code -> Nat \cup {NoSym}]
        /\ \A u \in DOMAIN code : u # at => meant'[u] = meant[u]
        /\ s # 0 => meant'[at] = Val(gc, s, id) /\ meant'[at] # NoSym
        /\ s = 0 => meant'[at] = NoSym
    <2>1. NoSym \notin Nat BY LocalAssumption
    <2> QED BY <1>2, <1>6, <1>7, <1>8, <2>1
  <1>10. errors' \in {errors, errors \cup {at}} /\ \A k \in DOMAIN code : k < at => (k \in errors <=> k \in errors')
    BY <1>2, <1>7
  <1>11. Levels(gc, code, globals, at + 1, errors', os)
    <2>1. PICK e2 : e2 = errors' OBVIOUS
    <2>2. SameVals(gc, gc) BY DEF SameVals
    <2>3. \A i \in Ids : ~ DeclaresIn(code, at, i) BY <1>1, <1>2 DEF DeclaresIn
    <2>4. code[at].t \notin {"open", "close"} BY <1>1, <1>2
    <2>5. Levels(gc, code, globals, at + 1, e2, os)
      BY <1>2, <1>5, <1>10, <2>1, <2>2, <2>3, <2>4, LevelsStay
    <2> QED BY <2>1, <2>5
  <1>12. NamesMean(code, globals, errors', meant', at')
    <2> SUFFICES ASSUME NEW u \in Names(code), u < at + 1, ~ HiddenIn(code, code[u].id)
                 PROVE  /\ IsLexical(code, globals, errors', u, code[u].id, meant'[u])
                        /\ u \in errors' <=> meant'[u] = NoSym
      BY <1>1 DEF NamesMean
    <2>1. u \in DOMAIN code /\ u \in Nat /\ (u < at \/ u = at) BY <1>1, <1>2, NamesBefore
    <2>2. \A k \in DOMAIN code : k < u => (k \in errors <=> k \in errors') BY <1>2, <1>7, <2>1
    <2>3. PICK e2 : e2 = errors' OBVIOUS
    <2>4. CASE u = at
      <3>1. code[u].id = id /\ ~ HiddenIn(code, id) BY <1>2, <1>3, <2>4
      <3>2. /\ s = 0 => IsLexical(code, globals, errors, at, id, NoSym)
            /\ s # 0 => IsLexical(code, globals, errors, at, id, Val(gc, s, id))
        BY <1>2, <1>4, <1>5, <1>6, <3>1, FoundIsLexical
      <3>3. IsLexical(code, globals, errors, u, id, meant'[u]) BY <1>9, <2>4, <3>2
      <3>4. IsLexical(code, globals, e2, u, id, meant'[u]) BY <1>2, <2>2, <2>3, <3>3, LexStable
      <3>5. u \in errors' <=> meant'[u] = NoSym BY <1>6, <1>7, <1>9, <2>4
      <3> QED BY <2>3, <3>1, <3>4, <3>5
    <2>5. CASE u < at /\ u # at
      <3>1. IsLexical(code, globals, errors, u, code[u].id, meant[u]) /\ (u \in errors <=> meant[u] = NoSym)
        BY <2>5 DEF LexInv
      <3>2. meant'[u] = meant[u] /\ (u \in errors <=> u \in errors') BY <1>7, <1>9, <2>1, <2>5
      <3>3. IsLexical(code, globals, e2, u, code[u].id, meant[u]) BY <1>2, <2>2, <2>3, <3>1, LexStable
      <3> QED BY <2>3, <3>1, <3>2, <3>3
    <2>6. u = at \/ (u < at /\ u # at) BY <1>2, <2>1
    <2> QED BY <2>4, <2>5, <2>6
  <1>13. \E x \in Seq(Nat) : Levels(gc', code, globals, at', errors', x) BY <1>1, <1>5, <1>11
  <1>14. code[at].t # "open" /\ at' \in Nat /\ at' > at BY <1>1, <1>2
  <1> QED BY <1>1, <1>2, <1>9, <1>10, <1>12, <1>13, <1>14, LexStep

LEMMA LexOpen == ASSUME IInv, LexInv, SemOpen PROVE LexInv'
  <1>1. /\ phase = "sem" /\ phase' = "sem" /\ at <= Len(code) /\ Token.t = "open"
        /\ UNCHANGED <<code, globals, meant, errors>>
    BY DEF SemOpen, AtSem, semVars
  <1>2. /\ code \in Seq(TokenType) /\ WellNested(code) /\ at \in DOMAIN code /\ Token = code[at] /\ at \in Nat
        /\ Sound(gc) /\ TextInv /\ \A u \in Names(code) : u < at + 1 => u < at
    BY <1>1, SemFacts, QuietToken
  <1>3. PICK os \in Seq(Nat) : Levels(gc, code, globals, at, errors, os) BY <1>1, LexFacts
  <1>4. code[at].t = "open" /\ at \notin errors /\ code[at].end \in Nat /\ at < code[at].end
    BY <1>1, <1>2, LexFacts, EndFacts
  <1>5. CASE Unanalysed(at)
    <2>1. LeftOut(code, at) /\ at' = code[at].end + 1 /\ gc' = gc BY <1>2, <1>5, TextNames DEF SemOpen
    <2>2. Levels(gc, code, globals, code[at].end + 1, errors, os) BY <1>2, <1>3, <1>4, <2>1, LevelsSkip
    <2>3. \A u \in Names(code) : u < at' => u < at BY <1>1, <1>2, <2>1, NamesSkipped
    <2>4. \E x \in Seq(Nat) : Levels(gc', code, globals, at', errors', x) BY <1>1, <1>3, <2>1, <2>2
    <2>5. at' \in Nat /\ at' > at BY <1>2, <1>4, <2>1
    <2> QED BY <1>1, <1>2, <2>3, <2>4, <2>5, LexQuiet
  <1>6. CASE ~ Unanalysed(at)
    <2>1. /\ ~ LeftOut(code, at) /\ at' = at + 1
          /\ gc' = IF code[at].kind = "proc" THEN ProcScope(gc, at) ELSE StmtScope(gc, at)
      BY <1>2, <1>6, TextNames DEF SemOpen
    <2>2. OpenVals(code, at, gc, gc') BY <1>2, <1>4, <2>1, ProcVals, StmtVals
    <2>3. Levels(gc', code, globals, at + 1, errors, Append(os, at)) BY <1>2, <1>3, <1>4, <2>1, <2>2, LevelsOpen
    <2>4. Append(os, at) \in Seq(Nat) BY <1>2, <1>3
    <2>5. \E x \in Seq(Nat) : Levels(gc', code, globals, at', errors', x) BY <1>1, <2>1, <2>3, <2>4
    <2>6. at' \in Nat /\ at' > at BY <1>2, <2>1
    <2> QED BY <1>1, <1>2, <2>1, <2>5, <2>6, LexQuiet
  <1> QED BY <1>5, <1>6

LEMMA LexClose == ASSUME IInv, LexInv, SemClose PROVE LexInv'
  <1>1. /\ phase = "sem" /\ phase' = "sem" /\ at <= Len(code) /\ Token.t = "close" /\ at' = at + 1
        /\ UNCHANGED <<code, globals, meant, errors>>
    BY DEF SemClose, AtSem, semVars
  <1>2. /\ code \in Seq(TokenType) /\ WellNested(code) /\ at \in DOMAIN code /\ Token = code[at] /\ at \in Nat
        /\ Sound(gc) /\ \A u \in Names(code) : u < at + 1 => u < at
    BY <1>1, QuietToken
  <1>3. PICK os \in Seq(Nat) : Levels(gc, code, globals, at, errors, os) BY <1>1, LexFacts
  <1>4. PICK o : o = InnerOf(code, at) OBVIOUS
  <1>5. code[at].t = "close" /\ o = Innermost(at) /\ o \notin errors
    <2>1. o \in DOMAIN code /\ code[o].t = "open" BY <1>1, <1>2, <1>4, CloseFacts
    <2> QED BY <1>1, <1>2, <1>4, <2>1, LexFacts, TextNames
  <1>6. PICK g \in Popped(gc) : gc' = IF code[o].kind = "proc" THEN AddedHere(g, code[o].id, o) ELSE g
    BY <1>5 DEF SemClose
  <1>7. Sound(g) BY <1>2, PoppedFacts
  <1>8. PICK q \in Seq(Nat) : Levels(g, code, globals, at + 1, errors, q) BY <1>2, <1>3, <1>5, LevelsPop
  <1>9. Levels(gc', code, globals, at + 1, errors, q)
    <2>1. CASE code[o].kind = "proc"
      <3>1. Levels(AddedHere(g, code[o].id, o), code, globals, at + 1, errors, q)
        BY <1>2, <1>4, <1>5, <1>7, <1>8, <2>1, LevelsName
      <3> QED BY <1>6, <2>1, <3>1
    <2>2. CASE code[o].kind # "proc" BY <1>6, <1>8, <2>2
    <2> QED BY <2>1, <2>2
  <1>10. \E x \in Seq(Nat) : Levels(gc', code, globals, at', errors', x) BY <1>1, <1>8, <1>9
  <1>11. at' \in Nat /\ at' > at /\ code[at].t # "open" BY <1>1, <1>2, <1>5
  <1> QED BY <1>1, <1>2, <1>10, <1>11, LexQuiet

\* The meanings stay when the analyser is through, and nothing changes them later.
LEMMA LexLater ==
  ASSUME IInv, LexInv, UNCHANGED <<globals, code, errors, meant>>, phase' # "sem", phase # "sem" \/ at > Len(code)
  PROVE  LexInv'
  <1>1. code \in Seq(TokenType) /\ at \in 1 .. Len(code) + 1 BY DEF IInv, TextInv
  <1>2. \A u \in Names(code) : u < at \/ phase # "sem" BY <1>1 DEF Names
  <1> QED BY <1>2 DEF LexInv

LEMMA InitLex == Init => LexInv
  <1> SUFFICES ASSUME Init PROVE LexInv OBVIOUS
  <1>1. IInv BY InitIInv
  <1>2. /\ code \in Seq(TokenType) /\ WellNested(code) /\ phase = "sem" /\ at = 1 /\ errors = {}
        /\ globals \subseteq Ids /\ meant = [k \in DOMAIN code |-> NoSym]
    <2>1. PICK p \in Programs : globals = p.globals /\ code = p.code BY DEF Init
    <2>2. p.globals \in SUBSET Ids BY <2>1, LocalAssumption DEF Named
    <2> QED BY <1>1, <2>1, <2>2 DEF Init, IInv, TextInv
  <1>3. PICK os : os = <<>> OBVIOUS
  <1>3a. os \in Seq(Nat) BY <1>3
  <1>4. PICK y : y = [id \in Ids |-> IF id \in globals THEN [decl |-> 0, konst |-> 0] ELSE NoSym] OBVIOUS
  <1>5. gc.heap[1].syms = y /\ gc.scopes = <<>> BY <1>4 DEF Init
  <1>6. Sorted(code, at, os) BY <1>2, <1>3, EnclEnds DEF Sorted
  <1>7. ASSUME NEW id \in Ids PROVE Val(gc, 1, id) = Want(code, globals, at, errors, id, 0)
    <2>1. Own(code, at, errors, id, 0) = {} BY <1>2 DEF Own
    <2>2. CASE id \in globals
      <3>1. y[id] = [decl |-> 0, konst |-> 0] BY <1>4, <2>2
      <3>2. y[id] \in [decl : Nat, konst : Nat] BY <3>1
      <3>3. y[id] # NoSym /\ y[id].decl = 0 BY <3>1, <3>2, LocalAssumption
      <3> QED BY <1>5, <2>1, <2>2, <3>3 DEF Val, Want
    <2>3. CASE id \notin globals
      <3>1. y[id] = NoSym BY <1>4, <2>3
      <3> QED BY <1>5, <2>1, <2>3, <3>1 DEF Val, Want
    <2> QED BY <2>2, <2>3
  <1>8. Levels(gc, code, globals, at, errors, os)
    <2>1. Len(os) = 0 /\ Len(gc.scopes) = 0 /\ 0 .. 0 = {0} BY <1>3, <1>5
    <2>2. ScopeAt(gc, 0) = 1 /\ OpenAt(os, 0) = 0 BY DEF ScopeAt, OpenAt
    <2> QED BY <1>3a, <1>6, <1>7, <2>1, <2>2 DEF Levels
  <1>9. meant \in [DOMAIN code -> Nat \cup {NoSym}] /\ \A u \in DOMAIN code : meant[u] = NoSym BY <1>2
  <1>10. \A u \in DOMAIN code : ~ (u < at) BY <1>2
  <1> QED BY <1>2, <1>3a, <1>8, <1>9, <1>10 DEF LexInv, Names

LEMMA LexInductive == IInv /\ LexInv /\ [Next]_vars => LexInv'
  <1> SUFFICES ASSUME IInv, LexInv, [Next]_vars PROVE LexInv' OBVIOUS
  <1>1. CASE SemVar BY <1>1, LexVar
  <1>2. CASE SemConst BY <1>2, LexConst
  <1>3. CASE SemUse BY <1>3, LexUse
  <1>4. CASE SemReturn BY <1>4, LexReturn
  <1>5. CASE SemOpen BY <1>5, LexOpen
  <1>6. CASE SemClose BY <1>6, LexClose
  <1>7. CASE SemEnd BY <1>7, LexLater DEF SemEnd, semVars
  <1>8. CASE Generate \/ Release \/ Destroy
    <2>1. phase # "sem" /\ phase' # "sem" /\ UNCHANGED <<globals, code, errors, meant>>
      BY <1>8 DEF Generate, Release, Destroy, AtGen, AtClose, semVars, GenVar, GenConst, GenUse, GenDefer, GenReturn,
                  GenOpen, GenSkip, GenCloseDo, GenClose, GenCloseProc, GenEnd
    <2> QED BY <2>1, LexLater
  <1>9. CASE UNCHANGED vars
    <2>1. UNCHANGED <<globals, code, phase, at, gc, errors, meant>> BY <1>9 DEF vars
    <2> QED BY <2>1 DEF LexInv
  <1> QED BY <1>1, <1>2, <1>3, <1>4, <1>5, <1>6, <1>7, <1>8, <1>9 DEF Next, Analyse

\* What the text says is one declaration: the CHOOSE of Lexical.
LEMMA LexicalIs ==
  ASSUME code \in Seq(TokenType), NEW u \in DOMAIN code, NEW id, NEW d,
         IsLexical(code, globals, errors, u, id, d)
  PROVE  d = Lexical(u, id)
  <1>1. \A k : OwnerOf(k, id) = OwnerIn(code, k, id) BY TextNames DEF OwnerOf, OwnerIn, NameOfProc
  <1>2. \A k : Declares(k, id) <=> DeclaresIn(code, k, id) BY DEF Declares, DeclaresIn
  <1>3. PICK V : V = Visible(u, id) OBVIOUS
  <1>4. VisibleIn(code, errors, u, id) = V BY <1>1, <1>2, <1>3, TextNames DEF VisibleIn, Visible
  <1>5. CASE V = {}
    <2>1. d = IF id \in globals THEN 0 ELSE NoSym BY <1>4, <1>5 DEF IsLexical
    <2> QED BY <1>3, <1>5, <2>1 DEF Lexical
  <1>6. CASE V # {}
    <2>1. d \in V /\ \A j \in V \ {d} : Before(code, id, j, d) BY <1>4, <1>6 DEF IsLexical
    <2>2. \A k \in V : k \in DOMAIN code /\ k \in Nat /\ OwnerIn(code, k, id) \in Nat
      <3>1. \A k \in V : k \in DOMAIN code BY <1>3 DEF Visible
      <3> QED BY <3>1, OwnerNat
    <2>3. ASSUME NEW k \in V, \A j \in V \ {k} : Before(code, id, j, k) PROVE k = d
      <3> SUFFICES ASSUME k # d PROVE FALSE OBVIOUS
      <3>1. Before(code, id, d, k) /\ Before(code, id, k, d) BY <2>1, <2>3
      <3> QED BY <2>1, <2>2, <3>1 DEF Before
    <2>4. Lexical(u, id) = CHOOSE k \in V : \A j \in V \ {k} : Before(code, id, j, k)
      BY <1>1, <1>3, <1>6 DEF Lexical, Before
    <2> QED BY <2>1, <2>3, <2>4
  <1> QED BY <1>5, <1>6

\* The analyser's scopes implement block structure, for every text: a name
\* means the innermost declaration before it, then the last one, and it is an
\* error where there is none (sem_pass2_node, sem_evaluate_identifier).
THEOREM LexicalAnalysis == Spec => []AnalyserIsLexical
  <1>1. IInv /\ LexInv => AnalyserIsLexical
    <2> SUFFICES ASSUME IInv, LexInv, phase \in {"release", "done"}, NEW u \in DOMAIN code,
                        code[u].t \in {"use", "defer"}, ~ HiddenConst(code[u].id), \A k \in Around(u) : ~ Unanalysed(k)
                 PROVE  meant[u] = Lexical(u, code[u].id) /\ (u \in errors <=> meant[u] = NoSym)
      BY DEF AnalyserIsLexical
    <2>1. code \in Seq(TokenType) BY DEF IInv, TextInv
    <2>2. u \in Names(code) BY TextNames DEF Names, Reached
    <2>3. ~ HiddenIn(code, code[u].id) BY TextNames DEF HiddenConst, HiddenIn, Declares, DeclaresIn
    <2>4. phase # "sem" OBVIOUS
    <2>5. IsLexical(code, globals, errors, u, code[u].id, meant[u]) /\ (u \in errors <=> meant[u] = NoSym)
      BY <2>2, <2>3, <2>4 DEF LexInv
    <2> QED BY <2>1, <2>5, LexicalIs
  <1> QED BY <1>1, Invariant, InitLex, LexInductive, PTL DEF Spec

-----------------------------------------------------------------------------
(* The names in the generator.  Its stack has one scope for every statement *)
(* around the current token but a `do', and one more for the signature of a *)
(* procedure; a scope holds, for each name that is declared in place, the   *)
(* last declaration before the token.                                       *)

\* The declarations of a name that somebody adds to a scope.
Seen(c, G, id) == {k \in DOMAIN c : DeclaresIn(c, k, id) /\ ~ LeftOut(c, k)} \cup (IF id \in G THEN {0} ELSE {})
Unrolled(c, k) == c[k].t = "open" /\ c[k].kind = "unroll"
EntryOk(c, G, id, y) ==
  y.decl \in Seen(c, G, id) /\ (y.konst # 0 => y.konst \in Seen(c, G, id) /\ Unrolled(c, y.konst))
Entries(c, G, g) ==
  \A s \in DOMAIN g.heap, id \in Ids : g.heap[s].syms[id] # NoSym => EntryOk(c, G, id, g.heap[s].syms[id])

\* Misplaced, of a given text.
OutOfPlace(c, k, id) ==
  \/ c[k].t = "open" /\ c[k].kind \in Loops
  \/ c[k].t = "const"
  \/ InnerOf(c, k) # 0 /\ c[InnerOf(c, k)].kind \in {"do", "loopdo"}
  \/ id = Context /\ InnerOf(c, k) # 0
  \/ LeftOut(c, k)
InPlace(c, id) == id # Context /\ \A k \in DOMAIN c : DeclaresIn(c, k, id) => ~ OutOfPlace(c, k, id)

\* The scopes of the stack by number: 2 * o is the signature of procedure o,
\* 2 * o + 1 the body of statement o.
Marks(c, u) == {2 * k + 1 : k \in In(c, u, Scoped)} \cup {2 * k : k \in In(c, u, {"proc"})}
Ascending(q, S) ==
  /\ \A n \in 1 .. Len(q) : q[n] \in S
  /\ \A x \in S : \E n \in 1 .. Len(q) : q[n] = x
  /\ \A m, n \in 1 .. Len(q) : m < n => q[m] < q[n]

\* The declarations before token u in the body of o, its parameters not among them.
Body(c, u, id, o) == {k \in DOMAIN c : k < u /\ DeclaresIn(c, k, id) /\ OwnerIn(c, k, id) = o /\ k # o}
\* v is what the scope of that number says of the name.
Says(c, u, id, x, v) ==
  \A o \in DOMAIN c :
    /\ x = 2 * o => v = IF id \in {c[o].param, c[o].result} THEN o ELSE NoSym
    /\ x = 2 * o + 1 => v = IF Body(c, u, id, o) = {} THEN NoSym ELSE Greatest(Body(c, u, id, o))
GenLevels(g, c, G, S, u, q) ==
  /\ q \in Seq(Nat) /\ Len(q) = Len(g.scopes) /\ Ascending(q, S)
  /\ \A id \in Ids : InPlace(c, id) =>
       /\ Val(g, 1, id) = Want(c, G, Len(c) + 1, {}, id, 0)
       /\ \A n \in 1 .. Len(q) : Says(c, u, id, q[n], Val(g, g.scopes[n], id))
  /\ \A n \in 1 .. Len(q), o \in DOMAIN c :
       q[n] = 2 * o /\ c[o].result # NoId => Val(g, g.scopes[n], c[o].result) # NoSym

\* SameBinding of one identifier that was generated, without its CHOOSEs.
DeclaredIn(c, G, id) == {k \in DOMAIN c : DeclaresIn(c, k, id)} \cup (IF id \in G THEN {0} ELSE {})
ResultAt(c, u, id, d) == d \in In(c, u, {"proc"}) /\ c[d].result = id /\ \A j \in In(c, u, {"proc"}) : j <= d
Right(c, G, e, b) ==
  \/ c[b.use].t \in {"return", "close"} /\ ResultAt(c, b.use, b.id, b.decl)
  \/ c[b.use].t \notin {"return", "close"} /\ IsLexical(c, G, e, b.use, b.id, b.decl)
  \/ \E j, k \in DeclaredIn(c, G, b.id) : j # k /\ (c[b.use].t # "use" \/ (k # 0 /\ OutOfPlace(c, k, b.id)))

BindInv ==
  /\ globals \subseteq Named /\ OneProcedure(code)
  /\ \A x \in defers : code[x.node].t = "defer"
  /\ phase \in {"sem", "gen"} =>
       /\ Entries(code, globals, gc)
       /\ \A k \in Names(code) : symbolOf[k] # 0 => Val(gc, symbolOf[k], code[k].id) # NoSym
  /\ phase = "sem" => made = {}
  /\ phase = "gen" => \E q \in Seq(Nat) : GenLevels(gc, code, globals, Marks(code, at), at, q)
  /\ \A b \in made : b.use \in DOMAIN code /\ Right(code, globals, errors, b)

\* The numbers of scopes, and what they stand for.
LEMMA MarkFacts ==
  ASSUME NEW c \in Seq(TokenType), NEW u
  PROVE  /\ Marks(c, u) \subseteq Nat
         /\ \A x \in Marks(c, u) : \E k \in In(c, u, Scoped) :
              /\ k \in Nat /\ k >= 1 /\ k <= InnerOf(c, u) /\ k \in DOMAIN c
              /\ x = 2 * k + 1 \/ (x = 2 * k /\ c[k].kind = "proc")
         /\ \A k \in In(c, u, Scoped) : 2 * k + 1 \in Marks(c, u) /\ (c[k].kind = "proc" => 2 * k \in Marks(c, u))
  <1>1. \A k \in In(c, u, Scoped) : k \in Nat /\ k >= 1 /\ k <= InnerOf(c, u) /\ k \in DOMAIN c
    BY InnerFacts DEF In, Encl
  <1>2. In(c, u, {"proc"}) = {k \in In(c, u, Scoped) : c[k].kind = "proc"}
    BY DEF In, Scoped, Kinds, ScopeKinds
  <1>3. ASSUME NEW x \in Marks(c, u)
        PROVE  \E k \in In(c, u, Scoped) : x = 2 * k + 1 \/ (x = 2 * k /\ c[k].kind = "proc")
    BY <1>2 DEF Marks
  <1>4. Marks(c, u) \subseteq Nat BY <1>1, <1>3
  <1>5. \A k \in In(c, u, Scoped) : 2 * k + 1 \in Marks(c, u) /\ (c[k].kind = "proc" => 2 * k \in Marks(c, u))
    BY <1>2 DEF Marks
  <1> QED BY <1>1, <1>3, <1>4, <1>5

\* The last of an ascending sequence is the greatest.
LEMMA AscendingTop ==
  ASSUME NEW S \in SUBSET Nat, NEW q \in Seq(Nat), Ascending(q, S), NEW x \in S, \A y \in S : y <= x
  PROVE  Len(q) \in 1 .. Len(q) /\ q[Len(q)] = x
  <1>1. Len(q) \in Nat /\ \A n \in 1 .. Len(q) : q[n] \in Nat OBVIOUS
  <1>2. PICK n \in 1 .. Len(q) : q[n] = x BY DEF Ascending
  <1>3. Len(q) \in 1 .. Len(q) BY <1>1, <1>2
  <1>4. q[Len(q)] <= x BY <1>3 DEF Ascending
  <1>5. n = Len(q) \/ n < Len(q) BY <1>1, <1>2
  <1>6. n < Len(q) => q[n] < q[Len(q)] BY <1>2, <1>3 DEF Ascending
  <1> QED BY <1>1, <1>2, <1>3, <1>4, <1>5, <1>6

LEMMA AscendingPush ==
  ASSUME NEW S \in SUBSET Nat, NEW q \in Seq(Nat), Ascending(q, S), NEW x \in Nat, \A y \in S : y < x
  PROVE  /\ Append(q, x) \in Seq(Nat) /\ Len(Append(q, x)) = Len(q) + 1 /\ Append(q, x)[Len(q) + 1] = x
         /\ \A n \in 1 .. Len(q) : Append(q, x)[n] = q[n]
         /\ Ascending(Append(q, x), S \cup {x})
  <1>1. PICK p : p = Append(q, x) OBVIOUS
  <1>2. PICK m \in Nat : m = Len(q) OBVIOUS
  <1>3. /\ p \in Seq(Nat) /\ Len(p) = m + 1 /\ p[m + 1] = x
        /\ \A n \in 1 .. m : p[n] = q[n]
    BY <1>1, <1>2
  <1>4. \A n \in 1 .. m + 1 : n = m + 1 \/ n \in 1 .. m OBVIOUS
  <1>5. \A n \in 1 .. m : q[n] \in S /\ n \in 1 .. m + 1 /\ n # m + 1 BY <1>2 DEF Ascending
  <1>6. \A n \in 1 .. m + 1 : p[n] \in S \cup {x} BY <1>3, <1>4, <1>5
  <1>7. ASSUME NEW y \in S \cup {x} PROVE \E n \in 1 .. m + 1 : p[n] = y
    <2>1. CASE y = x
      <3>1. m + 1 \in 1 .. m + 1 OBVIOUS
      <3> QED BY <2>1, <3>1, <1>3
    <2>2. CASE y \in S
      <3>1. PICK n \in 1 .. m : q[n] = y BY <1>2, <2>2 DEF Ascending
      <3> QED BY <3>1, <1>3, <1>5
    <2> QED BY <2>1, <2>2
  <1>8. ASSUME NEW j \in 1 .. m + 1, NEW n \in 1 .. m + 1, j < n PROVE p[j] < p[n]
    <2>1. j \in 1 .. m BY <1>8
    <2>2. CASE n = m + 1 BY <2>1, <2>2, <1>3, <1>5
    <2>3. CASE n \in 1 .. m
      <3>1. q[j] < q[n] BY <1>2, <1>8, <2>1, <2>3 DEF Ascending
      <3> QED BY <2>1, <2>3, <3>1, <1>3
    <2> QED BY <1>4, <2>2, <2>3
  <1> QED BY <1>1, <1>2, <1>3, <1>6, <1>7, <1>8 DEF Ascending

LEMMA AscendingPop ==
  ASSUME NEW S \in SUBSET Nat, NEW q \in Seq(Nat), Ascending(q, S), NEW x \in S, \A y \in S : y <= x
  PROVE  LET r == SubSeq(q, 1, Len(q) - 1)
         IN  /\ r \in Seq(Nat) /\ Len(r) = Len(q) - 1 /\ Len(q) \in Nat \ {0}
             /\ \A n \in 1 .. Len(r) : r[n] = q[n] /\ n \in 1 .. Len(q)
             /\ Ascending(r, S \ {x})
  <1>1. Len(q) \in 1 .. Len(q) /\ q[Len(q)] = x BY AscendingTop
  <1>2. PICK m \in Nat : m + 1 = Len(q)
    <2>1. Len(q) - 1 \in Nat /\ (Len(q) - 1) + 1 = Len(q) BY <1>1
    <2> QED BY <2>1
  <1>3. PICK r : r = SubSeq(q, 1, m) OBVIOUS
  <1>4. r \in Seq(Nat) /\ Len(r) = m /\ \A n \in 1 .. m : r[n] = q[n] BY <1>2, <1>3
  <1>5. \A n \in 1 .. m : n \in 1 .. m + 1 /\ n < m + 1 BY <1>2
  <1>6. \A n \in 1 .. m + 1 : q[n] \in S /\ (n # m + 1 => n \in 1 .. m) BY <1>2 DEF Ascending
  <1>7. m + 1 \in 1 .. m + 1 /\ q[m + 1] = x BY <1>1, <1>2
  <1>8. ASSUME NEW n \in 1 .. m PROVE r[n] \in S \ {x}
    <2>1. q[n] < q[m + 1] /\ q[n] \in S BY <1>2, <1>5, <1>6, <1>7 DEF Ascending
    <2>2. q[n] \in Nat /\ q[n] < x BY <2>1, <1>7
    <2> QED BY <1>4, <2>1, <2>2
  <1>9. ASSUME NEW y \in S \ {x} PROVE \E n \in 1 .. m : r[n] = y
    <2>1. PICK n \in 1 .. m + 1 : q[n] = y BY <1>2 DEF Ascending
    <2>2. n # m + 1 BY <1>7, <2>1
    <2>3. n \in 1 .. m BY <1>6, <2>2
    <2> QED BY <1>4, <2>1, <2>3
  <1>10. ASSUME NEW j \in 1 .. m, NEW n \in 1 .. m, j < n PROVE r[j] < r[n]
    <2>1. q[j] < q[n] BY <1>2, <1>5, <1>10 DEF Ascending
    <2> QED BY <1>4, <2>1
  <1>11. Ascending(r, S \ {x}) BY <1>4, <1>8, <1>9, <1>10 DEF Ascending
  <1>12. Len(q) - 1 = m BY <1>2
  <1> QED BY <1>2, <1>3, <1>4, <1>5, <1>11, <1>12

\* What is declared in place, and where.
LEMMA InPlaceFacts ==
  ASSUME NEW c \in Seq(TokenType), NEW id \in Ids, InPlace(c, id), NEW k \in DOMAIN c, DeclaresIn(c, k, id)
  PROVE  /\ ~ LeftOut(c, k) /\ c[k].t # "const"
         /\ InnerOf(c, k) # 0 => c[InnerOf(c, k)].kind \in Scoped
         /\ c[k].t = "open" => c[k].kind = "proc"
         /\ OwnerIn(c, k, id) = k => c[k].t = "open" /\ c[k].kind = "proc" /\ id \in {c[k].param, c[k].result}
         /\ OwnerIn(c, k, id) # k => OwnerIn(c, k, id) = InnerOf(c, k)
         /\ c[k].t = "open" /\ OwnerIn(c, k, id) # k => NameOfProc(c, k, id)
         /\ OwnerIn(c, k, id) # 0 => OwnerIn(c, k, id) \in DOMAIN c /\ c[OwnerIn(c, k, id)].kind \in Scoped
  <1>1. ~ OutOfPlace(c, k, id) /\ id # Context BY DEF InPlace
  <1>2. c[k] \in TokenType /\ k \in Nat /\ k >= 1 OBVIOUS
  <1>3. NoId \notin Ids BY LocalAssumption
  <1>4. c[k].t = "open" => c[k].kind = "proc"
    <2> SUFFICES ASSUME c[k].t = "open", c[k].kind # "proc" PROVE FALSE OBVIOUS
    <2>1. c[k].kind \notin Loops BY <1>1 DEF OutOfPlace
    <2>2. c[k].id = NoId /\ c[k].param = NoId /\ c[k].result = NoId BY <1>2, <2>1, TokenFields
    <2> QED BY <1>1, <1>3, <2>2 DEF DeclaresIn
  <1>5. InnerOf(c, k) # 0 => InnerOf(c, k) \in DOMAIN c /\ InnerOf(c, k) < k /\ c[InnerOf(c, k)].kind \in Scoped
    <2> SUFFICES ASSUME InnerOf(c, k) # 0
                 PROVE  InnerOf(c, k) \in DOMAIN c /\ InnerOf(c, k) < k /\ c[InnerOf(c, k)].kind \in Scoped
      OBVIOUS
    <2>1. PICK o : o = InnerOf(c, k) OBVIOUS
    <2>2. o \in Encl(c, k) BY <2>1, InnerFacts
    <2>3. o \in DOMAIN c /\ c[o].t = "open" /\ o < k BY <2>2 DEF Encl
    <2>4. c[o].kind \notin {"do", "loopdo"} BY <1>1, <2>1 DEF OutOfPlace
    <2>5. c[o] \in TokenType BY <2>3
    <2>6. c[o].kind \in Kinds BY <2>3, <2>5, TokenFields
    <2> QED BY <2>1, <2>3, <2>4, <2>6 DEF Scoped
  <1>6. ~ LeftOut(c, k) /\ c[k].t # "const" BY <1>1 DEF OutOfPlace
  <1>7. InnerOf(c, k) # k
    <2>1. InnerOf(c, k) # 0 => InnerOf(c, k) < k /\ InnerOf(c, k) \in Nat BY <1>5, InnerFacts
    <2> QED BY <1>2, <2>1
  <1>8. OwnerIn(c, k, id) = k => c[k].t = "open" /\ c[k].kind = "proc" /\ id \in {c[k].param, c[k].result}
    BY <1>1, <1>4, <1>7 DEF OwnerIn, DeclaresIn, NameOfProc
  <1>9. /\ OwnerIn(c, k, id) # k => OwnerIn(c, k, id) = InnerOf(c, k)
        /\ c[k].t = "open" /\ OwnerIn(c, k, id) # k => NameOfProc(c, k, id)
    BY DEF OwnerIn
  <1>10. "proc" \in Scoped BY DEF Scoped, Kinds
  <1> QED BY <1>4, <1>5, <1>6, <1>8, <1>9, <1>10

\* A procedure text: nothing but the procedure itself is outside it.
LEMMA OneFacts ==
  ASSUME NEW c \in Seq(TokenType), WellNested(c), OneProcedure(c)
  PROVE  /\ 1 \in DOMAIN c /\ c[1].t = "open" /\ c[1].kind = "proc" /\ c[1].end = Len(c) /\ Len(c) \in Nat
         /\ InnerOf(c, 1) = 0
         /\ \A u \in DOMAIN c : u # 1 => 1 \in In(c, u, {"proc"}) /\ InnerOf(c, u) >= 1 /\ InnerOf(c, u) \in Encl(c, u)
         /\ \A k \in DOMAIN c : \A id : OwnerIn(c, k, id) = 0 => k = 1
  <1>1. 1 \in DOMAIN c /\ c[1].t = "open" /\ c[1].kind = "proc" /\ c[1].end = Len(c) /\ Len(c) \in Nat
    <2>1. Len(c) \in Nat /\ Len(c) # 0 BY DEF OneProcedure
    <2> QED BY <2>1 DEF OneProcedure
  <1>2. InnerOf(c, 1) = 0 BY EnclEnds, InnerFacts
  <1>3. ASSUME NEW u \in DOMAIN c, u # 1
        PROVE  1 \in In(c, u, {"proc"}) /\ InnerOf(c, u) >= 1 /\ InnerOf(c, u) \in Encl(c, u)
    <2>1. 1 < u /\ u <= c[1].end BY <1>1, <1>3
    <2>2. 1 \in Encl(c, u) BY <1>1, <2>1 DEF Encl
    <2>3. InnerOf(c, u) >= 1 /\ InnerOf(c, u) \in Encl(c, u) \cup {0} BY <2>2, InnerFacts
    <2> QED BY <1>1, <2>2, <2>3 DEF In
  <1>4. ASSUME NEW k \in DOMAIN c, NEW id, OwnerIn(c, k, id) = 0 PROVE k = 1
    <2>1. InnerOf(c, k) = 0 BY <1>4, OwnerNat
    <2> QED BY <1>3, <2>1
  <1> QED BY <1>1, <1>2, <1>3, <1>4

\* What is declared outside the procedure is known once it has started.
LEMMA OutsideKnown ==
  ASSUME NEW c \in Seq(TokenType), WellNested(c), OneProcedure(c), NEW u \in Nat, u > 1, NEW id
  PROVE  Own(c, u, {}, id, 0) = Own(c, Len(c) + 1, {}, id, 0)
  <1>1. \A k \in DOMAIN c : OwnerIn(c, k, id) = 0 => k = 1 BY OneFacts
  <1>2. Len(c) \in Nat /\ 1 < Len(c) + 1 BY OneFacts
  <1> QED BY <1>1, <1>2 DEF Own

\* The last of the declarations in a body is one of them.
LEMMA BodyFacts ==
  ASSUME NEW c \in Seq(TokenType), NEW u, NEW id, NEW o
  PROVE  /\ \A k \in Body(c, u, id, o) : k \in DOMAIN c /\ k \in Nat /\ k >= 1 /\ k < u
         /\ Body(c, u, id, o) # {} => /\ Greatest(Body(c, u, id, o)) \in Body(c, u, id, o)
                                      /\ \A j \in Body(c, u, id, o) : j <= Greatest(Body(c, u, id, o))
         /\ \A m \in Body(c, u, id, o) : (\A j \in Body(c, u, id, o) : j <= m) => Greatest(Body(c, u, id, o)) = m
  <1>1. PICK S : S = Body(c, u, id, o) OBVIOUS
  <1>2. S \in SUBSET (1 .. Len(c)) /\ Len(c) \in Nat BY <1>1 DEF Body
  <1>3. S # {} => /\ Greatest(S) \in S /\ \A j \in S : j <= Greatest(S)
                  /\ \A m \in S : (\A j \in S : j <= m) => Greatest(S) = m
    BY <1>2, GreatestFacts
  <1>4. \A k \in S : k \in DOMAIN c /\ k \in Nat /\ k >= 1 /\ k < u BY <1>1, <1>2 DEF Body
  <1> QED BY <1>1, <1>3, <1>4

LEMMA BodyStep ==
  ASSUME NEW c \in Seq(TokenType), NEW u \in DOMAIN c, NEW id, NEW o
  PROVE  /\ DeclaresIn(c, u, id) /\ OwnerIn(c, u, id) = o /\ u # o => Body(c, u + 1, id, o) = Body(c, u, id, o) \cup {u}
         /\ ~ DeclaresIn(c, u, id) \/ OwnerIn(c, u, id) # o \/ u = o => Body(c, u + 1, id, o) = Body(c, u, id, o)
  <1>1. \A k \in DOMAIN c : k < u + 1 <=> k < u \/ k = u OBVIOUS
  <1>2. ~ (u < u) OBVIOUS
  <1> QED BY <1>1, <1>2 DEF Body

\* Nothing is in a body before it starts.
LEMMA BodyStarts ==
  ASSUME NEW c \in Seq(TokenType), NEW o \in DOMAIN c, NEW id
  PROVE  Body(c, o + 1, id, o) = {}
  <1> SUFFICES ASSUME NEW k \in Body(c, o + 1, id, o) PROVE FALSE OBVIOUS
  <1>1. k \in DOMAIN c /\ k < o + 1 /\ OwnerIn(c, k, id) = o /\ k # o /\ k \in Nat /\ o \in Nat BY DEF Body
  <1>2. k < o BY <1>1
  <1>3. OwnerIn(c, k, id) = InnerOf(c, k) BY <1>1 DEF OwnerIn
  <1>4. o \in Encl(c, k) BY <1>1, <1>2, <1>3, InnerFacts
  <1> QED BY <1>1, <1>2, <1>4 DEF Encl

\* What is between the start of a statement and its end is not in a body outside.
LEMMA BodyOutside ==
  ASSUME NEW c \in Seq(TokenType), WellNested(c), NEW k \in DOMAIN c, c[k].t = "open",
         NEW u \in Nat, NEW v \in Nat, k < u, u <= c[k].end + 1, k < v, v <= c[k].end + 1,
         NEW o \in Nat, o < k, NEW id
  PROVE  Body(c, u, id, o) = Body(c, v, id, o)
  <1>1. c[k].end \in Nat /\ k \in Nat BY EndFacts
  <1>2. ASSUME NEW j \in DOMAIN c, OwnerIn(c, j, id) = o PROVE ~ (k < j /\ j <= c[k].end)
    <2> SUFFICES ASSUME k < j, j <= c[k].end PROVE FALSE OBVIOUS
    <2>1. OwnerIn(c, j, id) >= k BY InsideOwner
    <2> QED BY <1>1, <1>2, <2>1
  <1>3. \A j \in DOMAIN c : j \in Nat OBVIOUS
  <1>4. ASSUME NEW j \in DOMAIN c, OwnerIn(c, j, id) = o PROVE j < u <=> j < v
    <2>1. j <= k \/ j > c[k].end BY <1>1, <1>2, <1>3, <1>4
    <2> QED BY <1>1, <1>3, <2>1
  <1> QED BY <1>4 DEF Body

\* The scope that a name in place is found in says what it means in the text.
LEMMA FoundInPlace ==
  ASSUME NEW c \in Seq(TokenType), WellNested(c), OneProcedure(c), NEW u \in Nat, u > 1, NEW G, NEW g, Sound(g),
         NEW q, GenLevels(g, c, G, Marks(c, u), u, q), NEW id \in Ids, InPlace(c, id)
  PROVE  /\ Find(g, id) = 0 => IsLexical(c, G, {}, u, id, NoSym)
         /\ Find(g, id) # 0 => IsLexical(c, G, {}, u, id, Val(g, Find(g, id), id))
  <1> DEFINE N == Len(g.scopes)
             V == VisibleIn(c, {}, u, id)
             W(n) == Val(g, ScopeAt(g, n), id)
             M == Marks(c, u)
  <1>1. /\ q \in Seq(Nat) /\ Len(q) = N /\ Ascending(q, M) /\ N \in Nat
        /\ W(0) = Want(c, G, u, {}, id, 0)
        /\ \A n \in 1 .. N : Says(c, u, id, q[n], W(n))
    <2>1. ScopeAt(g, 0) = 1 /\ \A n \in 1 .. N : ScopeAt(g, n) = g.scopes[n] BY DEF ScopeAt
    <2>2. Want(c, G, u, {}, id, 0) = Want(c, G, Len(c) + 1, {}, id, 0) BY OutsideKnown, WantKeep
    <2> QED BY <2>1, <2>2, ScopesDiffer DEF GenLevels
  <1>2. /\ M \subseteq Nat
        /\ \A x \in M : \E k \in In(c, u, Scoped) : /\ k \in Nat /\ k >= 1 /\ k \in DOMAIN c
                                                    /\ x = 2 * k + 1 \/ (x = 2 * k /\ c[k].kind = "proc")
        /\ \A k \in In(c, u, Scoped) : 2 * k + 1 \in M /\ (c[k].kind = "proc" => 2 * k \in M)
    BY MarkFacts
  <1>3. ASSUME NEW k \in V
        PROVE  /\ k \in Nat /\ k \in DOMAIN c /\ k < u /\ DeclaresIn(c, k, id)
               /\ OwnerIn(c, k, id) \in Nat
               /\ OwnerIn(c, k, id) # 0 => OwnerIn(c, k, id) \in In(c, u, Scoped)
    <2>1. k \in DOMAIN c /\ DeclaresIn(c, k, id) /\ OwnerIn(c, k, id) \in Encl(c, u) \cup {0} /\ k < u BY DEF VisibleIn
    <2>2. OwnerIn(c, k, id) # 0 => c[OwnerIn(c, k, id)].kind \in Scoped BY <2>1, InPlaceFacts
    <2> QED BY <2>1, <2>2, OwnerNat DEF In
  <1>4. ASSUME NEW k \in V, OwnerIn(c, k, id) # 0
        PROVE  \E n \in 1 .. N : /\ q[n] = 2 * OwnerIn(c, k, id) + 1 \/ q[n] = 2 * OwnerIn(c, k, id)
                                 /\ W(n) # NoSym
    <2>1. PICK o \in In(c, u, Scoped) : o = OwnerIn(c, k, id) BY <1>3, <1>4
    <2>2. o \in DOMAIN c /\ o \in Nat BY DEF In, Encl
    <2>3. CASE k = o
      <3>1. c[o].kind = "proc" /\ id \in {c[o].param, c[o].result} BY <1>3, <2>1, <2>3, InPlaceFacts
      <3>2. 2 * o \in M BY <1>2, <3>1
      <3>3. PICK n \in 1 .. N : q[n] = 2 * o BY <1>1, <3>2 DEF Ascending
      <3>4. W(n) = o BY <1>1, <2>2, <3>1, <3>3 DEF Says
      <3>5. o # NoSym BY <2>2, LocalAssumption
      <3> HIDE DEF W
      <3> QED BY <2>1, <3>3, <3>4, <3>5
    <2>4. CASE k # o
      <3>1. k \in Body(c, u, id, o) BY <1>3, <2>1, <2>4 DEF Body
      <3>2. Greatest(Body(c, u, id, o)) \in Nat BY <3>1, BodyFacts
      <3>3. 2 * o + 1 \in M BY <1>2
      <3>4. PICK n \in 1 .. N : q[n] = 2 * o + 1 BY <1>1, <3>3 DEF Ascending
      <3>5. W(n) = Greatest(Body(c, u, id, o)) BY <1>1, <2>2, <3>1, <3>4 DEF Says
      <3>6. W(n) # NoSym BY <3>2, <3>5, LocalAssumption
      <3> HIDE DEF W
      <3> QED BY <2>1, <3>4, <3>6
    <2> QED BY <2>3, <2>4
  <1>5. FoundIn(g, id, N) /\ Find(g, id) = FoundFrom(g, id)[ScopeAt(g, N)] BY FindVal
  <1>6. \A n \in 0 .. N : ScopeAt(g, n) \in DOMAIN g.heap /\ ScopeAt(g, n) # 0
    <2>1. DOMAIN g.heap = 1 .. Len(g.heap) BY Parents
    <2> QED BY <2>1, ScopesDiffer
  \* No scope above the global one has the name.
  <1>7. ASSUME \A n \in 1 .. N : W(n) = NoSym PROVE IsLexical(c, G, {}, u, id, W(0))
    <2>1. ASSUME NEW k \in V PROVE OwnerIn(c, k, id) = 0
      <3> HIDE DEF W, N, V
      <3> QED BY <1>4, <1>7, <2>1
    <2>2. PICK O : O = Own(c, u, {}, id, 0) OBVIOUS
    <2>3. V = O
      <3>1. \A k \in O : k \in V BY <2>2 DEF Own, VisibleIn
      <3>2. \A k \in V : k \in O BY <2>1, <2>2 DEF Own, VisibleIn
      <3> QED BY <3>1, <3>2
    <2>4. CASE O = {}
      <3>1. W(0) = IF id \in G THEN 0 ELSE NoSym BY <1>1, <2>2, <2>4 DEF Want
      <3> QED BY <2>3, <2>4, <3>1 DEF IsLexical
    <2>5. CASE O # {}
      <3>1. PICK w : w = W(0) OBVIOUS
      <3>2. w \in O /\ \A j \in O : j <= w BY <1>1, <2>2, <2>5, <3>1, WantKnows
      <3>3. ASSUME NEW j \in V \ {w} PROVE Before(c, id, j, w)
        <4>1. j \in Nat /\ w \in Nat /\ OwnerIn(c, j, id) = 0 /\ OwnerIn(c, w, id) = 0 BY <1>3, <2>1, <2>3, <3>2
        <4>2. j < w BY <2>3, <3>2, <3>3, <4>1
        <4> QED BY <4>1, <4>2 DEF Before
      <3> HIDE DEF W, V
      <3> QED BY <2>3, <3>1, <3>2, <3>3 DEF IsLexical, V
    <2> QED BY <2>4, <2>5
  \* The highest scope with the name is one of the stack.
  <1>8. ASSUME NEW m \in 1 .. N, W(m) # NoSym, \A n \in m + 1 .. N : W(n) = NoSym
        PROVE  IsLexical(c, G, {}, u, id, W(m))
    <2>0. PICK w : w = W(m) OBVIOUS
    <2>1. PICK o \in In(c, u, Scoped) : /\ o \in Nat /\ o >= 1 /\ o \in DOMAIN c
                                        /\ q[m] = 2 * o + 1 \/ (q[m] = 2 * o /\ c[o].kind = "proc")
      <3>1. PICK x \in M : x = q[m] BY <1>1 DEF Ascending
      <3>2. PICK k \in In(c, u, Scoped) : /\ k \in Nat /\ k >= 1 /\ k \in DOMAIN c
                                          /\ x = 2 * k + 1 \/ (x = 2 * k /\ c[k].kind = "proc")
        BY <1>2, <3>1
      <3> QED BY <3>1, <3>2
    <2>2. o \in Encl(c, u) /\ c[o].t = "open" /\ o < u /\ u <= c[o].end /\ c[o].end \in Nat BY <2>1, EndFacts DEF In, Encl
    <2>3. \A n \in 1 .. N : W(n) # NoSym => q[n] <= q[m]
      <3> SUFFICES ASSUME NEW n \in 1 .. N, W(n) # NoSym PROVE q[n] <= q[m] OBVIOUS
      <3>1. ~ (m < n)
        <4>1. m < n => n \in m + 1 .. N BY <1>1
        <4> HIDE DEF W
        <4> QED BY <1>8, <4>1
      <3>2. n = m \/ n < m BY <1>1, <3>1
      <3>3. n < m => q[n] < q[m] BY <1>1 DEF Ascending
      <3>4. q[n] \in Nat /\ q[m] \in Nat BY <1>1
      <3> QED BY <3>2, <3>3, <3>4
    <2>4. ASSUME NEW k \in V PROVE OwnerIn(c, k, id) <= o
      <3>1. OwnerIn(c, k, id) \in Nat BY <1>3
      <3>2. CASE OwnerIn(c, k, id) = 0 BY <2>1, <3>2
      <3>3. CASE OwnerIn(c, k, id) # 0
        <4>1. PICK n \in 1 .. N : /\ q[n] = 2 * OwnerIn(c, k, id) + 1 \/ q[n] = 2 * OwnerIn(c, k, id)
                                  /\ W(n) # NoSym
          <5> HIDE DEF W, V, N
          <5> QED BY <1>4, <3>3
        <4>2. q[n] <= q[m] BY <2>3, <4>1
        <4>3. 2 * OwnerIn(c, k, id) <= 2 * o + 1 BY <2>1, <3>1, <4>1, <4>2
        <4> QED BY <2>1, <3>1, <4>3
      <3> QED BY <3>2, <3>3
    <2>5. CASE q[m] = 2 * o + 1
      <3>1. PICK B : B = Body(c, u, id, o) OBVIOUS
      <3>2. B # {} /\ w = Greatest(B)
        <4>1. w = IF B = {} THEN NoSym ELSE Greatest(B) BY <1>1, <2>0, <2>1, <2>5, <3>1 DEF Says
        <4> QED BY <1>8, <2>0, <4>1
      <3>3. w \in B /\ \A j \in B : j <= w BY <3>1, <3>2, BodyFacts
      <3>4. /\ w \in DOMAIN c /\ w < u /\ DeclaresIn(c, w, id) /\ OwnerIn(c, w, id) = o /\ w # o /\ w \in Nat
        BY <3>1, <3>3 DEF Body
      <3>5. w \in V BY <2>2, <3>4 DEF VisibleIn
      <3>6. o < w
        <4>1. InnerOf(c, w) = o BY <3>4, InPlaceFacts
        <4>2. o \in Encl(c, w) BY <2>1, <4>1, InnerFacts
        <4> QED BY <4>2 DEF Encl
      <3>7. ASSUME NEW j \in V \ {w} PROVE Before(c, id, j, w)
        <4>1. OwnerIn(c, j, id) <= o /\ OwnerIn(c, j, id) \in Nat /\ j \in Nat BY <1>3, <2>4, <3>7
        <4>2. CASE OwnerIn(c, j, id) = o
          <5>1. j = o \/ j \in B BY <1>3, <3>1, <3>7, <4>2 DEF Body
          <5>2. j < w BY <3>3, <3>4, <3>6, <3>7, <4>1, <5>1
          <5> QED BY <3>4, <4>2, <5>2 DEF Before
        <4>3. CASE OwnerIn(c, j, id) # o BY <2>1, <3>4, <4>1, <4>3 DEF Before
        <4> QED BY <4>2, <4>3
      <3> HIDE DEF W, V
      <3> QED BY <2>0, <3>5, <3>7 DEF IsLexical, V
    <2>6. CASE q[m] = 2 * o /\ c[o].kind = "proc"
      <3>1. w = o /\ id \in {c[o].param, c[o].result}
        <4>1. w = IF id \in {c[o].param, c[o].result} THEN o ELSE NoSym BY <1>1, <2>0, <2>1, <2>6 DEF Says
        <4> QED BY <1>8, <2>0, <4>1
      <3>2. DeclaresIn(c, o, id) BY <2>2, <3>1 DEF DeclaresIn
      <3>3. InnerOf(c, o) \in Encl(c, o) \cup {0} /\ InnerOf(c, o) \in Nat /\ \A k \in Encl(c, o) : k <= InnerOf(c, o)
        BY InnerFacts
      <3>4. o \in V
        <4>1. Encl(c, o) \subseteq Encl(c, u) BY <2>2, EnclInside
        <4>2. OwnerIn(c, o, id) \in {o, InnerOf(c, o)} BY DEF OwnerIn
        <4> QED BY <2>1, <2>2, <3>2, <3>3, <4>1, <4>2 DEF VisibleIn
      <3>5. Body(c, u, id, o) = {}
        <4> SUFFICES ASSUME Body(c, u, id, o) # {} PROVE FALSE OBVIOUS
        <4>1. Greatest(Body(c, u, id, o)) \in Nat BY BodyFacts
        <4>2. PICK n \in 1 .. N : q[n] = 2 * o + 1
          <5>1. 2 * o + 1 \in M BY <1>2, <2>1
          <5> QED BY <1>1, <5>1 DEF Ascending
        <4>3. W(n) = Greatest(Body(c, u, id, o)) BY <1>1, <2>1, <4>2 DEF Says
        <4>4. W(n) # NoSym BY <4>1, <4>3, LocalAssumption
        <4>5. q[n] <= q[m] BY <2>3, <4>4
        <4> QED BY <2>1, <2>6, <4>2, <4>5
      <3>6. ASSUME NEW j \in V \ {o} PROVE Before(c, id, j, o)
        <4>1. /\ OwnerIn(c, j, id) <= o /\ OwnerIn(c, j, id) \in Nat /\ j \in Nat /\ j \in DOMAIN c /\ j < u
              /\ DeclaresIn(c, j, id)
              /\ OwnerIn(c, j, id) # 0 => OwnerIn(c, j, id) \in Encl(c, u)
          BY <1>3, <2>4, <3>6 DEF In
        <4>2. OwnerIn(c, j, id) < o
          <5>1. OwnerIn(c, j, id) # o BY <3>5, <3>6, <4>1 DEF Body
          <5> QED BY <2>1, <4>1, <5>1
        <4>3. CASE OwnerIn(c, o, id) = o BY <4>2, <4>3 DEF Before
        <4>4. CASE OwnerIn(c, o, id) # o
          <5>1. OwnerIn(c, o, id) = InnerOf(c, o) BY <4>4 DEF OwnerIn
          <5>2. OwnerIn(c, j, id) <= InnerOf(c, o)
            <6>1. CASE OwnerIn(c, j, id) = 0 BY <3>3, <6>1
            <6>2. CASE OwnerIn(c, j, id) # 0
              <7>1. OwnerIn(c, j, id) \in Encl(c, o) BY <2>2, <4>1, <4>2, <6>2, EnclInside
              <7> QED BY <3>3, <7>1
            <6> QED BY <6>1, <6>2
          <5>3. j < o
            <6>1. ~ (o < j)
              <7> SUFFICES ASSUME o < j PROVE FALSE OBVIOUS
              <7>1. j <= c[o].end BY <2>2, <4>1
              <7>2. OwnerIn(c, j, id) >= o BY <2>1, <2>2, <4>1, <7>1, InsideOwner
              <7> QED BY <2>1, <4>1, <4>2, <7>2
            <6> QED BY <2>1, <3>6, <4>1, <6>1
          <5> QED BY <3>3, <4>1, <5>1, <5>2, <5>3 DEF Before
        <4> QED BY <4>3, <4>4
      <3> HIDE DEF W, V
      <3> QED BY <2>0, <3>1, <3>4, <3>6 DEF IsLexical, V
    <2> QED BY <2>1, <2>5, <2>6
  <1>9. \/ Find(g, id) = 0 /\ \A n \in 0 .. N : W(n) = NoSym
        \/ \E m \in 0 .. N : /\ Find(g, id) = ScopeAt(g, m) /\ W(m) # NoSym
                             /\ \A n \in m + 1 .. N : W(n) = NoSym
    BY <1>5 DEF FoundIn
  <1>10. CASE Find(g, id) = 0 /\ \A n \in 0 .. N : W(n) = NoSym
    <2>1. 0 \in 0 .. N /\ \A n \in 1 .. N : n \in 0 .. N BY <1>1
    <2>2. W(0) = NoSym /\ \A n \in 1 .. N : W(n) = NoSym BY <1>10, <2>1
    <2>3. IsLexical(c, G, {}, u, id, NoSym)
      <3> HIDE DEF W, N
      <3> QED BY <1>7, <2>2
    <2> QED BY <1>10, <2>3
  <1>11. CASE \E m \in 0 .. N : /\ Find(g, id) = ScopeAt(g, m) /\ W(m) # NoSym
                                /\ \A n \in m + 1 .. N : W(n) = NoSym
    <2>1. PICK m \in 0 .. N : /\ Find(g, id) = ScopeAt(g, m) /\ W(m) # NoSym
                              /\ \A n \in m + 1 .. N : W(n) = NoSym
      BY <1>11
    <2>2. Val(g, Find(g, id), id) = W(m) /\ Find(g, id) # 0 BY <1>6, <2>1
    <2> HIDE DEF W
    <2>3. CASE m = 0
      <3>1. \A n \in 1 .. N : n \in m + 1 .. N BY <2>3
      <3>2. \A n \in 1 .. N : W(n) = NoSym BY <2>1, <3>1
      <3> HIDE DEF N
      <3> QED BY <1>7, <2>2, <2>3, <3>2
    <2>4. CASE m # 0
      <3>1. m \in 1 .. N BY <1>1, <2>4
      <3>2. IsLexical(c, G, {}, u, id, W(m))
        <4> HIDE DEF N
        <4> QED BY <1>8, <2>1, <3>1
      <3> QED BY <2>2, <3>2
    <2> QED BY <2>3, <2>4
  <1> HIDE DEF W, N
  <1> QED BY <1>9, <1>10, <1>11

LEMMA LexicalUnique ==
  ASSUME NEW c \in Seq(TokenType), NEW G, NEW e, NEW u, NEW id, NEW a, NEW b,
         IsLexical(c, G, e, u, id, a), IsLexical(c, G, e, u, id, b)
  PROVE  a = b
  <1>1. PICK V : V = VisibleIn(c, e, u, id) OBVIOUS
  <1>2. \A k \in V : k \in DOMAIN c /\ k \in Nat /\ OwnerIn(c, k, id) \in Nat BY <1>1, OwnerNat DEF VisibleIn
  <1>3. CASE V = {} BY <1>1, <1>3 DEF IsLexical
  <1>4. CASE V # {}
    <2>1. a \in V /\ b \in V BY <1>1, <1>4 DEF IsLexical
    <2>2. a # b => Before(c, id, a, b) /\ Before(c, id, b, a) BY <1>1, <1>4, <2>1 DEF IsLexical
    <2> QED BY <1>2, <2>1, <2>2 DEF Before
  <1> QED BY <1>3, <1>4

-----------------------------------------------------------------------------
(* The generator's stack stays in step with the text.                      *)

LEMMA MarksSame == ASSUME NEW c, NEW u, NEW v, Encl(c, v) = Encl(c, u) PROVE Marks(c, v) = Marks(c, u)
  BY DEF Marks, In

LEMMA MarksOpen ==
  ASSUME NEW c \in Seq(TokenType), WellNested(c), NEW k \in DOMAIN c, c[k].t = "open"
  PROVE  /\ c[k].kind \in {"do", "loopdo"} => Marks(c, k + 1) = Marks(c, k)
         /\ c[k].kind \notin {"do", "loopdo", "proc"} => Marks(c, k + 1) = Marks(c, k) \cup {2 * k + 1}
         /\ c[k].kind = "proc" => Marks(c, k + 1) = (Marks(c, k) \cup {2 * k}) \cup {2 * k + 1}
         /\ k \in Nat /\ k >= 1 /\ Marks(c, k) \subseteq Nat /\ \A x \in Marks(c, k) : x < 2 * k
  <1>1. Encl(c, k + 1) = Encl(c, k) \cup {k} /\ k \notin Encl(c, k) BY EnclOpen
  <1>2. c[k] \in TokenType /\ k \in Nat /\ k >= 1 OBVIOUS
  <1>3. c[k].kind \in Kinds BY <1>2, TokenFields
  <1>4. /\ c[k].kind \in {"do", "loopdo"} => In(c, k + 1, Scoped) = In(c, k, Scoped)
        /\ c[k].kind \notin {"do", "loopdo"} => In(c, k + 1, Scoped) = In(c, k, Scoped) \cup {k}
    BY <1>1, <1>3 DEF In, Scoped
  <1>5. /\ c[k].kind # "proc" => In(c, k + 1, {"proc"}) = In(c, k, {"proc"})
        /\ c[k].kind = "proc" => In(c, k + 1, {"proc"}) = In(c, k, {"proc"}) \cup {k}
    BY <1>1 DEF In
  <1>6. ASSUME NEW x \in Marks(c, k) PROVE x < 2 * k
    <2>1. PICK j \in In(c, k, Scoped) : j \in Nat /\ (x = 2 * j + 1 \/ x = 2 * j) BY MarkFacts
    <2>2. j < k BY DEF In, Encl
    <2> QED BY <1>2, <2>1, <2>2
  <1>7. c[k].kind \in {"do", "loopdo"} => Marks(c, k + 1) = Marks(c, k) BY <1>4, <1>5 DEF Marks
  <1>8. c[k].kind \notin {"do", "loopdo", "proc"} => Marks(c, k + 1) = Marks(c, k) \cup {2 * k + 1}
    BY <1>4, <1>5 DEF Marks
  <1>9. c[k].kind = "proc" => Marks(c, k + 1) = (Marks(c, k) \cup {2 * k}) \cup {2 * k + 1}
    BY <1>4, <1>5 DEF Marks
  <1> QED BY <1>2, <1>6, <1>7, <1>8, <1>9, MarkFacts

LEMMA MarksClose ==
  ASSUME NEW c \in Seq(TokenType), WellNested(c), NEW u \in DOMAIN c, c[u].t = "close", NEW k, k = InnerOf(c, u)
  PROVE  /\ Marks(c, u) = Marks(c, k + 1) /\ Marks(c, u + 1) = Marks(c, k)
         /\ k \in DOMAIN c /\ c[k].t = "open" /\ c[k].end = u /\ k < u
  <1>1. /\ k \in Encl(c, u) /\ k \in DOMAIN c /\ c[k].t = "open" /\ c[k].end = u /\ k < u /\ k \in Nat
        /\ Encl(c, u + 1) = Encl(c, u) \ {k} /\ Encl(c, k + 1) = Encl(c, u)
        /\ Encl(c, u) = Encl(c, k) \cup {k}
    BY CloseFacts
  <1>2. k \notin Encl(c, k) BY <1>1 DEF Encl
  <1>3. Encl(c, u + 1) = Encl(c, k) BY <1>1, <1>2
  <1> QED BY <1>1, <1>3, MarksSame

LEMMA SaysAgain ==
  ASSUME NEW c, NEW u, NEW w, NEW id, NEW x, NEW v, Says(c, u, id, x, v),
         \A o \in DOMAIN c : x = 2 * o + 1 => Body(c, w, id, o) = Body(c, u, id, o)
  PROVE  Says(c, w, id, x, v)
  BY DEF Says

\* A name that is there stays there.
Keeps(g, h) == \A t \in DOMAIN g.heap, i \in Ids : Val(g, t, i) # NoSym => Val(h, t, i) # NoSym
\* The bodies with a scope are told the same of the names in place.
SameBodies(c, S, u, v) ==
  \A id \in Ids, o \in DOMAIN c : InPlace(c, id) /\ 2 * o + 1 \in S => Body(c, v, id, o) = Body(c, u, id, o)
\* The names in place mean what they did.
SameInPlace(c, g, h) == \A t \in DOMAIN g.heap, id \in Ids : InPlace(c, id) => Val(h, t, id) = Val(g, t, id)

LEMMA ResultName ==
  ASSUME NEW c \in Seq(TokenType), NEW u, NEW o \in DOMAIN c, NEW x \in Marks(c, u), x = 2 * o
  PROVE  c[o].t = "open" /\ (c[o].result # NoId => c[o].result \in Ids)
  <1>1. PICK k \in In(c, u, Scoped) : k \in Nat /\ (x = 2 * k + 1 \/ x = 2 * k) BY MarkFacts
  <1>2. o \in Nat /\ k = o BY <1>1
  <1>3. c[o].t = "open" BY <1>1, <1>2 DEF In, Encl
  <1>4. c[o] \in TokenType OBVIOUS
  <1> QED BY <1>3, <1>4, TokenFields

LEMMA LevelScopes ==
  ASSUME NEW g, Sound(g), NEW c, NEW G, NEW S, NEW u, NEW q, GenLevels(g, c, G, S, u, q)
  PROVE  /\ Len(q) \in Nat /\ Len(g.scopes) = Len(q) /\ g.scopes \in Seq(Nat) /\ 1 \in DOMAIN g.heap
         /\ \A n \in 1 .. Len(q) : g.scopes[n] \in DOMAIN g.heap /\ q[n] \in Nat /\ q[n] \in S
         /\ Len(q) # 0 => Current(g) = g.scopes[Len(q)] /\ Len(q) \in 1 .. Len(q)
         /\ Len(q) = 0 => Current(g) = 1
         /\ \A n \in 1 .. Len(q) : 1 # g.scopes[n] /\ (n # Len(q) => g.scopes[n] # g.scopes[Len(q)] /\ q[n] # q[Len(q)])
  <1>1. q \in Seq(Nat) /\ Len(q) = Len(g.scopes) /\ Ascending(q, S) BY DEF GenLevels
  <1>2. PICK N \in Nat : N = Len(q) BY <1>1
  <1>3. /\ g.scopes \in Seq(Nat)
        /\ \A n \in 0 .. N : ScopeAt(g, n) \in DOMAIN g.heap
        /\ \A m, n \in 0 .. N : m # n => ScopeAt(g, m) # ScopeAt(g, n)
        /\ Current(g) = ScopeAt(g, N)
    BY <1>1, <1>2, ScopesDiffer
  <1>4. ScopeAt(g, 0) = 1 /\ \A n \in 1 .. N : ScopeAt(g, n) = g.scopes[n] /\ n \in 0 .. N /\ n # 0 BY DEF ScopeAt
  <1>5. 0 \in 0 .. N /\ (N # 0 => N \in 1 .. N) OBVIOUS
  <1>6. \A n \in 1 .. N : q[n] \in Nat /\ q[n] \in S BY <1>1, <1>2 DEF Ascending
  <1>7. \A n \in 1 .. N : n # N => q[n] # q[N]
    <2> SUFFICES ASSUME NEW n \in 1 .. N, n # N PROVE q[n] # q[N] OBVIOUS
    <2>1. n < N /\ N \in 1 .. N OBVIOUS
    <2>2. q[n] < q[N] BY <1>1, <1>2, <2>1 DEF Ascending
    <2> QED BY <1>6, <2>1, <2>2
  <1>8. \A n \in 1 .. N : 1 # g.scopes[n] /\ g.scopes[n] \in DOMAIN g.heap BY <1>3, <1>4, <1>5
  <1>9. \A n \in 1 .. N : n # N => g.scopes[n] # g.scopes[N]
    <2> SUFFICES ASSUME NEW n \in 1 .. N, n # N PROVE g.scopes[n] # g.scopes[N] OBVIOUS
    <2>1. N \in 1 .. N OBVIOUS
    <2> QED BY <1>3, <1>4, <2>1
  <1>10. 1 \in DOMAIN g.heap BY <1>3, <1>4, <1>5
  <1>11. (N # 0 => Current(g) = g.scopes[N]) /\ (N = 0 => Current(g) = 1) BY <1>3, <1>4, <1>5
  <1> QED BY <1>1, <1>2, <1>3, <1>5, <1>6, <1>7, <1>8, <1>9, <1>10, <1>11

\* The same scopes, and the same names in place.
LEMMA GenKeep ==
  ASSUME NEW c \in Seq(TokenType), NEW p, NEW u, NEW v, NEW G, NEW g, Sound(g), NEW h, NEW S, S \subseteq Marks(c, p),
         NEW q, GenLevels(g, c, G, S, u, q), h.scopes = g.scopes,
         SameInPlace(c, g, h), Keeps(g, h), SameBodies(c, S, u, v)
  PROVE  GenLevels(h, c, G, S, v, q)
  <1>1. /\ q \in Seq(Nat) /\ Len(q) = Len(g.scopes) /\ Ascending(q, S)
        /\ \A n \in 1 .. Len(q) : g.scopes[n] \in DOMAIN g.heap /\ q[n] \in S
        /\ 1 \in DOMAIN g.heap
    <2>1. q \in Seq(Nat) /\ Len(q) = Len(g.scopes) /\ Ascending(q, S) BY DEF GenLevels
    <2>2. (\A n \in 1 .. Len(q) : g.scopes[n] \in DOMAIN g.heap /\ q[n] \in S) /\ 1 \in DOMAIN g.heap BY LevelScopes
    <2> QED BY <2>1, <2>2
  <1>2. ASSUME NEW id \in Ids, InPlace(c, id)
        PROVE  /\ Val(h, 1, id) = Want(c, G, Len(c) + 1, {}, id, 0)
               /\ \A n \in 1 .. Len(q) : Says(c, v, id, q[n], Val(h, h.scopes[n], id))
    <2>1. Val(h, 1, id) = Want(c, G, Len(c) + 1, {}, id, 0) BY <1>1, <1>2 DEF GenLevels, SameInPlace
    <2>2. ASSUME NEW n \in 1 .. Len(q) PROVE Says(c, v, id, q[n], Val(h, h.scopes[n], id))
      <3>1. Val(h, h.scopes[n], id) = Val(g, g.scopes[n], id) BY <1>1, <1>2 DEF SameInPlace
      <3>2. Says(c, u, id, q[n], Val(g, g.scopes[n], id)) BY <1>2 DEF GenLevels
      <3>3. \A o \in DOMAIN c : q[n] = 2 * o + 1 => Body(c, v, id, o) = Body(c, u, id, o)
        BY <1>1, <1>2 DEF SameBodies
      <3> QED BY <3>1, <3>2, <3>3, SaysAgain
    <2> QED BY <2>1, <2>2
  <1>3. ASSUME NEW n \in 1 .. Len(q), NEW o \in DOMAIN c, q[n] = 2 * o, c[o].result # NoId
        PROVE  Val(h, h.scopes[n], c[o].result) # NoSym
    <2>1. c[o].result \in Ids
      <3>1. PICK x \in Marks(c, p) : x = q[n] BY <1>1
      <3> QED BY <1>3, <3>1, ResultName
    <2>2. Val(g, g.scopes[n], c[o].result) # NoSym BY <1>3 DEF GenLevels
    <2> QED BY <1>1, <2>1, <2>2 DEF Keeps
  <1> QED BY <1>1, <1>2, <1>3 DEF GenLevels

\* One name more in the current scope.
LEMMA GenSet ==
  ASSUME NEW c \in Seq(TokenType), NEW p, NEW u, NEW v, NEW G, NEW g, Sound(g), NEW h, NEW S, S \subseteq Marks(c, p),
         NEW q, GenLevels(g, c, G, S, u, q), h.scopes = g.scopes,
         NEW name \in Ids, NEW d \in Nat, OneVal(g, h, Current(g), name, d),
         InPlace(c, name) => /\ Len(q) = 0 => d = Want(c, G, Len(c) + 1, {}, name, 0)
                             /\ Len(q) # 0 => Says(c, v, name, q[Len(q)], d),
         \A id \in Ids, o \in DOMAIN c :
            InPlace(c, id) /\ 2 * o + 1 \in S /\ (id = name => 2 * o + 1 # q[Len(q)]) => Body(c, v, id, o) = Body(c, u, id, o)
  PROVE  GenLevels(h, c, G, S, v, q)
  <1>1. /\ q \in Seq(Nat) /\ Len(q) = Len(g.scopes) /\ Ascending(q, S) /\ Len(q) \in Nat
        /\ \A n \in 1 .. Len(q) : g.scopes[n] \in DOMAIN g.heap /\ q[n] \in S
        /\ 1 \in DOMAIN g.heap
        /\ Len(q) # 0 => Current(g) = g.scopes[Len(q)]
        /\ Len(q) = 0 => Current(g) = 1
        /\ \A n \in 1 .. Len(q) : 1 # g.scopes[n] /\ (n # Len(q) => g.scopes[n] # g.scopes[Len(q)] /\ q[n] # q[Len(q)])
    <2>1. q \in Seq(Nat) /\ Len(q) = Len(g.scopes) /\ Ascending(q, S) BY DEF GenLevels
    <2>2. /\ Len(q) \in Nat /\ 1 \in DOMAIN g.heap
          /\ \A n \in 1 .. Len(q) : g.scopes[n] \in DOMAIN g.heap /\ q[n] \in Nat /\ q[n] \in S
          /\ Len(q) # 0 => Current(g) = g.scopes[Len(q)] /\ Len(q) \in 1 .. Len(q)
          /\ Len(q) = 0 => Current(g) = 1
          /\ \A n \in 1 .. Len(q) : 1 # g.scopes[n] /\ (n # Len(q) => g.scopes[n] # g.scopes[Len(q)] /\ q[n] # q[Len(q)])
      BY LevelScopes, ZenonT(40)
    <2> QED BY <2>1, <2>2
  <1>2. d # NoSym BY LocalAssumption
  <1>3. Keeps(g, h) BY <1>2 DEF Keeps, OneVal
  <1>4. ASSUME NEW id \in Ids, InPlace(c, id) PROVE Val(h, 1, id) = Want(c, G, Len(c) + 1, {}, id, 0)
    <2>1. CASE id = name /\ Len(q) = 0 BY <1>1, <1>4, <2>1 DEF OneVal
    <2>2. CASE id # name \/ Len(q) # 0
      <3>1. id # name \/ 1 # Current(g)
        <4>1. Len(q) # 0 => Len(q) \in 1 .. Len(q) BY <1>1
        <4> QED BY <1>1, <2>2, <4>1
      <3>2. Val(h, 1, id) = Val(g, 1, id) BY <1>1, <3>1 DEF OneVal
      <3> QED BY <1>4, <3>2 DEF GenLevels
    <2> QED BY <2>1, <2>2
  <1>5. ASSUME NEW id \in Ids, InPlace(c, id), NEW n \in 1 .. Len(q)
        PROVE  Says(c, v, id, q[n], Val(h, h.scopes[n], id))
    <2>1. CASE id = name /\ n = Len(q)
      <3>1. Val(h, h.scopes[n], id) = d BY <1>1, <2>1 DEF OneVal
      <3>2. Len(q) # 0 BY <1>1, <2>1
      <3> QED BY <1>5, <2>1, <3>1, <3>2
    <2>2. CASE id # name \/ n # Len(q)
      <3>1. id # name \/ g.scopes[n] # Current(g)
        <4>1. Len(q) # 0 BY <1>1
        <4> QED BY <1>1, <2>2, <4>1
      <3>2. Val(h, h.scopes[n], id) = Val(g, g.scopes[n], id) BY <1>1, <3>1 DEF OneVal
      <3>3. Says(c, u, id, q[n], Val(g, g.scopes[n], id)) BY <1>5 DEF GenLevels
      <3>4. \A o \in DOMAIN c : q[n] = 2 * o + 1 => Body(c, v, id, o) = Body(c, u, id, o)
        <4> SUFFICES ASSUME NEW o \in DOMAIN c, q[n] = 2 * o + 1 PROVE Body(c, v, id, o) = Body(c, u, id, o) OBVIOUS
        <4>1. 2 * o + 1 \in S BY <1>1
        <4>2. id = name => 2 * o + 1 # q[Len(q)] BY <1>1, <2>2
        <4> QED BY <1>5, <4>1, <4>2
      <3> QED BY <3>2, <3>3, <3>4, SaysAgain
    <2> QED BY <2>1, <2>2
  <1>6. ASSUME NEW n \in 1 .. Len(q), NEW o \in DOMAIN c, q[n] = 2 * o, c[o].result # NoId
        PROVE  Val(h, h.scopes[n], c[o].result) # NoSym
    <2>1. c[o].result \in Ids
      <3>1. PICK x \in Marks(c, p) : x = q[n] BY <1>1
      <3> QED BY <1>6, <3>1, ResultName
    <2>2. Val(g, g.scopes[n], c[o].result) # NoSym BY <1>6 DEF GenLevels
    <2> QED BY <1>1, <1>3, <2>1, <2>2 DEF Keeps
  <1> QED BY <1>1, <1>4, <1>5, <1>6 DEF GenLevels

\* A scope more.
LEMMA GenPush ==
  ASSUME NEW c \in Seq(TokenType), NEW u, NEW G, NEW g, Sound(g), NEW h, NEW S \in SUBSET Nat,
         NEW q, GenLevels(g, c, G, S, u, q), NEW x \in Nat, \A y \in S : y < x,
         h.scopes = Append(g.scopes, Len(g.heap) + 1), SameInPlace(c, g, h),
         \A o \in DOMAIN c : 2 * o \in S \cup {x} /\ c[o].result # NoId => c[o].result \in Ids,
         Keeps(g, h),
         \A id \in Ids : InPlace(c, id) => Says(c, u, id, x, Val(h, Len(g.heap) + 1, id)),
         \A o \in DOMAIN c : x = 2 * o /\ c[o].result # NoId => Val(h, Len(g.heap) + 1, c[o].result) # NoSym
  PROVE  GenLevels(h, c, G, S \cup {x}, u, Append(q, x)) /\ Append(q, x) \in Seq(Nat)
  <1>1. /\ q \in Seq(Nat) /\ Len(q) = Len(g.scopes) /\ Ascending(q, S) /\ Len(q) \in Nat
        /\ \A n \in 1 .. Len(q) : g.scopes[n] \in DOMAIN g.heap /\ q[n] \in S
        /\ 1 \in DOMAIN g.heap /\ g.scopes \in Seq(Nat)
    <2>1. q \in Seq(Nat) /\ Len(q) = Len(g.scopes) /\ Ascending(q, S) BY DEF GenLevels
    <2>2. /\ Len(q) \in Nat /\ 1 \in DOMAIN g.heap /\ g.scopes \in Seq(Nat)
          /\ \A n \in 1 .. Len(q) : g.scopes[n] \in DOMAIN g.heap /\ q[n] \in S
      BY LevelScopes
    <2> QED BY <2>1, <2>2
  <1>2. PICK N \in Nat : N = Len(q) BY <1>1
  <1>3. PICK r : r = Append(q, x) OBVIOUS
  <1>4. /\ r \in Seq(Nat) /\ Len(r) = N + 1 /\ r[N + 1] = x
        /\ \A n \in 1 .. N : r[n] = q[n]
        /\ Ascending(r, S \cup {x})
    BY <1>1, <1>2, <1>3, AscendingPush
  <1>5. PICK w \in Nat : w = Len(g.heap) + 1
    <2>1. Len(g.heap) \in Nat BY CtxFields DEF Sound
    <2> QED BY <2>1
  <1>6. /\ Len(h.scopes) = N + 1 /\ h.scopes[N + 1] = w
        /\ \A n \in 1 .. N : h.scopes[n] = g.scopes[n]
    BY <1>1, <1>2, <1>5
  <1>7. \A n \in 1 .. N + 1 : n = N + 1 \/ n \in 1 .. N OBVIOUS
  <1>8. ASSUME NEW id \in Ids, InPlace(c, id)
        PROVE  /\ Val(h, 1, id) = Want(c, G, Len(c) + 1, {}, id, 0)
               /\ \A n \in 1 .. N + 1 : Says(c, u, id, r[n], Val(h, h.scopes[n], id))
    <2>1. Val(h, 1, id) = Want(c, G, Len(c) + 1, {}, id, 0) BY <1>1, <1>8 DEF GenLevels, SameInPlace
    <2>2. Says(c, u, id, r[N + 1], Val(h, h.scopes[N + 1], id)) BY <1>4, <1>5, <1>6, <1>8
    <2>3. ASSUME NEW n \in 1 .. N PROVE Says(c, u, id, r[n], Val(h, h.scopes[n], id))
      <3>1. Val(h, g.scopes[n], id) = Val(g, g.scopes[n], id) BY <1>1, <1>2, <1>8 DEF SameInPlace
      <3>2. Says(c, u, id, q[n], Val(g, g.scopes[n], id)) BY <1>2, <1>8 DEF GenLevels
      <3> QED BY <1>4, <1>6, <3>1, <3>2
    <2> QED BY <1>7, <2>1, <2>2, <2>3
  <1>9. ASSUME NEW n \in 1 .. N + 1, NEW o \in DOMAIN c, r[n] = 2 * o, c[o].result # NoId
        PROVE  Val(h, h.scopes[n], c[o].result) # NoSym
    <2>1. CASE n = N + 1 BY <1>4, <1>5, <1>6, <1>9, <2>1
    <2>2. CASE n \in 1 .. N
      <3>1. q[n] = 2 * o /\ 2 * o \in S BY <1>1, <1>2, <1>4, <1>9, <2>2
      <3>2. Val(g, g.scopes[n], c[o].result) # NoSym BY <1>2, <1>9, <2>2, <3>1 DEF GenLevels
      <3>3. c[o].result \in Ids BY <1>9, <3>1
      <3> QED BY <1>1, <1>2, <1>6, <2>2, <3>2, <3>3 DEF Keeps
    <2> QED BY <1>7, <2>1, <2>2
  <1>10. GenLevels(h, c, G, S \cup {x}, u, r) BY <1>4, <1>6, <1>8, <1>9 DEF GenLevels
  <1> QED BY <1>3, <1>4, <1>10

\* A scope less.
LEMMA GenPop ==
  ASSUME NEW c \in Seq(TokenType), NEW p, NEW u, NEW G, NEW g, Sound(g), NEW h \in Popped(g),
         NEW S \in SUBSET Nat, S \subseteq Marks(c, p),
         NEW q, GenLevels(g, c, G, S, u, q), NEW x \in S, \A y \in S : y <= x
  PROVE  \E r \in Seq(Nat) : GenLevels(h, c, G, S \ {x}, u, r)
  <1>1. /\ q \in Seq(Nat) /\ Len(q) = Len(g.scopes) /\ Ascending(q, S) /\ Len(q) \in Nat
        /\ \A n \in 1 .. Len(q) : g.scopes[n] \in DOMAIN g.heap /\ q[n] \in S
        /\ 1 \in DOMAIN g.heap /\ g.scopes \in Seq(Nat)
    BY LevelScopes DEF GenLevels
  <1>2. PICK r : r = SubSeq(q, 1, Len(q) - 1) OBVIOUS
  <1>3. /\ r \in Seq(Nat) /\ Len(r) = Len(q) - 1 /\ Len(q) \in Nat \ {0}
        /\ \A n \in 1 .. Len(r) : r[n] = q[n] /\ n \in 1 .. Len(q)
        /\ Ascending(r, S \ {x})
    BY <1>1, <1>2, AscendingPop
  <1>4. g.scopes # <<>> BY <1>1, <1>3
  <1>5. /\ Len(h.scopes) = Len(r) /\ \A n \in 1 .. Len(r) : h.scopes[n] = g.scopes[n]
    <2>1. /\ Len(h.scopes) = Len(g.scopes) - 1 /\ \A k \in DOMAIN h.scopes : h.scopes[k] = g.scopes[k]
          /\ Sound(h)
      BY <1>4, PoppedFacts
    <2>2. h.scopes \in Seq(Nat) BY <2>1, CtxFields DEF Sound
    <2>3. DOMAIN h.scopes = 1 .. Len(h.scopes) BY <2>2
    <2> QED BY <1>1, <1>3, <2>1, <2>3
  <1>6. SameVals(g, h) BY PoppedVal
  <1>7. ASSUME NEW id \in Ids, InPlace(c, id)
        PROVE  /\ Val(h, 1, id) = Want(c, G, Len(c) + 1, {}, id, 0)
               /\ \A n \in 1 .. Len(r) : Says(c, u, id, r[n], Val(h, h.scopes[n], id))
    <2>1. Val(h, 1, id) = Want(c, G, Len(c) + 1, {}, id, 0) BY <1>1, <1>6, <1>7 DEF GenLevels, SameVals
    <2>2. ASSUME NEW n \in 1 .. Len(r) PROVE Says(c, u, id, r[n], Val(h, h.scopes[n], id))
      <3>1. n \in 1 .. Len(q) /\ r[n] = q[n] /\ h.scopes[n] = g.scopes[n] BY <1>3, <1>5
      <3>2. Val(h, g.scopes[n], id) = Val(g, g.scopes[n], id) BY <1>1, <1>6, <3>1 DEF SameVals
      <3>3. Says(c, u, id, q[n], Val(g, g.scopes[n], id)) BY <1>7, <3>1 DEF GenLevels
      <3> QED BY <3>1, <3>2, <3>3
    <2> QED BY <2>1, <2>2
  <1>8. ASSUME NEW n \in 1 .. Len(r), NEW o \in DOMAIN c, r[n] = 2 * o, c[o].result # NoId
        PROVE  Val(h, h.scopes[n], c[o].result) # NoSym
    <2>1. n \in 1 .. Len(q) /\ r[n] = q[n] /\ h.scopes[n] = g.scopes[n] BY <1>3, <1>5
    <2>2. Val(g, g.scopes[n], c[o].result) # NoSym BY <1>8, <2>1 DEF GenLevels
    <2>3. c[o].result \in Ids
      <3>1. PICK y \in Marks(c, p) : y = q[n] BY <1>1, <2>1
      <3> QED BY <1>8, <2>1, <3>1, ResultName
    <2>4. Val(h, g.scopes[n], c[o].result) = Val(g, g.scopes[n], c[o].result) BY <1>1, <1>6, <2>1, <2>3 DEF SameVals
    <2> QED BY <2>1, <2>2, <2>4
  <1>9. GenLevels(h, c, G, S \ {x}, u, r) BY <1>3, <1>5, <1>7, <1>8 DEF GenLevels
  <1> QED BY <1>3, <1>9

-----------------------------------------------------------------------------
(* What the scopes say stays said, and is declared.                        *)

\* h has every scope and every name that g has, and its entries are declared, too.
Richer(c, G, g, h) ==
  /\ Sound(h) /\ DOMAIN g.heap \subseteq DOMAIN h.heap /\ Keeps(g, h)
  /\ Entries(c, G, g) => Entries(c, G, h)

LEMMA RicherTrans ==
  ASSUME NEW c, NEW G, NEW g, NEW h, NEW i, Richer(c, G, g, h), Richer(c, G, h, i)
  PROVE  Richer(c, G, g, i)
  BY DEF Richer, Keeps

LEMMA RicherSame == ASSUME NEW c, NEW G, NEW g, Sound(g) PROVE Richer(c, G, g, g)
  BY DEF Richer, Keeps

\* The entry that is added, and the others.
LEMMA AddedEntry ==
  ASSUME NEW g \in CtxType, NEW s \in DOMAIN g.heap, NEW id \in Ids, NEW d \in Nat
  PROVE  LET h == Added(g, s, id, d)
             y == g.heap[s].syms[id]
         IN  /\ DOMAIN h.heap = DOMAIN g.heap /\ h.scopes = g.scopes
             /\ h.heap[s].syms[id] = IF y = NoSym THEN [decl |-> d, konst |-> 0] ELSE [y EXCEPT !.decl = d]
             /\ \A t \in DOMAIN g.heap, i \in Ids : t # s \/ i # id => h.heap[t].syms[i] = g.heap[t].syms[i]
  <1>1. PICK y : y = g.heap[s].syms[id] OBVIOUS
  <1>2. PICK w : w = IF y = NoSym THEN [decl |-> d, konst |-> 0] ELSE [y EXCEPT !.decl = d] OBVIOUS
  <1>3. g.heap \in Seq(ScopeRec) /\ g.heap[s] \in ScopeRec BY CtxFields
  <1>4. g.heap[s].syms \in [Ids -> Sym] BY <1>3 DEF ScopeRec
  <1>5. PICK z : z = [g.heap[s].syms EXCEPT ![id] = w] OBVIOUS
  <1>6. z[id] = w /\ \A i \in Ids : i # id => z[i] = g.heap[s].syms[i] BY <1>4, <1>5
  <1>7. PICK p : p = [g.heap EXCEPT ![s] = [g.heap[s] EXCEPT !.syms = z]] OBVIOUS
  <1>8. p[s].syms = z /\ DOMAIN p = DOMAIN g.heap /\ \A t \in DOMAIN g.heap : t # s => p[t] = g.heap[t]
    BY <1>3, <1>7 DEF ScopeRec
  <1>9. Added(g, s, id, d) = [g EXCEPT !.heap = p] BY <1>1, <1>2, <1>5, <1>7 DEF Added
  <1>10. PICK h : h = Added(g, s, id, d) OBVIOUS
  <1>11. h.heap = p /\ h.scopes = g.scopes BY <1>9, <1>10 DEF CtxType
  <1>12. h.heap[s].syms[id] = w BY <1>6, <1>8, <1>11
  <1>13. \A t \in DOMAIN g.heap, i \in Ids : t # s \/ i # id => h.heap[t].syms[i] = g.heap[t].syms[i]
    BY <1>6, <1>8, <1>11
  <1> QED BY <1>1, <1>2, <1>8, <1>10, <1>11, <1>12, <1>13

LEMMA SymType ==
  ASSUME NEW g \in CtxType, NEW s \in DOMAIN g.heap, NEW id \in Ids
  PROVE  g.heap[s].syms[id] \in Sym
  <1>1. g.heap[s] \in ScopeRec BY CtxFields
  <1> QED BY <1>1 DEF ScopeRec

LEMMA RicherAdded ==
  ASSUME NEW c, NEW G, NEW g, Sound(g), NEW s \in DOMAIN g.heap, NEW id \in Ids, NEW d \in Nat, d \in Seen(c, G, id)
  PROVE  Richer(c, G, g, Added(g, s, id, d))
  <1>1. g \in CtxType BY DEF Sound
  <1>2. PICK h : h = Added(g, s, id, d) OBVIOUS
  <1>3. SameShape(g, h) /\ Sound(h) BY <1>1, <1>2, AddedShape, SameShapeKeeps
  <1>4. OneVal(g, h, s, id, d) BY <1>1, <1>2, AddedVal
  <1>5. d # NoSym BY LocalAssumption
  <1>6. Keeps(g, h) BY <1>4, <1>5 DEF Keeps, OneVal
  <1>7. PICK y : y = g.heap[s].syms[id] OBVIOUS
  <1>8. /\ DOMAIN h.heap = DOMAIN g.heap
        /\ h.heap[s].syms[id] = IF y = NoSym THEN [decl |-> d, konst |-> 0] ELSE [y EXCEPT !.decl = d]
        /\ \A t \in DOMAIN g.heap, i \in Ids : t # s \/ i # id => h.heap[t].syms[i] = g.heap[t].syms[i]
    BY <1>1, <1>2, <1>7, AddedEntry
  <1>9. ASSUME Entries(c, G, g) PROVE Entries(c, G, h)
    <2>1. ASSUME NEW t \in DOMAIN h.heap, NEW i \in Ids, h.heap[t].syms[i] # NoSym
          PROVE  EntryOk(c, G, i, h.heap[t].syms[i])
      <3>1. CASE t # s \/ i # id BY <1>8, <1>9, <2>1, <3>1 DEF Entries
      <3>2. CASE t = s /\ i = id
        <4>1. CASE y = NoSym
          <5>1. PICK w : w = [decl |-> d, konst |-> 0] OBVIOUS
          <5>2. w.decl = d /\ w.konst = 0 BY <5>1
          <5> QED BY <1>8, <3>2, <4>1, <5>1, <5>2 DEF EntryOk
        <4>2. CASE y # NoSym
          <5>1. PICK w : w = [y EXCEPT !.decl = d] OBVIOUS
          <5>2. y \in [decl : Nat, konst : Nat] BY <1>1, <1>7, <4>2, SymType DEF Sym
          <5>3. w.decl = d /\ w.konst = y.konst BY <5>1, <5>2
          <5>4. EntryOk(c, G, id, y) BY <1>7, <1>9, <4>2 DEF Entries
          <5> QED BY <1>8, <3>2, <4>2, <5>1, <5>3, <5>4 DEF EntryOk
        <4> QED BY <4>1, <4>2
      <3> QED BY <3>1, <3>2
    <2> QED BY <2>1 DEF Entries
  <1> QED BY <1>2, <1>3, <1>6, <1>8, <1>9 DEF Richer

LEMMA RicherHere ==
  ASSUME NEW c, NEW G, NEW g, Sound(g), NEW id \in Ids \cup {NoId}, NEW d \in Nat, id \in Ids => d \in Seen(c, G, id)
  PROVE  Richer(c, G, g, AddedHere(g, id, d))
  <1>1. CASE id = NoId BY <1>1, RicherSame DEF AddedHere
  <1>2. CASE id # NoId
    <2>1. Current(g) \in DOMAIN g.heap BY CurrentScope
    <2>2. AddedHere(g, id, d) = Added(g, Current(g), id, d) BY <1>2 DEF AddedHere
    <2> QED BY <1>2, <2>1, <2>2, RicherAdded
  <1> QED BY <1>1, <1>2

LEMMA RicherPushed ==
  ASSUME NEW c, NEW G, NEW g, Sound(g)
  PROVE  Richer(c, G, g, Pushed(g))
  <1>1. PICK h : h = Pushed(g) OBVIOUS
  <1>2. Sound(h) /\ Len(h.heap) = Len(g.heap) + 1 /\ SameVals(g, h) BY <1>1, PushedFacts, PushedVal
  <1>3. DOMAIN g.heap = 1 .. Len(g.heap) /\ DOMAIN h.heap = 1 .. Len(g.heap) + 1 /\ Len(g.heap) \in Nat BY <1>2, Parents
  <1>4. PICK x : x = NewScope(Current(g)) OBVIOUS
  <1>5. h.heap = Append(g.heap, x) /\ \A i \in Ids : x.syms[i] = NoSym BY <1>1, <1>4, PushedFacts DEF NewScope, NoSymbols
  <1>6. g.heap \in Seq(ScopeRec) BY CtxFields DEF Sound
  <1>7. h.heap[Len(g.heap) + 1] = x /\ \A t \in DOMAIN g.heap : h.heap[t] = g.heap[t] BY <1>3, <1>5, <1>6
  <1>8. \A t \in DOMAIN h.heap : t = Len(g.heap) + 1 \/ t \in DOMAIN g.heap BY <1>3
  <1>9. Entries(c, G, g) => Entries(c, G, h) BY <1>5, <1>7, <1>8 DEF Entries
  <1>10. Keeps(g, h) BY <1>2 DEF Keeps, SameVals
  <1>11. DOMAIN g.heap \subseteq DOMAIN h.heap BY <1>3
  <1> QED BY <1>1, <1>2, <1>9, <1>10, <1>11 DEF Richer

LEMMA RicherPopped ==
  ASSUME NEW c, NEW G, NEW g, Sound(g), NEW h \in Popped(g)
  PROVE  Richer(c, G, g, h)
  <1>1. /\ Sound(h) /\ DOMAIN h.heap = DOMAIN g.heap
        /\ \A s \in DOMAIN g.heap : h.heap[s].syms = g.heap[s].syms
    BY PoppedFacts
  <1>2. SameVals(g, h) BY PoppedVal
  <1>3. Keeps(g, h) BY <1>2 DEF Keeps, SameVals
  <1>4. Entries(c, G, g) => Entries(c, G, h) BY <1>1 DEF Entries
  <1> QED BY <1>1, <1>3, <1>4 DEF Richer

LEMMA ContextVals ==
  ASSUME NEW g, Sound(g), NEW k \in Nat
  PROVE  /\ ContextSet(g, k).scopes = g.scopes /\ DOMAIN ContextSet(g, k).heap = DOMAIN g.heap
         /\ \E s \in DOMAIN g.heap : ContextSet(g, k) = Added(g, s, Context, k) /\ OneVal(g, ContextSet(g, k), s, Context, k)
  <1>1. PICK s : s = IF Find(g, Context) = 0 THEN Current(g) ELSE Find(g, Context) OBVIOUS
  <1>2. s \in DOMAIN g.heap BY <1>1, FindRange, CurrentScope
  <1>3. ContextSet(g, k) = Added(g, s, Context, k) BY <1>1 DEF ContextSet
  <1>4. Context \in Ids /\ g \in CtxType BY LocalAssumption DEF Sound
  <1>5. OneVal(g, Added(g, s, Context, k), s, Context, k) BY <1>2, <1>4, AddedVal
  <1>6. SameShape(g, ContextSet(g, k)) BY ContextSetShape
  <1> QED BY <1>2, <1>3, <1>5, <1>6 DEF SameShape

LEMMA RicherContext ==
  ASSUME NEW c, NEW G, NEW g, Sound(g), NEW k \in Nat, k \in Seen(c, G, Context)
  PROVE  Richer(c, G, g, ContextSet(g, k))
  <1>1. PICK s \in DOMAIN g.heap : ContextSet(g, k) = Added(g, s, Context, k) BY ContextVals
  <1>2. Context \in Ids BY LocalAssumption
  <1> QED BY <1>1, <1>2, RicherAdded

\* A token that declares a name and is not left out is among those that somebody adds.
LEMMA SeenHere ==
  ASSUME NEW c, NEW G, NEW k \in DOMAIN c, NEW id, DeclaresIn(c, k, id), ~ LeftOut(c, k)
  PROVE  k \in Seen(c, G, id)
  BY DEF Seen

\* The variable of an unrolled loop: a declaration that is a constant, too.
LEMMA MarkedEntry ==
  ASSUME code \in Seq(TokenType), NEW k \in DOMAIN code, code[k].t = "open", NEW g, Sound(g),
         NEW id, id = code[k].id, NEW h, h = AddedHere(g, id, k), NEW s, s = Current(h), NEW m, m = MarkedConst(g, k)
  PROVE  /\ SameShape(g, m) /\ Sound(h) /\ SameShape(g, h) /\ s \in DOMAIN g.heap
         /\ \A t \in DOMAIN g.heap, i \in Ids : t # s \/ i # id => m.heap[t].syms[i] = h.heap[t].syms[i]
         /\ id \in Ids => m.heap[s].syms[id] = [h.heap[s].syms[id] EXCEPT !.konst = k]
  <1>1. k \in Nat /\ code[k].id \in Ids \cup {NoId} BY OpenToken
  <1>4. SameShape(g, h) /\ Sound(h) /\ h \in CtxType BY <1>1, AddedHereShape DEF Sound
  <1>6. s \in DOMAIN h.heap /\ DOMAIN h.heap = DOMAIN g.heap BY <1>4, CurrentScope DEF SameShape
  <1>7. h.heap \in Seq(ScopeRec) /\ h.heap[s] \in ScopeRec BY <1>4, <1>6, CtxFields
  <1>8. h.heap[s].syms \in [Ids -> Sym] BY <1>7 DEF ScopeRec
  <1>9. PICK w : w = [h.heap[s].syms[id] EXCEPT !.konst = k] OBVIOUS
  <1>10. PICK y : y = [h.heap[s].syms EXCEPT ![id] = w] OBVIOUS
  <1>11. (id \in Ids => y[id] = w) /\ \A i \in Ids : i # id => y[i] = h.heap[s].syms[i] BY <1>8, <1>10
  <1>12. PICK p : p = [h.heap EXCEPT ![s] = [h.heap[s] EXCEPT !.syms = y]] OBVIOUS
  <1>13. p[s].syms = y /\ \A t \in DOMAIN h.heap : t # s => p[t] = h.heap[t] BY <1>6, <1>7, <1>12 DEF ScopeRec
  <1>15. m = [h EXCEPT !.heap = p] BY <1>9, <1>10, <1>12 DEF MarkedConst
  <1>16. m.heap = p BY <1>4, <1>15 DEF CtxType
  <1>17. SameShape(g, m) BY MarkedConstShape
  <1>18. id \in Ids => m.heap[s].syms[id] = w BY <1>11, <1>13, <1>16
  <1>19. \A t \in DOMAIN g.heap, i \in Ids : t # s \/ i # id => m.heap[t].syms[i] = h.heap[t].syms[i]
    BY <1>6, <1>11, <1>13, <1>16
  <1> QED BY <1>4, <1>6, <1>9, <1>17, <1>18, <1>19

LEMMA RicherMarked ==
  ASSUME code \in Seq(TokenType), NEW k \in DOMAIN code, code[k].t = "open", code[k].kind = "unroll",
         NEW G, NEW g, Sound(g)
  PROVE  LET m == MarkedConst(g, k)
         IN  /\ Richer(code, G, g, m) /\ m.scopes = g.scopes
             /\ \A t \in DOMAIN g.heap, i \in Ids : i # code[k].id => Val(m, t, i) = Val(g, t, i)
  <1>1. k \in Nat /\ code[k].id \in Ids \cup {NoId} BY OpenToken
  <1>2. PICK id : id = code[k].id OBVIOUS
  <1>3. PICK h : h = AddedHere(g, id, k) OBVIOUS
  <1>4. PICK s : s = Current(h) OBVIOUS
  <1>5. PICK m : m = MarkedConst(g, k) OBVIOUS
  <1>6. /\ SameShape(g, m) /\ Sound(h) /\ SameShape(g, h) /\ s \in DOMAIN g.heap
        /\ \A t \in DOMAIN g.heap, i \in Ids : t # s \/ i # id => m.heap[t].syms[i] = h.heap[t].syms[i]
        /\ id \in Ids => m.heap[s].syms[id] = [h.heap[s].syms[id] EXCEPT !.konst = k]
    BY <1>2, <1>3, <1>4, <1>5, MarkedEntry, SMTT(30)
  <1>7. Sound(m) /\ m.scopes = g.scopes /\ DOMAIN m.heap = DOMAIN g.heap /\ DOMAIN h.heap = DOMAIN g.heap
    BY <1>6, SameShapeKeeps DEF SameShape
  <1>8. id \in Ids => k \in Seen(code, G, id)
    <2>1. ~ LeftOut(code, k) BY DEF LeftOut
    <2>2. DeclaresIn(code, k, id) BY <1>2 DEF DeclaresIn
    <2> QED BY <2>1, <2>2, SeenHere
  <1>9. Richer(code, G, g, h) BY <1>1, <1>2, <1>3, <1>8, RicherHere
  <1>10. id \in Ids => /\ h.heap[s].syms[id] \in [decl : Nat, konst : Nat] /\ m.heap[s].syms[id] \in [decl : Nat, konst : Nat]
                       /\ m.heap[s].syms[id].konst = k /\ m.heap[s].syms[id].decl = h.heap[s].syms[id].decl
                       /\ h.heap[s].syms[id] # NoSym /\ m.heap[s].syms[id] # NoSym
    <2> SUFFICES ASSUME id \in Ids
                 PROVE  /\ h.heap[s].syms[id] \in [decl : Nat, konst : Nat] /\ m.heap[s].syms[id] \in [decl : Nat, konst : Nat]
                        /\ m.heap[s].syms[id].konst = k /\ m.heap[s].syms[id].decl = h.heap[s].syms[id].decl
                        /\ h.heap[s].syms[id] # NoSym /\ m.heap[s].syms[id] # NoSym
      OBVIOUS
    <2>1. id # NoId BY LocalAssumption
    <2>2. Current(h) = Current(g) BY <1>6, SameShapeKeeps
    <2>3. Val(h, s, id) = k BY <1>1, <1>2, <1>3, <1>4, <2>1, <2>2, AddedHereVal DEF OneVal
    <2>4. PICK x : x = h.heap[s].syms[id] OBVIOUS
    <2>5. x \in Sym BY <1>6, <1>7, <2>4, SymType DEF Sound
    <2>6. x # NoSym BY <1>1, <2>3, <2>4, LocalAssumption DEF Val
    <2>7. x \in [decl : Nat, konst : Nat] BY <2>5, <2>6 DEF Sym
    <2>8. PICK z : z = [x EXCEPT !.konst = k] OBVIOUS
    <2>9. z \in [decl : Nat, konst : Nat] /\ z.konst = k /\ z.decl = x.decl BY <1>1, <2>7, <2>8
    <2>10. z # NoSym BY <2>9, LocalAssumption
    <2> QED BY <1>6, <2>4, <2>6, <2>7, <2>8, <2>9, <2>10
  <1>11. \A t \in DOMAIN g.heap, i \in Ids : Val(m, t, i) = Val(h, t, i)
    <2> SUFFICES ASSUME NEW t \in DOMAIN g.heap, NEW i \in Ids PROVE Val(m, t, i) = Val(h, t, i) OBVIOUS
    <2>1. CASE t # s \/ i # id
      <3>1. m.heap[t].syms[i] = h.heap[t].syms[i] BY <1>6, <2>1
      <3> QED BY <3>1 DEF Val
    <2>2. CASE t = s /\ i = id BY <1>10, <2>2 DEF Val
    <2> QED BY <2>1, <2>2
  <1>12. Keeps(g, m)
    <2>1. Keeps(g, h) BY <1>9 DEF Richer
    <2> QED BY <1>11, <2>1 DEF Keeps
  <1>13. ASSUME Entries(code, G, g) PROVE Entries(code, G, m)
    <2>1. Entries(code, G, h) BY <1>9, <1>13 DEF Richer
    <2>2. ASSUME NEW t \in DOMAIN m.heap, NEW i \in Ids, m.heap[t].syms[i] # NoSym
          PROVE  EntryOk(code, G, i, m.heap[t].syms[i])
      <3>1. CASE t # s \/ i # id
        <4>1. m.heap[t].syms[i] = h.heap[t].syms[i] BY <1>6, <1>7, <2>2, <3>1
        <4> QED BY <1>7, <2>1, <2>2, <4>1 DEF Entries
      <3>2. CASE t = s /\ i = id
        <4>1. EntryOk(code, G, id, h.heap[s].syms[id]) BY <1>6, <1>7, <1>10, <2>1, <2>2, <3>2 DEF Entries
        <4>2. Unrolled(code, k) BY DEF Unrolled
        <4> QED BY <1>8, <1>10, <2>2, <3>2, <4>1, <4>2 DEF EntryOk
      <3> QED BY <3>1, <3>2
    <2> QED BY <2>2 DEF Entries
  <1>14. \A t \in DOMAIN g.heap, i \in Ids : i # id => Val(m, t, i) = Val(g, t, i)
    <2> SUFFICES ASSUME NEW t \in DOMAIN g.heap, NEW i \in Ids, i # id PROVE Val(m, t, i) = Val(g, t, i) OBVIOUS
    <2>1. CASE id = NoId
      <3>1. h = g BY <1>1, <1>2, <1>3, <2>1, AddedHereVal
      <3> QED BY <1>11, <3>1
    <2>2. CASE id # NoId
      <3>1. OneVal(g, h, Current(g), id, k) BY <1>1, <1>2, <1>3, <2>2, AddedHereVal
      <3> QED BY <1>11, <3>1 DEF OneVal
    <2> QED BY <2>1, <2>2
  <1>15. Richer(code, G, g, m) BY <1>7, <1>12, <1>13 DEF Richer
  <1> QED BY <1>2, <1>5, <1>7, <1>14, <1>15

\* What the token says of its own names.
LEMMA SeenNames ==
  ASSUME NEW c \in Seq(TokenType), NEW k \in DOMAIN c, c[k].t = "open", ~ LeftOut(c, k), NEW G
  PROVE  /\ k \in Seen(c, G, c[k].id) /\ k \in Seen(c, G, c[k].param) /\ k \in Seen(c, G, c[k].result)
         /\ c[k].kind = "proc" => k \in Seen(c, G, Context)
         /\ k \in Nat
  <1>1. DeclaresIn(c, k, c[k].id) /\ DeclaresIn(c, k, c[k].param) /\ DeclaresIn(c, k, c[k].result) BY DEF DeclaresIn
  <1>2. c[k].kind = "proc" => DeclaresIn(c, k, Context) BY DEF DeclaresIn
  <1> QED BY <1>1, <1>2, SeenHere

\* The analyser enters a procedure.
LEMMA RicherProc ==
  ASSUME code \in Seq(TokenType), NEW k \in DOMAIN code, code[k].t = "open", code[k].kind = "proc",
         ~ LeftOut(code, k), NEW G, NEW g, Sound(g)
  PROVE  Richer(code, G, g, ProcScope(g, k))
  <1>1. /\ k \in Nat /\ code[k].id \in Ids /\ code[k].id \in Ids \cup {NoId} /\ code[k].param \in Ids \cup {NoId}
        /\ code[k].result \in Ids \cup {NoId} /\ Context \in Ids \cup {NoId}
    <2>1. code[k] \in TokenType OBVIOUS
    <2>2. code[k].id \in Ids BY <2>1, TokenFields
    <2> QED BY <2>2, OpenToken, LocalAssumption
  <1>2. /\ k \in Seen(code, G, code[k].id) /\ k \in Seen(code, G, code[k].param)
        /\ k \in Seen(code, G, code[k].result) /\ k \in Seen(code, G, Context)
    BY SeenNames
  <1>3. PICK p : p = Pushed(g) OBVIOUS
  <1>4. Richer(code, G, g, p) /\ Sound(p) BY <1>3, RicherPushed DEF Richer
  <1>5. PICK g1 : g1 = AddedHere(p, Context, k) OBVIOUS
  <1>6. Richer(code, G, p, g1) /\ Sound(g1) BY <1>1, <1>2, <1>4, <1>5, RicherHere DEF Richer
  <1>7. PICK g2 : g2 = AddedHere(g1, code[k].param, k) OBVIOUS
  <1>8. Richer(code, G, g1, g2) /\ Sound(g2) BY <1>1, <1>2, <1>6, <1>7, RicherHere DEF Richer
  <1>9. PICK g3 : g3 = AddedHere(g2, code[k].result, k) OBVIOUS
  <1>10. Richer(code, G, g2, g3) /\ Sound(g3) BY <1>1, <1>2, <1>8, <1>9, RicherHere DEF Richer
  <1>11. PICK g4 : g4 = AddedHere(g3, code[k].id, k) OBVIOUS
  <1>12. Richer(code, G, g3, g4) /\ Sound(g4) BY <1>1, <1>2, <1>10, <1>11, RicherHere DEF Richer
  <1>13. Richer(code, G, g, g2) BY <1>4, <1>6, <1>8, RicherTrans
  <1>14. Richer(code, G, g, g4) BY <1>10, <1>12, <1>13, RicherTrans
  <1>15. Current(g) \in DOMAIN g4.heap BY <1>14, CurrentScope DEF Richer
  <1>16. Richer(code, G, g4, Added(g4, Current(g), code[k].id, k)) BY <1>1, <1>2, <1>12, <1>15, RicherAdded
  <1>17. ProcScope(g, k) = Added(g4, Current(g), code[k].id, k) BY <1>3, <1>5, <1>7, <1>9, <1>11 DEF ProcScope
  <1> QED BY <1>14, <1>16, <1>17, RicherTrans

LEMMA RicherStmt ==
  ASSUME code \in Seq(TokenType), NEW k \in DOMAIN code, code[k].t = "open", ~ LeftOut(code, k),
         NEW G, NEW g, Sound(g)
  PROVE  /\ Richer(code, G, g, StmtScope(g, k))
         /\ Richer(code, G, g, AddedHere(g, code[k].id, k))
         /\ Richer(code, G, g, Pushed(AddedHere(g, code[k].id, k)))
  <1>1. code[k].id \in Ids \cup {NoId} /\ k \in Nat BY OpenToken
  <1>2. k \in Seen(code, G, code[k].id) BY SeenNames
  <1>3. PICK p : p = Pushed(g) OBVIOUS
  <1>4. Richer(code, G, g, p) /\ Sound(p) BY <1>3, RicherPushed DEF Richer
  <1>5. Richer(code, G, p, AddedHere(p, code[k].id, k)) BY <1>1, <1>2, <1>4, RicherHere
  <1>6. Richer(code, G, g, StmtScope(g, k)) BY <1>3, <1>4, <1>5, RicherTrans DEF StmtScope
  <1>7. PICK h : h = AddedHere(g, code[k].id, k) OBVIOUS
  <1>8. Richer(code, G, g, h) /\ Sound(h) BY <1>1, <1>2, <1>7, RicherHere DEF Richer
  <1>9. Richer(code, G, h, Pushed(h)) BY <1>8, RicherPushed
  <1>10. Richer(code, G, g, Pushed(h)) BY <1>8, <1>9, RicherTrans
  <1> QED BY <1>6, <1>7, <1>8, <1>10

-----------------------------------------------------------------------------
(* The steps of the generator, on its scopes.                              *)

\* The numbers of scopes are different.
LEMMA MarkArithmetic ==
  ASSUME NEW j \in Nat, NEW o \in Nat
  PROVE  /\ 2 * j # 2 * o + 1 /\ (2 * j = 2 * o => j = o) /\ (2 * j + 1 = 2 * o + 1 => j = o)
         /\ j < o => 2 * j + 1 < 2 * o
         /\ j <= o => 2 * j + 1 <= 2 * o + 1 /\ 2 * j <= 2 * o + 1
         /\ 2 * j \in Nat /\ 2 * j + 1 \in Nat /\ 2 * j < 2 * j + 1
  OBVIOUS

\* The scope a name in place is declared in is the top one.
LEMMA TopOfBody ==
  ASSUME NEW c \in Seq(TokenType), NEW u, NEW o, o = InnerOf(c, u), o # 0, c[o].kind \in Scoped,
         NEW q \in Seq(Nat), Ascending(q, Marks(c, u))
  PROVE  Len(q) # 0 /\ q[Len(q)] = 2 * o + 1 /\ o \in DOMAIN c /\ o \in Nat
  <1>1. o \in Encl(c, u) /\ o \in Nat BY InnerFacts
  <1>2. o \in In(c, u, Scoped) /\ o \in DOMAIN c BY <1>1 DEF In, Encl
  <1>3. Marks(c, u) \subseteq Nat /\ 2 * o + 1 \in Marks(c, u) BY <1>2, MarkFacts
  <1>4. ASSUME NEW y \in Marks(c, u) PROVE y <= 2 * o + 1
    <2>1. PICK k \in In(c, u, Scoped) : k \in Nat /\ k <= o /\ (y = 2 * k + 1 \/ y = 2 * k) BY MarkFacts
    <2> QED BY <1>1, <2>1, MarkArithmetic
  <1>5. PICK x \in Marks(c, u) : x = 2 * o + 1 BY <1>3
  <1>6. Len(q) \in 1 .. Len(q) /\ q[Len(q)] = x BY <1>3, <1>4, <1>5, AscendingTop
  <1> QED BY <1>1, <1>2, <1>5, <1>6

\* A declaration in place is what its scope says after it.
LEMMA SaysHere ==
  ASSUME NEW c \in Seq(TokenType), NEW u \in DOMAIN c, NEW id, DeclaresIn(c, u, id),
         NEW o \in DOMAIN c, o = OwnerIn(c, u, id), o # u
  PROVE  Says(c, u + 1, id, 2 * o + 1, u)
  <1>1. PICK B : B = Body(c, u + 1, id, o) OBVIOUS
  <1>2. B = Body(c, u, id, o) \cup {u} BY <1>1, BodyStep
  <1>3. \A j \in B : j <= u
    <2>1. \A j \in Body(c, u, id, o) : j \in Nat /\ j < u BY BodyFacts
    <2> QED BY <1>2, <2>1
  <1>4. Greatest(B) = u BY <1>1, <1>2, <1>3, BodyFacts
  <1>5. B # {} BY <1>2
  <1>6. ASSUME NEW p \in DOMAIN c
        PROVE  2 * o + 1 # 2 * p /\ (2 * o + 1 = 2 * p + 1 => p = o)
    BY MarkArithmetic
  <1> QED BY <1>1, <1>4, <1>5, <1>6 DEF Says

\* A token declares one name in place in the scope around it: its own.
LEMMA BodyOthers ==
  ASSUME NEW c \in Seq(TokenType), NEW u \in DOMAIN c, NEW id \in Ids, InPlace(c, id), id # c[u].id, NEW o
  PROVE  Body(c, u + 1, id, o) = Body(c, u, id, o)
  <1>1. CASE DeclaresIn(c, u, id)
    <2>1. c[u].t \in {"var", "const"} => FALSE BY <1>1 DEF DeclaresIn
    <2>2. c[u].t = "open" BY <1>1, <2>1 DEF DeclaresIn
    <2>3. OwnerIn(c, u, id) = u BY <2>2 DEF OwnerIn, NameOfProc
    <2> QED BY <2>3, BodyStep
  <1>2. CASE ~ DeclaresIn(c, u, id) BY <1>2, BodyStep
  <1> QED BY <1>1, <1>2

\* A declaration, added to the top scope.
LEMMA GenDeclare ==
  ASSUME NEW c \in Seq(TokenType), WellNested(c), OneProcedure(c), NEW u \in DOMAIN c, NEW G, NEW g, Sound(g), NEW h,
         NEW q, GenLevels(g, c, G, Marks(c, u), u, q), h.scopes = g.scopes,
         c[u].id \in Ids, c[u].t = "var" \/ (c[u].t = "open" /\ c[u].kind = "proc"),
         OneVal(g, h, Current(g), c[u].id, u)
  PROVE  GenLevels(h, c, G, Marks(c, u), u + 1, q)
  <1>1. PICK name \in Ids : name = c[u].id OBVIOUS
  <1>2. u \in Nat /\ q \in Seq(Nat) /\ Ascending(q, Marks(c, u)) BY DEF GenLevels
  <1>3. DeclaresIn(c, u, name) /\ OwnerIn(c, u, name) = InnerOf(c, u) BY <1>1 DEF DeclaresIn, OwnerIn, NameOfProc
  <1>4. ASSUME InPlace(c, name)
        PROVE  /\ Len(q) = 0 => u = Want(c, G, Len(c) + 1, {}, name, 0)
               /\ Len(q) # 0 => Says(c, u + 1, name, q[Len(q)], u) /\ q[Len(q)] = 2 * InnerOf(c, u) + 1
    <2>1. CASE u = 1
      <3>1. \A n \in 1 .. Len(q) : FALSE
        <4>1. Marks(c, u) = {} BY <2>1, EnclEnds DEF Marks
        <4> QED BY <1>2, <4>1 DEF Ascending
      <3>2. Len(q) = 0
        <4>1. Len(q) \in Nat BY <1>2
        <4> QED BY <3>1, <4>1
      <3>3. PICK O : O = Own(c, Len(c) + 1, {}, name, 0) OBVIOUS
      <3>4. u \in O
        <4>1. Len(c) \in Nat /\ u < Len(c) + 1 BY <1>2, OneFacts
        <4>2. InnerOf(c, u) = 0 BY <2>1, OneFacts
        <4> QED BY <1>3, <3>3, <4>1, <4>2 DEF Own
      <3>5. \A j \in O : j = u BY <2>1, <3>3, OneFacts DEF Own
      <3>6. Want(c, G, Len(c) + 1, {}, name, 0) \in O BY <3>3, <3>4, WantKnows
      <3> QED BY <3>2, <3>5, <3>6
    <2>2. CASE u # 1
      <3>1. PICK o : o = InnerOf(c, u) OBVIOUS
      <3>2. o >= 1 /\ o \in Encl(c, u) /\ o \in Nat BY <2>2, <3>1, OneFacts, InnerFacts
      <3>3. o # 0 /\ o # u /\ o \in DOMAIN c BY <1>2, <3>2 DEF Encl
      <3>4. c[o].kind \in Scoped BY <1>3, <1>4, <3>1, <3>3, InPlaceFacts
      <3>5. Len(q) # 0 /\ q[Len(q)] = 2 * o + 1 BY <1>2, <3>1, <3>3, <3>4, TopOfBody
      <3>6. Says(c, u + 1, name, 2 * o + 1, u) BY <1>3, <3>1, <3>3, SaysHere
      <3> QED BY <3>1, <3>5, <3>6
    <2> QED BY <2>1, <2>2
  <1>5. ASSUME NEW id \in Ids, NEW o \in DOMAIN c, InPlace(c, id), 2 * o + 1 \in Marks(c, u),
               id = name => 2 * o + 1 # q[Len(q)]
        PROVE  Body(c, u + 1, id, o) = Body(c, u, id, o)
    <2>1. CASE id # name BY <1>1, <1>5, <2>1, BodyOthers
    <2>2. CASE id = name
      <3>1. Len(q) # 0
        <4>1. PICK n \in 1 .. Len(q) : q[n] = 2 * o + 1 BY <1>2, <1>5 DEF Ascending
        <4>2. Len(q) \in Nat BY <1>2
        <4> QED BY <4>1, <4>2
      <3>2. q[Len(q)] = 2 * InnerOf(c, u) + 1 BY <1>4, <1>5, <2>2, <3>1
      <3>3. OwnerIn(c, u, name) # o BY <1>3, <1>5, <2>2, <3>2
      <3> QED BY <2>2, <3>3, BodyStep
    <2> QED BY <2>1, <2>2
  <1>6. Marks(c, u) \subseteq Marks(c, u) OBVIOUS
  <1> HIDE DEF GenLevels, OneVal, Says, Want, InPlace, Body
  <1>7. OneVal(g, h, Current(g), name, u) BY <1>1
  <1>8. InPlace(c, name) => /\ Len(q) = 0 => u = Want(c, G, Len(c) + 1, {}, name, 0)
                            /\ Len(q) # 0 => Says(c, u + 1, name, q[Len(q)], u)
    BY <1>4
  <1>9. \A id \in Ids, o \in DOMAIN c :
          InPlace(c, id) /\ 2 * o + 1 \in Marks(c, u) /\ (id = name => 2 * o + 1 # q[Len(q)]) => Body(c, u + 1, id, o) = Body(c, u, id, o)
    BY <1>5
  <1> QED BY <1>2, <1>6, <1>7, <1>8, <1>9, GenSet

\* The scope of a procedure's signature.
Signature(g, k) == ContextSet(AddedHere(AddedHere(Pushed(g), code[k].param, k), code[k].result, k), k)

\* h is g with one scope more, which has the parameter and the result of procedure k.
Signed(G, g, h, n, k) ==
  /\ Richer(code, G, g, h) /\ h.scopes = Append(g.scopes, n)
  /\ \A t \in DOMAIN g.heap, i \in Ids : i # Context => Val(h, t, i) = Val(g, t, i)
  /\ \A i \in Ids : i # Context => Val(h, n, i) \in {k, NoSym}
  /\ \A i \in Ids : i # Context => (Val(h, n, i) = k <=> i \in {code[k].param, code[k].result})

LEMMA SignatureVals ==
  ASSUME code \in Seq(TokenType), NEW k \in DOMAIN code, code[k].t = "open", code[k].kind = "proc",
         ~ LeftOut(code, k), NEW G, NEW g, Sound(g)
  PROVE  Signed(G, g, Signature(g, k), Len(g.heap) + 1, k)
  <1>1. /\ k \in Nat /\ code[k].param \in Ids \cup {NoId} /\ code[k].result \in Ids \cup {NoId}
    BY OpenToken
  <1>2. PICK p : p = Pushed(g) OBVIOUS
  <1>3. PICK n : n = Len(g.heap) + 1 OBVIOUS
  <1>4. Sound(p) /\ p.scopes = Append(g.scopes, n) /\ Len(p.heap) = n /\ Richer(code, G, g, p)
    BY <1>2, <1>3, PushedFacts, RicherPushed
  <1>5. SameVals(g, p) /\ \A i \in Ids : Val(p, n, i) = NoSym BY <1>2, <1>3, PushedVal
  <1>6. Current(p) = n
    <2>1. g.scopes \in Seq(Nat) BY ScopesDiffer
    <2>2. n \in Nat BY <1>3, Parents
    <2>3. PICK y : y = p.scopes OBVIOUS
    <2>4. y = Append(g.scopes, n) BY <1>4, <2>3
    <2>5. y # <<>> /\ y[Len(y)] = n BY <2>1, <2>2, <2>4, LastAppended
    <2> QED BY <2>3, <2>5 DEF Current
  <1>7. n \notin DOMAIN g.heap /\ DOMAIN g.heap \subseteq DOMAIN p.heap /\ n \in DOMAIN p.heap
    BY <1>3, <1>4, Parents
  <1>8. PICK S0 : S0 = {} OBVIOUS
  <1>9. HasNames(p, n, S0, k) BY <1>4, <1>5, <1>6, <1>8 DEF HasNames
  <1>10. PICK g1 : g1 = AddedHere(p, code[k].param, k) OBVIOUS
  <1>11. PICK S1 : S1 = S0 \cup {code[k].param} OBVIOUS
  <1>12. HasNames(g1, n, S1, k) /\ ChangesOnly(p, g1, n)
    <2>1. code[k].param \in Ids \cup {NoId} BY <1>1
    <2> QED BY <1>1, <1>9, <1>10, <1>11, <2>1, ProcAdds
  <1>13. PICK g2 : g2 = AddedHere(g1, code[k].result, k) OBVIOUS
  <1>14. PICK S2 : S2 = S1 \cup {code[k].result} OBVIOUS
  <1>15. HasNames(g2, n, S2, k) /\ ChangesOnly(g1, g2, n)
    <2>1. code[k].result \in Ids \cup {NoId} BY <1>1
    <2> QED BY <1>1, <1>12, <1>13, <1>14, <2>1, ProcAdds
  <1>16. Sound(g1) /\ Sound(g2) BY <1>12, <1>15 DEF HasNames
  <1>17. PICK h : h = ContextSet(g2, k) OBVIOUS
  <1>18. h.scopes = g2.scopes /\ \A t \in DOMAIN g2.heap, i \in Ids : i # Context => Val(h, t, i) = Val(g2, t, i)
    <2>1. h.scopes = g2.scopes /\ \E s \in DOMAIN g2.heap : OneVal(g2, h, s, Context, k)
      BY <1>1, <1>16, <1>17, ContextVals
    <2> QED BY <2>1 DEF OneVal
  <1>19. DOMAIN g1.heap = DOMAIN p.heap /\ DOMAIN g2.heap = DOMAIN p.heap /\ g2.scopes = Append(g.scopes, n)
    BY <1>4, <1>12, <1>15 DEF ChangesOnly
  <1>20. Richer(code, G, g, h)
    <2>1. k \in Seen(code, G, code[k].param) /\ k \in Seen(code, G, code[k].result) /\ k \in Seen(code, G, Context)
      BY SeenNames
    <2>2. Richer(code, G, p, g1) BY <1>1, <1>4, <1>10, <2>1, RicherHere
    <2>3. Richer(code, G, g1, g2) BY <1>1, <1>13, <1>16, <2>1, RicherHere
    <2>4. Richer(code, G, g2, h) BY <1>1, <1>16, <1>17, <2>1, RicherContext
    <2>5. Richer(code, G, g, g1) BY <1>4, <2>2, RicherTrans
    <2>6. Richer(code, G, g, g2) BY <2>3, <2>5, RicherTrans
    <2> QED BY <2>4, <2>6, RicherTrans
  <1>21. ASSUME NEW t \in DOMAIN g.heap, NEW i \in Ids, i # Context PROVE Val(h, t, i) = Val(g, t, i)
    <2>1. t \in DOMAIN p.heap /\ t # n BY <1>7
    <2>2. Val(p, t, i) = Val(g, t, i) BY <1>5 DEF SameVals
    <2>3. Val(g1, t, i) = Val(p, t, i) BY <1>12, <2>1 DEF ChangesOnly
    <2>4. Val(g2, t, i) = Val(g1, t, i) BY <1>15, <1>19, <2>1 DEF ChangesOnly
    <2>5. Val(h, t, i) = Val(g2, t, i) BY <1>18, <1>19, <1>21, <2>1
    <2> QED BY <2>2, <2>3, <2>4, <2>5
  <1>22. ASSUME NEW i \in Ids, i # Context
         PROVE  Val(h, n, i) \in {k, NoSym} /\ (Val(h, n, i) = k <=> i \in {code[k].param, code[k].result})
    <2>1. Val(h, n, i) = Val(g2, n, i) BY <1>7, <1>18, <1>19, <1>22
    <2>2. Val(g2, n, i) = IF i \in S2 THEN k ELSE NoSym BY <1>15 DEF HasNames
    <2>3. i \in S2 <=> i \in {code[k].param, code[k].result} BY <1>8, <1>11, <1>14
    <2>4. k # NoSym BY <1>1, LocalAssumption
    <2> QED BY <2>1, <2>2, <2>3, <2>4
  <1>23. h.scopes = Append(g.scopes, n) BY <1>18, <1>19
  <1>24. \A t \in DOMAIN g.heap, i \in Ids : i # Context => Val(h, t, i) = Val(g, t, i) BY <1>21
  <1>25. \A i \in Ids : i # Context => Val(h, n, i) \in {k, NoSym} BY <1>22
  <1>26. \A i \in Ids : i # Context => (Val(h, n, i) = k <=> i \in {code[k].param, code[k].result}) BY <1>22
  <1>27. Signed(G, g, h, n, k) BY <1>20, <1>23, <1>24, <1>25, <1>26 DEF Signed
  <1>28. h = Signature(g, k) BY <1>2, <1>10, <1>13, <1>17 DEF Signature
  <1> QED BY <1>3, <1>27, <1>28

\* The signature's scope goes on the stack.
LEMMA GenSignature ==
  ASSUME code \in Seq(TokenType), WellNested(code), NEW k \in DOMAIN code, code[k].t = "open", code[k].kind = "proc",
         ~ LeftOut(code, k), NEW G, NEW g, Sound(g),
         NEW q, GenLevels(g, code, G, Marks(code, k), k + 1, q)
  PROVE  LET h == Signature(g, k)
         IN  /\ Richer(code, G, g, h)
             /\ \E r \in Seq(Nat) : GenLevels(h, code, G, Marks(code, k) \cup {2 * k}, k + 1, r)
  <1>1. PICK h : h = Signature(g, k) OBVIOUS
  <1>2. PICK n : n = Len(g.heap) + 1 OBVIOUS
  <1>3. /\ Richer(code, G, g, h) /\ h.scopes = Append(g.scopes, n)
        /\ \A t \in DOMAIN g.heap, i \in Ids : i # Context => Val(h, t, i) = Val(g, t, i)
        /\ \A i \in Ids : i # Context => Val(h, n, i) \in {k, NoSym}
        /\ \A i \in Ids : i # Context => (Val(h, n, i) = k <=> i \in {code[k].param, code[k].result})
    <2>1. Signed(G, g, Signature(g, k), Len(g.heap) + 1, k) BY SignatureVals
    <2>2. Signed(G, g, h, n, k) BY <1>1, <1>2, <2>1
    <2> QED BY <2>2 DEF Signed
  <1>4. k \in Nat /\ Marks(code, k) \subseteq Nat /\ \A x \in Marks(code, k) : x < 2 * k BY MarksOpen
  <1>5. SameInPlace(code, g, h) BY <1>3 DEF SameInPlace, InPlace
  <1>6. Keeps(g, h) BY <1>3 DEF Richer
  <1>7. code[k].result \in Ids \cup {NoId} /\ code[k].result # Context /\ k # NoSym
    <2>1. code[k] \in TokenType OBVIOUS
    <2>2. code[k].result # Context BY <2>1, TokenFields
    <2> QED BY <1>4, <2>2, OpenToken, LocalAssumption
  <1>8. \A o \in DOMAIN code : 2 * k = 2 * o => o = k BY <1>4, MarkArithmetic
  <1>9. \A o \in DOMAIN code : 2 * o \in Marks(code, k) \cup {2 * k} /\ code[o].result # NoId => code[o].result \in Ids
    <2> SUFFICES ASSUME NEW o \in DOMAIN code, 2 * o \in Marks(code, k) \cup {2 * k}, code[o].result # NoId
                 PROVE  code[o].result \in Ids
      OBVIOUS
    <2>1. CASE 2 * o = 2 * k BY <1>7, <1>8, <2>1
    <2>2. CASE 2 * o \in Marks(code, k) BY <2>2, ResultName
    <2> QED BY <2>1, <2>2
  <1>10. ASSUME NEW id \in Ids, InPlace(code, id) PROVE Says(code, k + 1, id, 2 * k, Val(h, n, id))
    <2>1. id # Context BY <1>10 DEF InPlace
    <2>2. Val(h, n, id) = IF id \in {code[k].param, code[k].result} THEN k ELSE NoSym BY <1>3, <1>7, <2>1
    <2>3. \A o \in DOMAIN code : 2 * k # 2 * o + 1 BY <1>4, MarkArithmetic
    <2> QED BY <1>8, <2>2, <2>3 DEF Says
  <1>11. \A o \in DOMAIN code : 2 * k = 2 * o /\ code[o].result # NoId => Val(h, n, code[o].result) # NoSym
    <2>1. code[k].result # NoId => Val(h, n, code[k].result) = k BY <1>3, <1>7
    <2> QED BY <1>7, <1>8, <2>1
  <1>12. PICK x \in Nat : x = 2 * k BY <1>4, MarkArithmetic
  <1>13. PICK S \in SUBSET Nat : S = Marks(code, k) BY <1>4
  <1>14. GenLevels(g, code, G, S, k + 1, q) BY <1>13
  <1>15. \A y \in S : y < x BY <1>4, <1>12, <1>13
  <1> HIDE DEF GenLevels, Says
  <1>16. GenLevels(h, code, G, S \cup {x}, k + 1, Append(q, x)) /\ Append(q, x) \in Seq(Nat)
    <2>1. h.scopes = Append(g.scopes, Len(g.heap) + 1) BY <1>2, <1>3
    <2>2. \A o \in DOMAIN code : 2 * o \in S \cup {x} /\ code[o].result # NoId => code[o].result \in Ids
      BY <1>9, <1>12, <1>13
    <2>3. \A id \in Ids : InPlace(code, id) => Says(code, k + 1, id, x, Val(h, Len(g.heap) + 1, id))
      BY <1>2, <1>10, <1>12
    <2>4. \A o \in DOMAIN code : x = 2 * o /\ code[o].result # NoId => Val(h, Len(g.heap) + 1, code[o].result) # NoSym
      BY <1>2, <1>11, <1>12
    <2> QED BY <1>5, <1>6, <1>14, <1>15, <2>1, <2>2, <2>3, <2>4, GenPush
  <1> QED BY <1>1, <1>3, <1>12, <1>13, <1>16

\* The scope of the body of statement k goes on the stack.
LEMMA GenBody ==
  ASSUME NEW c \in Seq(TokenType), NEW k \in DOMAIN c, c[k].t = "open", NEW G, NEW g, Sound(g),
         NEW S \in SUBSET Nat, \A y \in S : y < 2 * k + 1,
         \A o \in DOMAIN c : 2 * o \in S /\ c[o].result # NoId => c[o].result \in Ids,
         NEW q, GenLevels(g, c, G, S, k + 1, q)
  PROVE  \E r \in Seq(Nat) : GenLevels(Pushed(g), c, G, S \cup {2 * k + 1}, k + 1, r)
  <1>1. k \in Nat OBVIOUS
  <1>2. PICK h : h = Pushed(g) OBVIOUS
  <1>3. PICK n : n = Len(g.heap) + 1 OBVIOUS
  <1>4. h.scopes = Append(g.scopes, n) BY <1>2, <1>3, PushedFacts
  <1>5. SameVals(g, h) /\ \A i \in Ids : Val(h, n, i) = NoSym BY <1>2, <1>3, PushedVal
  <1>6. SameInPlace(c, g, h) /\ Keeps(g, h) BY <1>5 DEF SameInPlace, Keeps, SameVals
  <1>7. PICK x \in Nat : x = 2 * k + 1 BY <1>1, MarkArithmetic
  <1>8. \A o \in DOMAIN c : x # 2 * o /\ (x = 2 * o + 1 => o = k)
    <2> SUFFICES ASSUME NEW o \in DOMAIN c PROVE x # 2 * o /\ (x = 2 * o + 1 => o = k) OBVIOUS
    <2>1. o \in Nat OBVIOUS
    <2> QED BY <1>1, <1>7, <2>1, MarkArithmetic
  <1>9. ASSUME NEW id \in Ids PROVE Says(c, k + 1, id, x, Val(h, n, id))
    <2>1. Body(c, k + 1, id, k) = {} BY BodyStarts
    <2> QED BY <1>5, <1>8, <2>1 DEF Says
  <1>10. \A o \in DOMAIN c : 2 * o \in S \cup {x} /\ c[o].result # NoId => c[o].result \in Ids BY <1>8
  <1>11. \A y \in S : y < x BY <1>7
  <1> HIDE DEF GenLevels, Says
  <1>12. GenLevels(h, c, G, S \cup {x}, k + 1, Append(q, x)) /\ Append(q, x) \in Seq(Nat)
    <2>1. h.scopes = Append(g.scopes, Len(g.heap) + 1) BY <1>3, <1>4
    <2>2. \A id \in Ids : InPlace(c, id) => Says(c, k + 1, id, x, Val(h, Len(g.heap) + 1, id)) BY <1>3, <1>9
    <2>3. \A o \in DOMAIN c : x = 2 * o /\ c[o].result # NoId => Val(h, Len(g.heap) + 1, c[o].result) # NoSym BY <1>8
    <2> QED BY <1>6, <1>10, <1>11, <2>1, <2>2, <2>3, GenPush
  <1> QED BY <1>2, <1>7, <1>12

\* The generator enters a procedure.
LEMMA GenProc ==
  ASSUME code \in Seq(TokenType), WellNested(code), OneProcedure(code),
         NEW k \in DOMAIN code, code[k].t = "open", code[k].kind = "proc",
         ~ LeftOut(code, k), NEW G, NEW g, Sound(g), NEW q, GenLevels(g, code, G, Marks(code, k), k, q)
  PROVE  /\ Richer(code, G, g, GenProcScopes(g, k))
         /\ \E r \in Seq(Nat) : GenLevels(GenProcScopes(g, k), code, G, Marks(code, k + 1), k + 1, r)
  <1>1. /\ k \in Nat /\ code[k].id \in Ids /\ code[k].id \in Ids \cup {NoId} /\ code[k].id # NoId
        /\ k \in Seen(code, G, code[k].id)
    <2>1. code[k] \in TokenType OBVIOUS
    <2>2. code[k].id \in Ids BY <2>1, TokenFields
    <2>3. k \in Seen(code, G, code[k].id) BY SeenNames
    <2> QED BY <2>2, <2>3, LocalAssumption
  <1>2. PICK g1 : g1 = AddedHere(g, code[k].id, k) OBVIOUS
  <1>3. Richer(code, G, g, g1) /\ Sound(g1) BY <1>1, <1>2, RicherHere DEF Richer
  <1>4. GenLevels(g1, code, G, Marks(code, k), k + 1, q)
    <2>1. OneVal(g, g1, Current(g), code[k].id, k) BY <1>1, <1>2, AddedHereVal
    <2>2. g1.scopes = g.scopes BY <1>1, <1>2, AddedHereShape DEF SameShape
    <2> QED BY <1>1, <2>1, <2>2, GenDeclare
  <1>5. PICK h : h = Signature(g1, k) OBVIOUS
  <1>6. Richer(code, G, g1, h) /\ \E r \in Seq(Nat) : GenLevels(h, code, G, Marks(code, k) \cup {2 * k}, k + 1, r)
    BY <1>3, <1>4, <1>5, GenSignature
  <1>7. Sound(h) BY <1>6 DEF Richer
  <1>8. PICK r \in Seq(Nat) : GenLevels(h, code, G, Marks(code, k) \cup {2 * k}, k + 1, r) BY <1>6
  <1>9. PICK S : S = Marks(code, k) \cup {2 * k} OBVIOUS
  <1>10. S \in SUBSET Nat /\ (\A y \in S : y < 2 * k + 1) /\ Marks(code, k + 1) = S \cup {2 * k + 1}
    <2>1. /\ Marks(code, k) \subseteq Nat /\ \A x \in Marks(code, k) : x < 2 * k
          /\ Marks(code, k + 1) = (Marks(code, k) \cup {2 * k}) \cup {2 * k + 1}
      BY MarksOpen
    <2>2. 2 * k \in Nat /\ 2 * k < 2 * k + 1 BY <1>1
    <2>3. \A y \in Marks(code, k) : y \in Nat /\ y < 2 * k + 1 BY <2>1, <2>2
    <2> QED BY <1>9, <2>1, <2>2, <2>3
  <1>11. \A o \in DOMAIN code : 2 * o \in S /\ code[o].result # NoId => code[o].result \in Ids
    <2> SUFFICES ASSUME NEW o \in DOMAIN code, 2 * o \in S, code[o].result # NoId PROVE code[o].result \in Ids OBVIOUS
    <2>1. 2 * o \in Marks(code, k + 1) BY <1>10
    <2> QED BY <2>1, ResultName
  <1>12. \E s \in Seq(Nat) : GenLevels(Pushed(h), code, G, S \cup {2 * k + 1}, k + 1, s)
    BY <1>7, <1>8, <1>9, <1>10, <1>11, GenBody
  <1>13. GenProcScopes(g, k) = Pushed(h) BY <1>2, <1>5 DEF GenProcScopes, Signature
  <1>14. Richer(code, G, h, Pushed(h)) BY <1>7, RicherPushed
  <1>15. Richer(code, G, g, h) BY <1>3, <1>6, RicherTrans
  <1>16. Richer(code, G, g, Pushed(h)) BY <1>14, <1>15, RicherTrans
  <1> QED BY <1>10, <1>12, <1>13, <1>16

\* A scope that is the body of a statement around.
LEMMA MarkOf ==
  ASSUME NEW c \in Seq(TokenType), NEW u, NEW o \in Nat, 2 * o + 1 \in Marks(c, u)
  PROVE  o \in Encl(c, u) /\ o < u /\ o \in DOMAIN c
  <1>1. PICK k \in In(c, u, Scoped) : k \in Nat /\ (2 * o + 1 = 2 * k + 1 \/ 2 * o + 1 = 2 * k) BY MarkFacts
  <1>2. o = k BY <1>1, MarkArithmetic
  <1> QED BY <1>1, <1>2 DEF In, Encl

LEMMA ResultNames ==
  ASSUME NEW c \in Seq(TokenType), NEW u, NEW S, S \subseteq Marks(c, u)
  PROVE  \A o \in DOMAIN c : 2 * o \in S /\ c[o].result # NoId => c[o].result \in Ids
  <1> SUFFICES ASSUME NEW o \in DOMAIN c, 2 * o \in S, c[o].result # NoId PROVE c[o].result \in Ids OBVIOUS
  <1>1. 2 * o \in Marks(c, u) OBVIOUS
  <1> QED BY <1>1, ResultName

\* A token that declares nothing in place: the scopes stay right.
LEMMA GenStays ==
  ASSUME NEW c \in Seq(TokenType), NEW u \in DOMAIN c, NEW G, NEW g, Sound(g), NEW h,
         NEW S, S \subseteq Marks(c, u), NEW q, GenLevels(g, c, G, S, u, q), h.scopes = g.scopes,
         SameInPlace(c, g, h), Keeps(g, h),
         c[u].t = "var" => FALSE, c[u].t = "open" => c[u].kind # "proc"
  PROVE  GenLevels(h, c, G, S, u + 1, q)
  <1>1. ASSUME NEW id \in Ids, InPlace(c, id) PROVE ~ DeclaresIn(c, u, id)
    <2> SUFFICES ASSUME DeclaresIn(c, u, id) PROVE FALSE OBVIOUS
    <2>1. c[u].t # "const" /\ (c[u].t = "open" => c[u].kind = "proc") BY <1>1, InPlaceFacts
    <2> QED BY <2>1 DEF DeclaresIn
  <1>2. \A id \in Ids, o \in DOMAIN c : InPlace(c, id) => Body(c, u + 1, id, o) = Body(c, u, id, o)
    <2> SUFFICES ASSUME NEW id \in Ids, NEW o \in DOMAIN c, InPlace(c, id) PROVE Body(c, u + 1, id, o) = Body(c, u, id, o)
      OBVIOUS
    <2> QED BY <1>1, BodyStep
  <1>3. SameBodies(c, S, u, u + 1) BY <1>2 DEF SameBodies
  <1> QED BY <1>3, GenKeep

LEMMA KeptScopes ==
  ASSUME NEW c, NEW g
  PROVE  SameInPlace(c, g, g) /\ Keeps(g, g)
  BY DEF SameInPlace, Keeps

\* Over a token that changes no scope.
LEMMA GenQuiet ==
  ASSUME NEW c \in Seq(TokenType), WellNested(c), NEW u \in DOMAIN c, c[u].t \in {"const", "use", "defer", "return"},
         NEW G, NEW g, Sound(g), NEW q, GenLevels(g, c, G, Marks(c, u), u, q)
  PROVE  GenLevels(g, c, G, Marks(c, u + 1), u + 1, q)
  <1>1. Marks(c, u + 1) = Marks(c, u) BY EnclStay, MarksSame
  <1>2. GenLevels(g, c, G, Marks(c, u), u + 1, q) BY KeptScopes, GenStays
  <1> QED BY <1>1, <1>2

\* Over a procedure that is left out.
LEMMA GenOver ==
  ASSUME NEW c \in Seq(TokenType), WellNested(c), NEW u \in DOMAIN c, c[u].t = "open", LeftOut(c, u),
         NEW G, NEW g, Sound(g), NEW q, GenLevels(g, c, G, Marks(c, u), u, q)
  PROVE  GenLevels(g, c, G, Marks(c, c[u].end + 1), c[u].end + 1, q)
  <1>1. Marks(c, c[u].end + 1) = Marks(c, u) BY EnclSkip, MarksSame
  <1>2. c[u].end \in Nat /\ u \in Nat /\ u < c[u].end BY EndFacts
  <1>3. ASSUME NEW id \in Ids, NEW o \in DOMAIN c, InPlace(c, id), 2 * o + 1 \in Marks(c, u)
        PROVE  Body(c, c[u].end + 1, id, o) = Body(c, u, id, o)
    <2>1. o < u /\ o \in Nat BY <1>3, MarkOf
    <2>2. ASSUME NEW k \in DOMAIN c, DeclaresIn(c, k, id), OwnerIn(c, k, id) = o, k < c[u].end + 1 PROVE k < u
      <3>1. k \in Nat OBVIOUS
      <3>2. k # u BY <1>3, <2>2, InPlaceFacts
      <3>3. ~ (u < k /\ k <= c[u].end)
        <4> SUFFICES ASSUME u < k, k <= c[u].end PROVE FALSE OBVIOUS
        <4>1. OwnerIn(c, k, id) >= u BY InsideOwner
        <4> QED BY <1>2, <2>1, <2>2, <4>1
      <3> QED BY <1>2, <2>2, <3>1, <3>2, <3>3
    <2>3. \A k \in DOMAIN c : k \in Nat /\ (k < u => k < c[u].end + 1) BY <1>2
    <2> QED BY <2>2, <2>3 DEF Body
  <1>4. SameBodies(c, Marks(c, u), u, c[u].end + 1) BY <1>3 DEF SameBodies
  <1>5. GenLevels(g, c, G, Marks(c, u), c[u].end + 1, q)
    <2>1. Marks(c, u) \subseteq Marks(c, u) OBVIOUS
    <2>2. SameInPlace(c, g, g) /\ Keeps(g, g) BY KeptScopes
    <2> QED BY <1>4, <2>1, <2>2, GenKeep
  <1> QED BY <1>1, <1>5

\* The end of a statement without a scope.
LEMMA GenLeavesDo ==
  ASSUME NEW c \in Seq(TokenType), WellNested(c), NEW u \in DOMAIN c, c[u].t = "close",
         c[InnerOf(c, u)].kind \in {"do", "loopdo"},
         NEW G, NEW g, Sound(g), NEW q, GenLevels(g, c, G, Marks(c, u), u, q)
  PROVE  GenLevels(g, c, G, Marks(c, u + 1), u + 1, q)
  <1>1. PICK k : k = InnerOf(c, u) OBVIOUS
  <1>2. Marks(c, u) = Marks(c, k + 1) /\ Marks(c, u + 1) = Marks(c, k) /\ k \in DOMAIN c /\ c[k].t = "open"
    BY <1>1, MarksClose
  <1>3. Marks(c, k + 1) = Marks(c, k) BY <1>1, <1>2, MarksOpen
  <1>4. GenLevels(g, c, G, Marks(c, u), u + 1, q) BY KeptScopes, GenStays
  <1> QED BY <1>2, <1>3, <1>4

\* The end of a compound statement: behind it, or again at its start.
LEMMA GenLeaves ==
  ASSUME NEW c \in Seq(TokenType), WellNested(c), NEW u \in DOMAIN c, c[u].t = "close",
         NEW k, k = InnerOf(c, u), c[k].kind \in ScopeKinds,
         NEW G, NEW g, Sound(g), NEW q, GenLevels(g, c, G, Marks(c, u), u, q), NEW h \in Popped(g)
  PROVE  /\ \E r \in Seq(Nat) : GenLevels(h, c, G, Marks(c, u + 1), u + 1, r)
         /\ \E r \in Seq(Nat) : GenLevels(Pushed(h), c, G, Marks(c, k + 1), k + 1, r)
  <1>1. /\ Marks(c, u) = Marks(c, k + 1) /\ Marks(c, u + 1) = Marks(c, k)
        /\ k \in DOMAIN c /\ c[k].t = "open" /\ c[k].end = u /\ k < u
    BY MarksClose
  <1>2. /\ Marks(c, k + 1) = Marks(c, k) \cup {2 * k + 1} /\ k \in Nat
        /\ Marks(c, k) \subseteq Nat /\ \A x \in Marks(c, k) : x < 2 * k
    <2>1. c[k].kind \notin {"do", "loopdo", "proc"} BY DEF ScopeKinds
    <2> QED BY <1>1, <2>1, MarksOpen
  <1>3. PICK x \in Nat : x = 2 * k + 1 BY <1>2, MarkArithmetic
  <1>4. PICK S \in SUBSET Nat : S = Marks(c, u) BY <1>1, <1>2, <1>3
  <1>5. \A y \in Marks(c, k) : y \in Nat /\ y < x BY <1>2, <1>3
  <1>6. x \in S /\ (\A y \in S : y <= x) /\ S \ {x} = Marks(c, k)
    <2>1. S = Marks(c, k) \cup {x} BY <1>1, <1>2, <1>3, <1>4
    <2>2. x \notin Marks(c, k) BY <1>3, <1>5
    <2> QED BY <1>3, <1>5, <2>1, <2>2
  <1>7. PICK r \in Seq(Nat) : GenLevels(h, c, G, S \ {x}, u, r)
    <2>1. S \subseteq Marks(c, u) /\ GenLevels(g, c, G, S, u, q) BY <1>4
    <2> QED BY <1>6, <2>1, GenPop
  <1>8. GenLevels(h, c, G, Marks(c, k), u, r) BY <1>6, <1>7
  <1>9. Sound(h) BY PoppedFacts
  <1>10. Marks(c, k) \subseteq Marks(c, u) BY <1>1, <1>2
  <1>11. GenLevels(h, c, G, Marks(c, k), u + 1, r)
    <2>1. c[u].t # "open" /\ c[u].t # "var" OBVIOUS
    <2> QED BY <1>8, <1>9, <1>10, <2>1, KeptScopes, GenStays
  <1>12. SameBodies(c, Marks(c, k), u, k + 1)
    <2> SUFFICES ASSUME NEW id \in Ids, NEW o \in DOMAIN c, 2 * o + 1 \in Marks(c, k)
                 PROVE  Body(c, k + 1, id, o) = Body(c, u, id, o)
      BY DEF SameBodies
    <2>1. o < k /\ o \in Nat BY MarkOf
    <2>2. u \in Nat /\ k + 1 \in Nat /\ u <= c[k].end + 1 /\ k < k + 1 /\ k + 1 <= c[k].end + 1 BY <1>1, <1>2
    <2> QED BY <1>1, <2>1, <2>2, BodyOutside
  <1>13. GenLevels(h, c, G, Marks(c, k), k + 1, r) BY <1>8, <1>9, <1>10, <1>12, KeptScopes, GenKeep
  <1>14. \E s \in Seq(Nat) : GenLevels(Pushed(h), c, G, Marks(c, k) \cup {2 * k + 1}, k + 1, s)
    <2>1. \A y \in Marks(c, k) : y < 2 * k + 1 BY <1>3, <1>5
    <2>2. Marks(c, k) \subseteq Marks(c, k) /\ Marks(c, k) \in SUBSET Nat BY <1>2
    <2>3. \A o \in DOMAIN c : 2 * o \in Marks(c, k) /\ c[o].result # NoId => c[o].result \in Ids
      BY <2>2, ResultNames
    <2> QED BY <1>1, <1>9, <1>13, <2>1, <2>2, <2>3, GenBody
  <1> QED BY <1>1, <1>2, <1>11, <1>14

\* The end of a procedure: the scope of its body, then that of its signature.
LEMMA GenLeavesProc ==
  ASSUME NEW c \in Seq(TokenType), WellNested(c), NEW u \in DOMAIN c, c[u].t = "close",
         c[InnerOf(c, u)].kind = "proc",
         NEW G, NEW g, Sound(g), NEW q, GenLevels(g, c, G, Marks(c, u), u, q),
         NEW h \in Popped(g)
  PROVE  /\ \E r \in Seq(Nat) : GenLevels(h, c, G, Marks(c, InnerOf(c, u)) \cup {2 * InnerOf(c, u)}, u, r)
         /\ \A i \in Popped(h) : \E r \in Seq(Nat) : GenLevels(i, c, G, Marks(c, u + 1), u + 1, r)
  <1>0. PICK k : k = InnerOf(c, u) OBVIOUS
  <1>1. /\ Marks(c, u) = Marks(c, k + 1) /\ Marks(c, u + 1) = Marks(c, k)
        /\ k \in DOMAIN c /\ c[k].t = "open" /\ c[k].end = u /\ k < u
    BY <1>0, MarksClose
  <1>2. /\ Marks(c, k + 1) = (Marks(c, k) \cup {2 * k}) \cup {2 * k + 1} /\ k \in Nat
        /\ Marks(c, k) \subseteq Nat /\ \A x \in Marks(c, k) : x < 2 * k
    BY <1>0, <1>1, MarksOpen
  <1>3. PICK x \in Nat : x = 2 * k + 1 BY <1>2, MarkArithmetic
  <1>4. PICK y \in Nat : y = 2 * k BY <1>2, MarkArithmetic
  <1>5. PICK S \in SUBSET Nat : S = Marks(c, u) BY <1>1, <1>2, <1>3, <1>4
  <1>6. PICK T \in SUBSET Nat : T = Marks(c, k) \cup {y} BY <1>2, <1>4
  <1>7. \A z \in Marks(c, k) : z \in Nat /\ z < y BY <1>2, <1>4
  <1>8. \A z \in T : z < x BY <1>3, <1>4, <1>6, <1>7
  <1>9. S = T \cup {x} BY <1>1, <1>2, <1>3, <1>4, <1>5, <1>6
  <1>10. x \notin T /\ y \notin Marks(c, k) BY <1>3, <1>4, <1>7, <1>8
  <1>11. x \in S /\ (\A z \in S : z <= x) /\ S \ {x} = T
    <2>1. \A z \in S : z \in Nat /\ (z = x \/ z < x) BY <1>8, <1>9
    <2> QED BY <1>3, <1>9, <1>10, <2>1
  <1>12. y \in T /\ (\A z \in T : z <= y) /\ T \ {y} = Marks(c, k)
    <2>1. \A z \in T : z \in Nat /\ (z = y \/ z < y) BY <1>6, <1>7
    <2> QED BY <1>4, <1>6, <1>10, <2>1
  <1>13. PICK r \in Seq(Nat) : GenLevels(h, c, G, T, u, r)
    <2>1. S \subseteq Marks(c, u) /\ GenLevels(g, c, G, S, u, q) BY <1>5
    <2>2. \E r \in Seq(Nat) : GenLevels(h, c, G, S \ {x}, u, r) BY <1>11, <2>1, GenPop
    <2> QED BY <1>11, <2>2
  <1>14. Sound(h) BY PoppedFacts
  <1>15. T \subseteq Marks(c, u) /\ Marks(c, k) \subseteq Marks(c, u) BY <1>5, <1>6, <1>9
  <1>16. ASSUME NEW i \in Popped(h) PROVE \E s \in Seq(Nat) : GenLevels(i, c, G, Marks(c, u + 1), u + 1, s)
    <2>1. PICK s \in Seq(Nat) : GenLevels(i, c, G, T \ {y}, u, s) BY <1>12, <1>13, <1>14, <1>15, GenPop
    <2>2. GenLevels(i, c, G, Marks(c, k), u, s) BY <1>12, <2>1
    <2>3. Sound(i) BY <1>14, PoppedFacts
    <2>4. c[u].t # "open" /\ c[u].t # "var" OBVIOUS
    <2>5. GenLevels(i, c, G, Marks(c, k), u + 1, s) BY <1>15, <2>2, <2>3, <2>4, KeptScopes, GenStays
    <2> QED BY <1>1, <2>5
  <1> QED BY <1>0, <1>4, <1>6, <1>13, <1>16

\* The start of a statement that is no procedure.
LEMMA GenEnters ==
  ASSUME code \in Seq(TokenType), WellNested(code), NEW k \in DOMAIN code, code[k].t = "open", code[k].kind # "proc",
         NEW G, NEW g, Sound(g), NEW q, GenLevels(g, code, G, Marks(code, k), k, q),
         NEW h, Sound(h), h.scopes = g.scopes, SameInPlace(code, g, h), Keeps(g, h)
  PROVE  /\ code[k].kind \in {"do", "loopdo"} => \E r \in Seq(Nat) : GenLevels(h, code, G, Marks(code, k + 1), k + 1, r)
         /\ code[k].kind \notin {"do", "loopdo"} =>
              \E r \in Seq(Nat) : GenLevels(Pushed(h), code, G, Marks(code, k + 1), k + 1, r)
  <1>1. /\ code[k].kind \in {"do", "loopdo"} => Marks(code, k + 1) = Marks(code, k)
        /\ code[k].kind \notin {"do", "loopdo", "proc"} => Marks(code, k + 1) = Marks(code, k) \cup {2 * k + 1}
        /\ k \in Nat /\ Marks(code, k) \subseteq Nat /\ \A x \in Marks(code, k) : x < 2 * k
    BY MarksOpen
  <1>2. GenLevels(h, code, G, Marks(code, k), k + 1, q) /\ q \in Seq(Nat)
    <2>1. Marks(code, k) \subseteq Marks(code, k) /\ code[k].t # "var" OBVIOUS
    <2>2. GenLevels(h, code, G, Marks(code, k), k + 1, q) BY <2>1, GenStays
    <2> QED BY <2>2 DEF GenLevels
  <1>3. code[k].kind \notin {"do", "loopdo"} =>
          \E r \in Seq(Nat) : GenLevels(Pushed(h), code, G, Marks(code, k) \cup {2 * k + 1}, k + 1, r)
    <2>1. \A y \in Marks(code, k) : y < 2 * k + 1
      <3>1. 2 * k \in Nat BY <1>1
      <3>2. \A y \in Marks(code, k) : y \in Nat /\ y < 2 * k BY <1>1
      <3> QED BY <3>1, <3>2
    <2>2. Marks(code, k) \subseteq Marks(code, k) /\ Marks(code, k) \in SUBSET Nat BY <1>1
    <2>3. \A o \in DOMAIN code : 2 * o \in Marks(code, k) /\ code[o].result # NoId => code[o].result \in Ids
      BY <2>2, ResultNames
    <2> QED BY <1>2, <2>1, <2>2, <2>3, GenBody
  <1> QED BY <1>1, <1>2, <1>3

\* The variable of a loop is not in place.
LEMMA LoopVarKept ==
  ASSUME code \in Seq(TokenType), NEW k \in DOMAIN code, code[k].t = "open", code[k].kind # "proc",
         NEW g, NEW h, h = g \/ \A t \in DOMAIN g.heap, i \in Ids : i # code[k].id => Val(h, t, i) = Val(g, t, i)
  PROVE  SameInPlace(code, g, h)
  <1>1. ASSUME NEW id \in Ids, InPlace(code, id) PROVE id # code[k].id
    <2> SUFFICES ASSUME id = code[k].id PROVE FALSE OBVIOUS
    <2>1. DeclaresIn(code, k, id) BY DEF DeclaresIn
    <2> QED BY <1>1, <2>1, InPlaceFacts
  <1> QED BY <1>1 DEF SameInPlace

-----------------------------------------------------------------------------
(* What the generator binds.                                               *)

\* The meaning of an entry is a declaration of the name, and not one left out.
LEMMA MeaningSeen ==
  ASSUME NEW G, NEW g, Sound(g), Entries(code, G, g), NEW s \in DOMAIN g.heap, NEW id \in Ids, Val(g, s, id) # NoSym
  PROVE  /\ Meaning(g, s, id) \in Seen(code, G, id) /\ Seen(code, G, id) \subseteq DeclaredIn(code, G, id)
         /\ \/ Meaning(g, s, id) = Val(g, s, id)
            \/ Unrolled(code, Meaning(g, s, id)) /\ Meaning(g, s, id) # 0
  <1>1. PICK y : y = g.heap[s].syms[id] OBVIOUS
  <1>2. y # NoSym /\ Val(g, s, id) = y.decl BY <1>1 DEF Val
  <1>3. EntryOk(code, G, id, y) BY <1>1, <1>2 DEF Entries
  <1>4. Meaning(g, s, id) = IF y.konst # 0 THEN y.konst ELSE y.decl BY <1>1 DEF Meaning
  <1>5. Meaning(g, s, id) \in Seen(code, G, id) BY <1>3, <1>4 DEF EntryOk
  <1>6. Meaning(g, s, id) = Val(g, s, id) \/ (Unrolled(code, Meaning(g, s, id)) /\ Meaning(g, s, id) # 0)
    BY <1>2, <1>3, <1>4 DEF EntryOk
  <1>7. Seen(code, G, id) \subseteq DeclaredIn(code, G, id) BY DEF Seen, DeclaredIn
  <1> QED BY <1>5, <1>6, <1>7

\* What the analyser has found out about an identifier that was generated.
LEMMA MeantHere ==
  ASSUME IInv, LexInv, phase = "gen", NEW k \in Names(code), ~ HiddenIn(code, code[k].id)
  PROVE  /\ IsLexical(code, globals, errors, k, code[k].id, meant[k]) /\ meant[k] # NoSym
  <1>1. errors = {} BY DEF IInv, ResolvedInv
  <1>2. IsLexical(code, globals, errors, k, code[k].id, meant[k]) /\ (k \in errors <=> meant[k] = NoSym)
    BY DEF LexInv
  <1> QED BY <1>1, <1>2

\* A name that has one declaration.
LEMMA OneDeclaration ==
  ASSUME IInv, LexInv, phase = "gen", NEW k \in Names(code), NEW m \in Seen(code, globals, code[k].id),
         DeclaredIn(code, globals, code[k].id) = {m}
  PROVE  IsLexical(code, globals, errors, k, code[k].id, m)
  <1>1. PICK id : id = code[k].id OBVIOUS
  <1>2. ~ HiddenIn(code, id)
    <2> SUFFICES ASSUME NEW j \in DOMAIN code, DeclaresIn(code, j, id), LeftOut(code, j) PROVE FALSE BY DEF HiddenIn
    <2>1. j \in DeclaredIn(code, globals, id) BY DEF DeclaredIn
    <2>2. j = m BY <1>1, <2>1
    <2>3. code \in Seq(TokenType) BY DEF IInv, TextInv
    <2>4. j # 0 BY <2>3
    <2> QED BY <1>1, <2>2, <2>4 DEF Seen
  <1>3. IsLexical(code, globals, errors, k, id, meant[k]) /\ meant[k] # NoSym BY <1>1, <1>2, MeantHere
  <1>4. meant[k] \in DeclaredIn(code, globals, id)
    <2>1. CASE VisibleIn(code, errors, k, id) = {} /\ meant[k] = IF id \in globals THEN 0 ELSE NoSym
      BY <1>3, <2>1 DEF DeclaredIn
    <2>2. CASE meant[k] \in VisibleIn(code, errors, k, id) BY <2>2 DEF VisibleIn, DeclaredIn
    <2> QED BY <1>3, <2>1, <2>2 DEF IsLexical
  <1> QED BY <1>1, <1>3, <1>4

\* A name with several declarations, none of them out of place, is in place.
LEMMA SeveralInPlace ==
  ASSUME IInv, BindInv, NEW id \in Ids, NEW j \in DeclaredIn(code, globals, id), NEW k \in DeclaredIn(code, globals, id),
         j # k, \A x, y \in DeclaredIn(code, globals, id) : x # y => y = 0 \/ ~ OutOfPlace(code, y, id)
  PROVE  InPlace(code, id)
  <1>1. code \in Seq(TokenType) /\ WellNested(code) BY DEF IInv, TextInv
  <1>2. OneProcedure(code) /\ globals \subseteq Named BY DEF BindInv
  <1>3. ASSUME NEW y \in DOMAIN code, DeclaresIn(code, y, id) PROVE ~ OutOfPlace(code, y, id) /\ y \in DeclaredIn(code, globals, id)
    <2>1. y \in DeclaredIn(code, globals, id) /\ y # 0 BY <1>1, <1>3 DEF DeclaredIn
    <2>2. j # y \/ k # y OBVIOUS
    <2> QED BY <2>1, <2>2
  <1>4. id # Context
    <2> SUFFICES ASSUME id = Context PROVE FALSE OBVIOUS
    <2>1. id \notin globals BY <1>2 DEF Named
    <2>2. \A y \in DeclaredIn(code, globals, id) : y \in DOMAIN code /\ DeclaresIn(code, y, id) BY <2>1 DEF DeclaredIn
    <2>3. \A y \in DeclaredIn(code, globals, id) : InnerOf(code, y) = 0 BY <1>3, <2>2 DEF OutOfPlace
    <2>4. ASSUME NEW y \in DeclaredIn(code, globals, id) PROVE y = 1
      <3>1. y \in DOMAIN code /\ InnerOf(code, y) = 0 BY <2>2, <2>3
      <3>2. y # 1 => InnerOf(code, y) >= 1 BY <1>1, <1>2, <3>1, OneFacts
      <3> QED BY <3>1, <3>2
    <2> QED BY <2>4
  <1> QED BY <1>3, <1>4 DEF InPlace

\* An identifier of a name in place, looked up where it stands.
LEMMA InPlaceRight ==
  ASSUME IInv, LexInv, BindInv, phase = "gen", at \in Names(code), code[at].t = "use", InPlace(code, code[at].id)
  PROVE  Find(gc, code[at].id) # 0 /\ IsLexical(code, globals, errors, at, code[at].id, Val(gc, Find(gc, code[at].id), code[at].id))
  <1>1. PICK id : id = code[at].id OBVIOUS
  <1>2. /\ code \in Seq(TokenType) /\ WellNested(code) /\ Sound(gc) /\ at \in DOMAIN code /\ errors = {}
    <2>1. code \in Seq(TokenType) /\ WellNested(code) /\ Sound(gc) BY GenFacts
    <2> QED BY <2>1 DEF Names, IInv, ResolvedInv
  <1>3. OneProcedure(code) /\ \E q \in Seq(Nat) : GenLevels(gc, code, globals, Marks(code, at), at, q) BY DEF BindInv
  <1>4. id \in Ids
    <2>1. code[at] \in TokenType BY <1>2
    <2> QED BY <1>1, <2>1, TokenFields
  <1>5. at \in Nat /\ at > 1
    <2>1. at # 1 BY <1>3 DEF OneProcedure
    <2>2. at \in Nat /\ at >= 1 BY <1>2
    <2> QED BY <2>1, <2>2
  <1>6. PICK q : GenLevels(gc, code, globals, Marks(code, at), at, q) BY <1>3
  <1>7. /\ Find(gc, id) = 0 => IsLexical(code, globals, {}, at, id, NoSym)
        /\ Find(gc, id) # 0 => IsLexical(code, globals, {}, at, id, Val(gc, Find(gc, id), id))
    BY <1>1, <1>2, <1>3, <1>4, <1>5, <1>6, FoundInPlace
  <1>8. ~ HiddenIn(code, id) BY <1>1, InPlaceFacts, <1>2, <1>4 DEF HiddenIn
  <1>9. IsLexical(code, globals, {}, at, id, meant[at]) /\ meant[at] # NoSym BY <1>1, <1>2, <1>8, MeantHere
  <1>10. Find(gc, id) # 0 BY <1>2, <1>7, <1>9, LexicalUnique
  <1> QED BY <1>1, <1>2, <1>7, <1>10

\* Whatever context an identifier is generated in, it finds a name there.
LEMMA BoundSomewhere ==
  ASSUME IInv, BindInv, phase = "gen", NEW g, Richer(code, globals, gc, g), NEW k \in Names(code)
  PROVE  LET b == Bound(g, k, code[k].id)
             s == IF Find(g, code[k].id) # 0 THEN Find(g, code[k].id) ELSE symbolOf[k]
         IN  /\ b.use = k /\ b.id = code[k].id /\ b.decl = Meaning(g, s, code[k].id)
             /\ s \in DOMAIN g.heap /\ Val(g, s, code[k].id) # NoSym
             /\ Sound(g) /\ Entries(code, globals, g)
             /\ code[k].id \in Ids /\ k \in DOMAIN code /\ code[k].t \in {"use", "defer"}
  <1>1. PICK id : id = code[k].id OBVIOUS
  <1>2. PICK s : s = IF Find(g, id) # 0 THEN Find(g, id) ELSE symbolOf[k] OBVIOUS
  <1>3. PICK b : b = Bound(g, k, id) OBVIOUS
  <1>4. b.use = k /\ b.id = id /\ b.decl = Meaning(g, s, id) BY <1>2, <1>3 DEF Bound
  <1>5. code \in Seq(TokenType) /\ symbolOf[k] \in DOMAIN gc.heap BY GenFacts
  <1>6. k \in DOMAIN code /\ code[k].t \in {"use", "defer"} BY DEF Names
  <1>7. id \in Ids
    <2>1. code[k] \in TokenType BY <1>5, <1>6
    <2> QED BY <1>1, <1>6, <2>1, TokenFields
  <1>8. Sound(g) /\ DOMAIN gc.heap \subseteq DOMAIN g.heap /\ Keeps(gc, g) /\ Entries(code, globals, g)
    BY DEF Richer, BindInv
  <1>9. CASE Find(g, id) # 0
    <2>1. s = Find(g, id) /\ s \in DOMAIN g.heap BY <1>2, <1>8, <1>9, FindRange
    <2>2. Val(g, s, id) \in Nat BY <1>7, <1>8, <1>9, <2>1, FoundDeclared
    <2>3. Val(g, s, id) # NoSym BY <2>2, LocalAssumption
    <2> QED BY <1>1, <1>2, <1>3, <1>4, <1>6, <1>7, <1>8, <2>1, <2>3
  <1>10. CASE Find(g, id) = 0
    <2>1. s = symbolOf[k] /\ s \in DOMAIN g.heap BY <1>2, <1>5, <1>8, <1>10
    <2>2. symbolOf[k] # 0
      <3>1. Len(gc.heap) \in Nat /\ DOMAIN gc.heap = 1 .. Len(gc.heap)
        <4>1. Sound(gc) BY GenFacts
        <4> QED BY <4>1, Parents
      <3> QED BY <1>5, <3>1
    <2>3. Val(gc, symbolOf[k], id) # NoSym BY <1>1, <2>2 DEF BindInv
    <2>4. Val(g, s, id) # NoSym BY <1>5, <1>7, <1>8, <2>1, <2>3 DEF Keeps
    <2> QED BY <1>1, <1>2, <1>3, <1>4, <1>6, <1>7, <1>8, <2>1, <2>4
  <1> QED BY <1>9, <1>10

LEMMA SeveralOrOne ==
  ASSUME NEW D, NEW m \in D
  PROVE  D = {m} \/ \E j, k \in D : j # k
  OBVIOUS

LEMMA BoundRight ==
  ASSUME IInv, LexInv, BindInv, phase = "gen", NEW g, Richer(code, globals, gc, g), NEW k \in Names(code),
         code[k].t = "use" => k = at /\ g = gc
  PROVE  LET b == Bound(g, k, code[k].id) IN b.use \in DOMAIN code /\ Right(code, globals, errors, b)
  <1>1. PICK id : id = code[k].id OBVIOUS
  <1>2. PICK b : b = Bound(g, k, id) OBVIOUS
  <1>3. PICK s : s = IF Find(g, id) # 0 THEN Find(g, id) ELSE symbolOf[k] OBVIOUS
  <1>4. /\ b.use = k /\ b.id = id /\ b.decl = Meaning(g, s, id)
        /\ s \in DOMAIN g.heap /\ Val(g, s, id) # NoSym /\ Sound(g) /\ Entries(code, globals, g)
        /\ id \in Ids /\ k \in DOMAIN code /\ code[k].t \in {"use", "defer"}
    BY <1>1, <1>2, <1>3, BoundSomewhere
  <1>5. PICK m : m = b.decl OBVIOUS
  <1>6. PICK D : D = DeclaredIn(code, globals, id) OBVIOUS
  <1>7. /\ m \in Seen(code, globals, id) /\ m \in D
        /\ m = Val(g, s, id) \/ (Unrolled(code, m) /\ m # 0)
    <2>1. /\ m \in Seen(code, globals, id) /\ Seen(code, globals, id) \subseteq D
          /\ m = Val(g, s, id) \/ (Unrolled(code, m) /\ m # 0)
      BY <1>4, <1>5, <1>6, MeaningSeen
    <2> QED BY <2>1
  <1>8. code[k].t \notin {"return", "close"} BY <1>4
  <1>9. CASE D = {m}
    <2>1. IsLexical(code, globals, errors, k, id, m) BY <1>1, <1>6, <1>7, <1>9, OneDeclaration
    <2>2. Right(code, globals, errors, b) BY <1>4, <1>5, <1>8, <2>1 DEF Right
    <2> QED BY <1>1, <1>2, <1>4, <2>2
  <1>10. CASE \E x, y \in D : x # y
    <2>1. CASE \E x, y \in D : x # y /\ (code[k].t # "use" \/ (y # 0 /\ OutOfPlace(code, y, id)))
      <3>1. Right(code, globals, errors, b) BY <1>4, <1>6, <2>1 DEF Right
      <3> QED BY <1>1, <1>2, <1>4, <3>1
    <2>2. CASE \A x, y \in D : x # y => code[k].t = "use" /\ (y = 0 \/ ~ OutOfPlace(code, y, id))
      <3>1. code[k].t = "use" /\ k = at /\ g = gc BY <1>10, <2>2
      <3>2. InPlace(code, id)
        <4>1. PICK x, y \in D : x # y BY <1>10
        <4>2. \A v, w \in D : v # w => w = 0 \/ ~ OutOfPlace(code, w, id) BY <2>2
        <4> QED BY <1>4, <1>6, <4>1, <4>2, SeveralInPlace
      <3>3. Find(gc, id) # 0 /\ IsLexical(code, globals, errors, at, id, Val(gc, Find(gc, id), id))
        BY <1>1, <3>1, <3>2, InPlaceRight
      <3>4. s = Find(gc, id) BY <1>3, <3>1, <3>3
      <3>5. m = Val(g, s, id)
        <4> SUFFICES ASSUME Unrolled(code, m), m # 0 PROVE FALSE BY <1>7
        <4>1. m \in DOMAIN code /\ DeclaresIn(code, m, id) BY <1>6, <1>7 DEF DeclaredIn
        <4>2. ~ OutOfPlace(code, m, id) BY <3>2, <4>1 DEF InPlace
        <4> QED BY <4>2 DEF OutOfPlace, Unrolled, Loops
      <3>6. IsLexical(code, globals, errors, k, id, m) BY <3>1, <3>3, <3>4, <3>5
      <3>7. Right(code, globals, errors, b) BY <1>4, <1>5, <1>8, <3>6 DEF Right
      <3> QED BY <1>1, <1>2, <1>4, <3>7
    <2> QED BY <2>1, <2>2
  <1> QED BY <1>7, <1>9, <1>10, SeveralOrOne

LEMMA BoundAllRight ==
  ASSUME IInv, LexInv, BindInv, phase = "gen", NEW g, Richer(code, globals, gc, g),
         NEW ds \in SUBSET defers, NEW b \in BoundAll(g, ds)
  PROVE  b.use \in DOMAIN code /\ Right(code, globals, errors, b)
  <1>1. PICK x \in ds : b = Bound(g, x.node, code[x.node].id) BY DEF BoundAll
  <1>2. x.node \in Names(code) BY GenFacts
  <1>3. code[x.node].t = "defer" BY DEF BindInv
  <1> QED BY <1>1, <1>2, <1>3, BoundRight

\* A named result is found in the scope of the signature.
LEMMA ResultRight ==
  ASSUME IInv, LexInv, BindInv, phase = "gen", at \in DOMAIN code, code[at].t \in {"return", "close"},
         NEW g, Richer(code, globals, gc, g), NEW S, NEW q, GenLevels(g, code, globals, S, at, q),
         \A p \in In(code, at, {"proc"}) : (\A j \in In(code, at, {"proc"}) : j <= p) => 2 * p \in S,
         NEW b \in Result(g, at)
  PROVE  b.use \in DOMAIN code /\ Right(code, globals, errors, b)
  <1>1. /\ code \in Seq(TokenType) /\ WellNested(code) /\ OneProcedure(code) BY GenFacts DEF BindInv
  <1>2. PICK P : P = In(code, at, {"proc"}) OBVIOUS
  <1>3. P \subseteq 1 .. Len(code) /\ Len(code) \in Nat /\ \A p \in P : p \in DOMAIN code /\ code[p].t = "open"
    BY <1>1, <1>2 DEF In, Encl
  <1>4. at # 1 BY <1>1 DEF OneProcedure
  <1>5. P # {} BY <1>1, <1>2, <1>4, OneFacts
  <1>6. PICK p \in P : p = Greatest(P) /\ \A j \in P : j <= p BY <1>3, <1>5, GreatestFacts
  <1>7. Result(g, at) = IF code[p].result = NoId THEN {}
                        ELSE {[use |-> at, id |-> code[p].result, decl |-> Meaning(g, Find(g, code[p].result), code[p].result),
                               dangling |-> FALSE]}
    <2>1. {k \in Around(at) : code[k].kind = "proc"} = P
      <3>1. {k \in Encl(code, at) : code[k].kind = "proc"} = P BY <1>2 DEF In
      <3> QED BY <3>1, TextNames
    <2>2. Greatest(P) = CHOOSE k \in P : \A j \in P : j <= k BY <1>5 DEF Greatest
    <2>3. p = CHOOSE k \in P : \A j \in P : j <= k BY <1>6, <2>2
    <2> QED BY <2>1, <2>3, Zenon DEF Result
  <1>8. PICK id : id = code[p].result OBVIOUS
  <1>9. id # NoId /\ b.use = at /\ b.id = id /\ b.decl = Meaning(g, Find(g, id), id) BY <1>7, <1>8
  <1>10. id \in Ids BY <1>1, <1>3, <1>8, <1>9, OpenToken
  <1>11. Sound(g) /\ Entries(code, globals, g) BY DEF Richer, BindInv
  <1>12. Find(g, id) # 0
    <2>1. 2 * p \in S BY <1>2, <1>6
    <2>2. PICK n \in 1 .. Len(q) : q[n] = 2 * p BY <2>1 DEF GenLevels, Ascending
    <2>3. Val(g, g.scopes[n], id) # NoSym BY <1>3, <1>8, <1>9, <2>2 DEF GenLevels
    <2>4. Len(q) = Len(g.scopes) /\ Len(q) \in Nat BY DEF GenLevels
    <2>5. FoundIn(g, id, Len(g.scopes)) /\ Find(g, id) = FoundFrom(g, id)[ScopeAt(g, Len(g.scopes))]
      BY <1>10, <1>11, FindVal
    <2>6. n \in 0 .. Len(g.scopes) /\ ScopeAt(g, n) = g.scopes[n] BY <2>4 DEF ScopeAt
    <2>7. ~ \A j \in 0 .. Len(g.scopes) : Val(g, ScopeAt(g, j), id) = NoSym BY <2>3, <2>6
    <2>8. PICK m \in 0 .. Len(g.scopes) : Find(g, id) = ScopeAt(g, m) BY <2>5, <2>7 DEF FoundIn
    <2>9. ScopeAt(g, m) \in DOMAIN g.heap /\ DOMAIN g.heap = 1 .. Len(g.heap) BY <1>11, ScopesDiffer, Parents
    <2> QED BY <2>8, <2>9
  <1>13. Find(g, id) \in DOMAIN g.heap BY <1>11, <1>12, FindRange
  <1>14. Val(g, Find(g, id), id) # NoSym
    <2>1. Val(g, Find(g, id), id) \in Nat BY <1>10, <1>11, <1>12, FoundDeclared
    <2> QED BY <2>1, LocalAssumption
  <1>15. PICK D : D = DeclaredIn(code, globals, id) OBVIOUS
  <1>16. b.decl \in D
    <2>1. Meaning(g, Find(g, id), id) \in Seen(code, globals, id) /\ Seen(code, globals, id) \subseteq D
      BY <1>10, <1>11, <1>13, <1>14, <1>15, MeaningSeen
    <2> QED BY <1>9, <2>1
  <1>17. p \in D
    <2>1. DeclaresIn(code, p, id) BY <1>3, <1>8 DEF DeclaresIn
    <2> QED BY <1>3, <1>15, <2>1 DEF DeclaredIn
  <1>18. CASE b.decl = p
    <2>1. ResultAt(code, at, id, p) BY <1>2, <1>6, <1>8 DEF ResultAt
    <2> QED BY <1>9, <1>18, <2>1 DEF Right
  <1>19. CASE b.decl # p
    <2>1. \E j, k \in DeclaredIn(code, globals, b.id) : j # k BY <1>9, <1>15, <1>16, <1>17, <1>19
    <2>2. code[b.use].t # "use" BY <1>9
    <2> QED BY <1>9, <2>1, <2>2 DEF Right
  <1> QED BY <1>18, <1>19

-----------------------------------------------------------------------------
(* BindInv, step by step.                                                  *)

LEMMA NamesKept ==
  ASSUME IInv, BindInv, phase \in {"sem", "gen"}, NEW g, Richer(code, globals, gc, g), NEW k \in Names(code), symbolOf[k] # 0
  PROVE  Val(g, symbolOf[k], code[k].id) # NoSym
  <1>1. k \in DOMAIN code /\ code[k].t \in {"use", "defer"} BY DEF Names
  <1>2. code[k] \in TokenType BY <1>1 DEF IInv, TextInv
  <1>3. code[k].id \in Ids BY <1>1, <1>2, TokenFields
  <1>4. symbolOf[k] \in DOMAIN gc.heap BY <1>1 DEF IInv, ResolvedInv
  <1>5. Val(gc, symbolOf[k], code[k].id) # NoSym BY DEF BindInv
  <1> QED BY <1>3, <1>4, <1>5 DEF Richer, Keeps

\* A step of the analyser that only adds to the scopes.
LEMMA BindSem ==
  ASSUME IInv, BindInv, phase = "sem", phase' = "sem", UNCHANGED <<globals, code, symbolOf, genVars>>,
         Richer(code, globals, gc, gc')
  PROVE  BindInv'
  <1>1. globals \subseteq Named /\ OneProcedure(code) /\ (\A x \in defers : code[x.node].t = "defer") /\ made = {}
        /\ Entries(code, globals, gc)
    BY DEF BindInv
  <1>2. Entries(code, globals, gc') BY <1>1 DEF Richer
  <1>3. \A k \in Names(code) : symbolOf[k] # 0 => Val(gc', symbolOf[k], code[k].id) # NoSym BY NamesKept
  <1>4. /\ globals' = globals /\ code' = code /\ symbolOf' = symbolOf /\ defers' = defers /\ made' = made
        /\ phase' = "sem"
    BY DEF genVars
  <1> QED BY <1>1, <1>2, <1>3, <1>4 DEF BindInv

\* A step of the generator.
LEMMA BindGen ==
  ASSUME IInv, BindInv, phase = "gen", phase' = "gen", UNCHANGED <<globals, code, semVars>>,
         Richer(code, globals, gc, gc'),
         \E q \in Seq(Nat) : GenLevels(gc', code, globals, Marks(code, at'), at', q),
         \A x \in defers' : code[x.node].t = "defer",
         \A b \in made' : b \in made \/ (b.use \in DOMAIN code /\ Right(code, globals, errors, b))
  PROVE  BindInv'
  <1>1. globals \subseteq Named /\ OneProcedure(code) /\ Entries(code, globals, gc)
        /\ \A b \in made : b.use \in DOMAIN code /\ Right(code, globals, errors, b)
    BY DEF BindInv
  <1>2. Entries(code, globals, gc') BY <1>1 DEF Richer
  <1>3. \A k \in Names(code) : symbolOf[k] # 0 => Val(gc', symbolOf[k], code[k].id) # NoSym BY NamesKept
  <1>4. /\ globals' = globals /\ code' = code /\ symbolOf' = symbolOf /\ errors' = errors
        /\ phase' = "gen"
    BY DEF semVars
  <1>5. \A b \in made' : b.use \in DOMAIN code /\ Right(code, globals, errors, b) BY <1>1
  <1> QED BY <1>1, <1>2, <1>3, <1>4, <1>5 DEF BindInv

\* After the walks.
LEMMA BindLater ==
  ASSUME BindInv, UNCHANGED <<globals, code, errors, defers, made>>, phase' \notin {"sem", "gen"}
  PROVE  BindInv'
  BY DEF BindInv

LEMMA BindStutter == ASSUME BindInv, UNCHANGED vars PROVE BindInv'
  BY DEF BindInv, vars

\* The analyser.
LEMMA SemHere ==
  ASSUME IInv, phase = "sem", at <= Len(code)
  PROVE  code \in Seq(TokenType) /\ WellNested(code) /\ at \in DOMAIN code /\ at \in Nat /\ Sound(gc) /\ Token = code[at]
  <1>1. code \in Seq(TokenType) /\ WellNested(code) /\ at \in 1 .. Len(code) + 1 BY DEF IInv, TextInv
  <1>2. at \in DOMAIN code /\ at \in Nat BY <1>1
  <1>3. Sound(gc) BY DEF IInv, CtxInv
  <1> QED BY <1>1, <1>2, <1>3 DEF Token

LEMMA BindDeclares ==
  ASSUME IInv, BindInv, phase = "sem", phase' = "sem", UNCHANGED <<globals, code, symbolOf, genVars>>, at <= Len(code),
         Token.t \in {"var", "const"}, ~ LeftOut(code, at), gc' = AddedHere(gc, Token.id, at)
  PROVE  BindInv'
  <1>1. code \in Seq(TokenType) /\ at \in DOMAIN code /\ at \in Nat /\ Sound(gc) /\ Token = code[at] BY SemHere
  <1>2. code[at] \in TokenType BY <1>1
  <1>3. Token.id \in Ids BY <1>1, <1>2, TokenFields
  <1>4. at \in Seen(code, globals, Token.id)
    <2>1. DeclaresIn(code, at, Token.id) BY <1>1 DEF DeclaresIn
    <2> QED BY <1>1, <2>1, SeenHere
  <1>5. Richer(code, globals, gc, gc') BY <1>1, <1>3, <1>4, RicherHere
  <1> QED BY <1>5, BindSem

LEMMA BindSame ==
  ASSUME IInv, BindInv, phase = "sem", phase' = "sem", UNCHANGED <<globals, code, symbolOf, genVars, gc>>
  PROVE  BindInv'
  <1>1. Sound(gc) BY DEF IInv, CtxInv
  <1>2. Richer(code, globals, gc, gc') BY <1>1, RicherSame
  <1> QED BY <1>2, BindSem

LEMMA BindVar == ASSUME IInv, BindInv, SemVar PROVE BindInv'
  <1>1. phase = "sem" /\ phase' = "sem" /\ UNCHANGED <<globals, code, symbolOf, genVars>> /\ at <= Len(code) /\ Token.t = "var"
    BY DEF SemVar, AtSem
  <1>2. CASE gc' = gc BY <1>1, <1>2, BindSame
  <1>3. CASE gc' = AddedHere(gc, Token.id, at)
    <2>1. ~ LeftOut(code, at) BY <1>1 DEF LeftOut, Token
    <2> QED BY <1>1, <1>3, <2>1, BindDeclares
  <1> QED BY <1>2, <1>3 DEF SemVar

LEMMA BindConst == ASSUME IInv, BindInv, SemConst PROVE BindInv'
  <1>1. phase = "sem" /\ phase' = "sem" /\ UNCHANGED <<globals, code, symbolOf, genVars>> /\ at <= Len(code) /\ Token.t = "const"
    BY DEF SemConst, AtSem, semVars
  <1>2. CASE LeftOut(code, at)
    <2>1. gc' = gc BY <1>2, TextNames DEF SemConst
    <2> QED BY <1>1, <2>1, BindSame
  <1>3. CASE ~ LeftOut(code, at)
    <2>1. gc' = AddedHere(gc, Token.id, at) BY <1>3, TextNames DEF SemConst
    <2> QED BY <1>1, <1>3, <2>1, BindDeclares
  <1> QED BY <1>2, <1>3

LEMMA BindReturn == ASSUME IInv, BindInv, SemReturn PROVE BindInv'
  BY BindSame DEF SemReturn, AtSem, semVars

LEMMA BindUse == ASSUME IInv, BindInv, SemUse PROVE BindInv'
  <1>1. /\ phase = "sem" /\ phase' = "sem" /\ UNCHANGED <<globals, code, gc, genVars>> /\ at <= Len(code)
        /\ Token.t \in {"use", "defer"}
    BY DEF SemUse, AtSem
  <1>2. CASE symbolOf' = symbolOf BY <1>1, <1>2, BindSame
  <1>3. CASE Find(gc, Token.id) # 0 /\ symbolOf' = [symbolOf EXCEPT ![at] = Find(gc, Token.id)]
    <2>1. code \in Seq(TokenType) /\ at \in DOMAIN code /\ at \in Nat /\ Sound(gc) /\ Token = code[at] BY <1>1, SemHere
    <2>2. code[at] \in TokenType BY <2>1
    <2>3. Token.id \in Ids BY <1>1, <2>1, <2>2, TokenFields
    <2>4. Val(gc, Find(gc, Token.id), Token.id) # NoSym
      <3>1. Val(gc, Find(gc, Token.id), Token.id) \in Nat BY <1>3, <2>1, <2>3, FoundDeclared
      <3> QED BY <3>1, LocalAssumption
    <2>5. symbolOf \in [DOMAIN code -> Nat] BY DEF IInv, ResolvedInv
    <2>6. symbolOf'[at] = Find(gc, Token.id) /\ \A k \in DOMAIN code : k # at => symbolOf'[k] = symbolOf[k]
      BY <1>3, <2>1, <2>5
    <2>7. globals \subseteq Named /\ OneProcedure(code) /\ (\A x \in defers : code[x.node].t = "defer") /\ made = {}
          /\ Entries(code, globals, gc)
      BY <1>1 DEF BindInv
    <2>8. \A k \in Names(code) : symbolOf'[k] # 0 => Val(gc, symbolOf'[k], code[k].id) # NoSym
      <3> SUFFICES ASSUME NEW k \in Names(code), symbolOf'[k] # 0 PROVE Val(gc, symbolOf'[k], code[k].id) # NoSym OBVIOUS
      <3>1. CASE k = at BY <2>1, <2>4, <2>6, <3>1
      <3>2. CASE k # at
        <4>1. k \in DOMAIN code BY DEF Names
        <4>2. symbolOf'[k] = symbolOf[k] BY <2>6, <3>2, <4>1
        <4> QED BY <1>1, <4>2 DEF BindInv
      <3> QED BY <3>1, <3>2
    <2>9. globals' = globals /\ code' = code /\ gc' = gc /\ defers' = defers /\ made' = made BY <1>1 DEF genVars
    <2> QED BY <1>1, <2>7, <2>8, <2>9 DEF BindInv
  <1> QED BY <1>2, <1>3 DEF SemUse

LEMMA BindOpen == ASSUME IInv, BindInv, SemOpen PROVE BindInv'
  <1>1. /\ phase = "sem" /\ phase' = "sem" /\ UNCHANGED <<globals, code, symbolOf, genVars>> /\ at <= Len(code)
        /\ Token.t = "open"
    BY DEF SemOpen, AtSem, semVars
  <1>2. code \in Seq(TokenType) /\ at \in DOMAIN code /\ Sound(gc) /\ Token = code[at] BY <1>1, SemHere
  <1>3. CASE LeftOut(code, at)
    <2>1. gc' = gc BY <1>3, TextNames DEF SemOpen
    <2> QED BY <1>1, <2>1, BindSame
  <1>4. CASE ~ LeftOut(code, at)
    <2>1. gc' = IF Token.kind = "proc" THEN ProcScope(gc, at) ELSE StmtScope(gc, at) BY <1>4, TextNames DEF SemOpen
    <2>2. Richer(code, globals, gc, gc')
      <3>1. CASE Token.kind = "proc" BY <1>1, <1>2, <1>4, <2>1, <3>1, RicherProc
      <3>2. CASE Token.kind # "proc" BY <1>1, <1>2, <1>4, <2>1, <3>2, RicherStmt
      <3> QED BY <3>1, <3>2
    <2> QED BY <1>1, <2>2, BindSem
  <1> QED BY <1>3, <1>4

LEMMA BindClose == ASSUME IInv, BindInv, SemClose PROVE BindInv'
  <1>1. /\ phase = "sem" /\ phase' = "sem" /\ UNCHANGED <<globals, code, symbolOf, genVars>> /\ at <= Len(code)
        /\ Token.t = "close"
    BY DEF SemClose, AtSem, semVars
  <1>2. /\ code \in Seq(TokenType) /\ WellNested(code) /\ at \in DOMAIN code /\ Sound(gc) /\ Token = code[at] BY <1>1, SemHere
  <1>3. PICK k : k = InnerOf(code, at) OBVIOUS
  <1>4. k \in Encl(code, at) /\ k \in DOMAIN code /\ code[k].t = "open" BY <1>1, <1>2, <1>3, CloseFacts
  <1>5. ~ LeftOut(code, k) BY <1>1, <1>4 DEF IInv, ResolvedInv, Reached
  <1>6. PICK g \in Popped(gc) : gc' = IF code[k].kind = "proc" THEN AddedHere(g, code[k].id, k) ELSE g
    BY <1>3, TextNames DEF SemClose
  <1>7. Richer(code, globals, gc, g) /\ Sound(g) BY <1>2, RicherPopped DEF Richer
  <1>8. Richer(code, globals, g, AddedHere(g, code[k].id, k)) BY <1>2, <1>4, <1>5, <1>7, RicherStmt
  <1>9. Richer(code, globals, gc, gc') BY <1>6, <1>7, <1>8, RicherTrans
  <1> QED BY <1>1, <1>9, BindSem

\* The generator starts below the global scope.
LEMMA GenStarts ==
  ASSUME NEW c \in Seq(TokenType), WellNested(c), NEW G, NEW g, g.scopes = <<>>,
         \A id \in Ids : InPlace(c, id) => Val(g, 1, id) = Want(c, G, Len(c) + 1, {}, id, 0)
  PROVE  \E q \in Seq(Nat) : GenLevels(g, c, G, Marks(c, 1), 1, q)
  <1>1. PICK q : q = <<>> OBVIOUS
  <1>2. q \in Seq(Nat) /\ Len(q) = 0 /\ Len(q) = Len(g.scopes) BY <1>1
  <1>3. Marks(c, 1) = {} BY EnclEnds DEF Marks
  <1>4. \A n \in 1 .. Len(q) : FALSE BY <1>2
  <1>5. Ascending(q, Marks(c, 1)) BY <1>3, <1>4 DEF Ascending
  <1>6. GenLevels(g, c, G, Marks(c, 1), 1, q) BY <1>2, <1>4, <1>5 DEF GenLevels
  <1> QED BY <1>2, <1>6

LEMMA BindEnd == ASSUME IInv, LexInv, BindInv, SemEnd PROVE BindInv'
  <1>1. /\ phase = "sem" /\ at > Len(code) /\ at' = 1
        /\ phase' = "destroy" \/ (errors = {} /\ phase' = "gen")
        /\ UNCHANGED <<globals, code, gc, symbolOf, errors, defers, made>>
    BY DEF SemEnd, semVars, genVars
  <1>2. CASE phase' = "destroy" BY <1>1, <1>2, BindLater
  <1>3. CASE errors = {} /\ phase' = "gen"
    <2>1. code \in Seq(TokenType) /\ WellNested(code) /\ at = Len(code) + 1 /\ Len(code) \in Nat
      BY <1>1 DEF IInv, TextInv
    <2>2. gc.scopes = <<>>
      <3>1. Cardinality(Encl(code, at)) = 0 BY <2>1, EnclEnds, FS_EmptySet
      <3>2. Len(gc.scopes) = 0 /\ gc.scopes \in Seq(Nat) BY <1>1, <3>1, SemFacts, CtxFields DEF Sound
      <3> QED BY <3>2
    <2>3. PICK os \in Seq(Nat) : Levels(gc, code, globals, at, errors, os) BY <1>1, LexFacts
    <2>4. ASSUME NEW id \in Ids, InPlace(code, id)
          PROVE  Val(gc, 1, id) = Want(code, globals, Len(code) + 1, {}, id, 0)
      <3>1. ~ HiddenIn(code, id) BY <2>1, <2>4, InPlaceFacts DEF HiddenIn
      <3>2. 0 \in 0 .. Len(os) /\ ScopeAt(gc, 0) = 1 /\ OpenAt(os, 0) = 0 BY <2>3 DEF ScopeAt, OpenAt
      <3>3. Val(gc, ScopeAt(gc, 0), id) = Want(code, globals, at, errors, id, OpenAt(os, 0))
        BY <2>3, <3>1, <3>2 DEF Levels
      <3> QED BY <1>3, <2>1, <3>2, <3>3
    <2>5. \E q \in Seq(Nat) : GenLevels(gc, code, globals, Marks(code, 1), 1, q) BY <2>1, <2>2, <2>4, GenStarts
    <2>6. /\ globals \subseteq Named /\ OneProcedure(code) /\ (\A x \in defers : code[x.node].t = "defer")
          /\ made = {} /\ Entries(code, globals, gc)
          /\ \A k \in Names(code) : symbolOf[k] # 0 => Val(gc, symbolOf[k], code[k].id) # NoSym
      BY <1>1 DEF BindInv
    <2> QED BY <1>1, <1>3, <2>5, <2>6 DEF BindInv
  <1> QED BY <1>1, <1>2, <1>3

\* The generator's part of the invariant, spelled out.
LEMMA BindFacts ==
  ASSUME IInv, BindInv, phase = "gen"
  PROVE  /\ code \in Seq(TokenType) /\ WellNested(code) /\ OneProcedure(code) /\ Sound(gc)
         /\ \A x \in defers : code[x.node].t = "defer"
         /\ \E q \in Seq(Nat) : GenLevels(gc, code, globals, Marks(code, at), at, q)
         /\ Richer(code, globals, gc, gc)
  <1>1. code \in Seq(TokenType) /\ WellNested(code) /\ Sound(gc) BY GenFacts
  <1> QED BY <1>1, RicherSame DEF BindInv

\* A step over a token that declares nothing.
LEMMA BindQuiet ==
  ASSUME IInv, BindInv, phase = "gen", phase' = "gen", at <= Len(code), at' = at + 1,
         UNCHANGED <<globals, code, semVars, gc>>, Token.t \in {"const", "use", "defer", "return"},
         \A x \in defers' : code[x.node].t = "defer",
         \A b \in made' : b \in made \/ (b.use \in DOMAIN code /\ Right(code, globals, errors, b))
  PROVE  BindInv'
  <1>1. code \in Seq(TokenType) /\ WellNested(code) /\ Sound(gc) /\ Richer(code, globals, gc, gc) BY BindFacts
  <1>2. at \in DOMAIN code /\ Token = code[at] BY GenFacts, NextToken
  <1>3. PICK q \in Seq(Nat) : GenLevels(gc, code, globals, Marks(code, at), at, q) BY BindFacts
  <1>4. GenLevels(gc, code, globals, Marks(code, at'), at', q) BY <1>1, <1>2, <1>3, GenQuiet
  <1>5. GenLevels(gc', code, globals, Marks(code, at'), at', q) /\ Richer(code, globals, gc, gc') BY <1>1, <1>4
  <1> QED BY <1>5, BindGen

LEMMA BindGenConst == ASSUME IInv, BindInv, GenConst PROVE BindInv'
  <1>1. /\ phase = "gen" /\ phase' = "gen" /\ at <= Len(code) /\ at' = at + 1 /\ Token.t = "const"
        /\ UNCHANGED <<globals, code, semVars, gc, defers, made>>
    BY DEF GenConst, AtGen, genVars
  <1>2. \A x \in defers' : code[x.node].t = "defer" BY <1>1, BindFacts
  <1> QED BY <1>1, <1>2, BindQuiet

LEMMA BindGenDefer == ASSUME IInv, BindInv, GenDefer PROVE BindInv'
  <1>1. /\ phase = "gen" /\ phase' = "gen" /\ at <= Len(code) /\ at' = at + 1 /\ Token.t = "defer"
        /\ UNCHANGED <<globals, code, semVars, gc, made>> /\ defers' = defers \cup {[node |-> at, depth |-> depth]}
    BY DEF GenDefer, AtGen
  <1>2. \A x \in defers' : code[x.node].t = "defer" BY <1>1, BindFacts DEF Token
  <1> QED BY <1>1, <1>2, BindQuiet

LEMMA BindGenUse == ASSUME IInv, LexInv, BindInv, GenUse PROVE BindInv'
  <1>1. /\ phase = "gen" /\ phase' = "gen" /\ at <= Len(code) /\ at' = at + 1 /\ Token.t = "use"
        /\ UNCHANGED <<globals, code, semVars, gc, defers>> /\ made' = made \cup {Bound(gc, at, Token.id)}
    BY DEF GenUse, AtGen
  <1>2. \A x \in defers' : code[x.node].t = "defer" BY <1>1, BindFacts
  <1>3. at \in Names(code) /\ Richer(code, globals, gc, gc) BY <1>1, NameHere, BindFacts
  <1>4. PICK b : b = Bound(gc, at, code[at].id) OBVIOUS
  <1>5. b.use \in DOMAIN code /\ Right(code, globals, errors, b) BY <1>1, <1>3, <1>4, BoundRight
  <1>6. made' = made \cup {b} BY <1>1, <1>4 DEF Token
  <1> QED BY <1>1, <1>2, <1>5, <1>6, BindQuiet

\* The named result is kept in the scope of the signature.
LEMMA ResultMark ==
  ASSUME NEW c \in Seq(TokenType), NEW u
  PROVE  \A p \in In(c, u, {"proc"}) : 2 * p \in Marks(c, u)
  BY DEF Marks

LEMMA BindGenReturn == ASSUME IInv, LexInv, BindInv, GenReturn PROVE BindInv'
  <1>1. /\ phase = "gen" /\ phase' = "gen" /\ at <= Len(code) /\ at' = at + 1 /\ Token.t = "return"
        /\ UNCHANGED <<globals, code, semVars, gc>> /\ defers' = {}
        /\ made' = made \cup BoundAll(gc, defers) \cup Result(gc, at)
    BY DEF GenReturn, AtGen
  <1>2. at \in DOMAIN code /\ code[at].t = "return" BY <1>1, GenFacts, NextToken
  <1>3. code \in Seq(TokenType) /\ Richer(code, globals, gc, gc) BY <1>1, BindFacts
  <1>4. PICK q \in Seq(Nat) : GenLevels(gc, code, globals, Marks(code, at), at, q) BY <1>1, BindFacts
  <1>5. \A p \in In(code, at, {"proc"}) : 2 * p \in Marks(code, at) BY <1>3, ResultMark
  <1>6. ASSUME NEW b \in made', b \notin made PROVE b.use \in DOMAIN code /\ Right(code, globals, errors, b)
    <2>1. CASE b \in BoundAll(gc, defers) BY <1>1, <1>3, <2>1, BoundAllRight
    <2>2. CASE b \in Result(gc, at) BY <1>1, <1>2, <1>3, <1>4, <1>5, <2>2, ResultRight
    <2> QED BY <1>1, <1>6, <2>1, <2>2
  <1> QED BY <1>1, <1>6, BindQuiet

LEMMA BindGenVar == ASSUME IInv, BindInv, GenVar PROVE BindInv'
  <1>1. /\ phase = "gen" /\ phase' = "gen" /\ at <= Len(code) /\ at' = at + 1 /\ Token.t = "var"
        /\ UNCHANGED <<globals, code, semVars, defers, made>> /\ gc' = AddedHere(gc, Token.id, at)
    BY DEF GenVar, AtGen
  <1>2. /\ code \in Seq(TokenType) /\ WellNested(code) /\ OneProcedure(code) /\ Sound(gc)
        /\ \A x \in defers' : code[x.node].t = "defer"
    BY <1>1, BindFacts
  <1>3. /\ at \in DOMAIN code /\ at \in Nat /\ Token = code[at] /\ Token \in TokenType
        /\ Encl(code, at + 1) = Encl(code, at)
    BY <1>1, GenFacts, NextToken
  <1>4. code[at].id \in Ids BY <1>1, <1>3, TokenFields
  <1>5. PICK q \in Seq(Nat) : GenLevels(gc, code, globals, Marks(code, at), at, q) BY <1>1, BindFacts
  <1>6. PICK h : h = AddedHere(gc, code[at].id, at) OBVIOUS
  <1>7. gc' = h BY <1>1, <1>3, <1>6
  <1>8. Richer(code, globals, gc, h)
    <2>1. at \in Seen(code, globals, code[at].id)
      <3>1. DeclaresIn(code, at, code[at].id) /\ ~ LeftOut(code, at) BY <1>1, <1>3 DEF DeclaresIn, LeftOut
      <3> QED BY <1>3, <3>1, SeenHere
    <2> QED BY <1>2, <1>3, <1>4, <1>6, <2>1, RicherHere
  <1>9. h.scopes = gc.scopes BY <1>2, <1>3, <1>4, <1>6, AddedHereShape DEF SameShape
  <1>10. OneVal(gc, h, Current(gc), code[at].id, at)
    <2>1. code[at].id # NoId BY <1>4, LocalAssumption
    <2> QED BY <1>2, <1>3, <1>4, <1>6, <2>1, AddedHereVal
  <1>11. GenLevels(h, code, globals, Marks(code, at), at + 1, q)
    BY <1>1, <1>2, <1>3, <1>4, <1>5, <1>9, <1>10, GenDeclare
  <1>12. Marks(code, at + 1) = Marks(code, at) BY <1>3, MarksSame
  <1>13. \E r \in Seq(Nat) : GenLevels(gc', code, globals, Marks(code, at'), at', r) BY <1>1, <1>7, <1>11, <1>12
  <1> QED BY <1>1, <1>2, <1>7, <1>8, <1>13, BindGen

\* A step of the generator into, over or out of a statement: what changes.
LEMMA BindMoves ==
  ASSUME IInv, BindInv, phase = "gen", phase' = "gen", UNCHANGED <<globals, code, semVars>>,
         Richer(code, globals, gc, gc'),
         \E q \in Seq(Nat) : GenLevels(gc', code, globals, Marks(code, at'), at', q),
         defers' \in SUBSET defers,
         \A b \in made' : b \in made \/ (b.use \in DOMAIN code /\ Right(code, globals, errors, b))
  PROVE  BindInv'
  <1>1. \A x \in defers' : code[x.node].t = "defer" BY BindFacts
  <1> QED BY <1>1, BindGen

\* The variable of a loop, where the generator puts it.
LEMMA LoopVarAdded ==
  ASSUME code \in Seq(TokenType), NEW k \in DOMAIN code, code[k].t = "open", code[k].kind # "proc",
         ~ LeftOut(code, k), NEW G, NEW g, Sound(g)
  PROVE  LET h == AddedHere(g, code[k].id, k)
         IN  /\ Richer(code, G, g, h) /\ Sound(h) /\ h.scopes = g.scopes
             /\ SameInPlace(code, g, h) /\ Keeps(g, h)
  <1>1. k \in Nat /\ code[k].id \in Ids \cup {NoId} BY OpenToken
  <1>2. PICK h : h = AddedHere(g, code[k].id, k) OBVIOUS
  <1>3. Richer(code, G, g, h) BY <1>2, RicherStmt
  <1>4. h.scopes = g.scopes BY <1>1, <1>2, AddedHereShape DEF SameShape
  <1>5. h = g \/ OneVal(g, h, Current(g), code[k].id, k) BY <1>1, <1>2, AddedHereVal
  <1>6. h = g \/ \A t \in DOMAIN g.heap, i \in Ids : i # code[k].id => Val(h, t, i) = Val(g, t, i)
    BY <1>5 DEF OneVal
  <1>7. SameInPlace(code, g, h) BY <1>6, LoopVarKept
  <1> QED BY <1>2, <1>3, <1>4, <1>7 DEF Richer

\* What entering a statement does to the context, by the statement's kind.
LEMMA GenOpens ==
  ASSUME code \in Seq(TokenType), WellNested(code), OneProcedure(code), NEW k \in DOMAIN code, code[k].t = "open",
         ~ LeftOut(code, k), NEW G, NEW g, Sound(g), NEW q, GenLevels(g, code, G, Marks(code, k), k, q),
         NEW h, h = CASE code[k].kind = "proc"   -> GenProcScopes(g, k)
                      [] code[k].kind = "loop"   -> Pushed(AddedHere(g, code[k].id, k))
                      [] code[k].kind = "unroll" -> Pushed(MarkedConst(g, k))
                      [] code[k].kind = "loopdo" -> AddedHere(g, code[k].id, k)
                      [] code[k].kind = "do"     -> g
                      [] OTHER                   -> Pushed(g)
  PROVE  Richer(code, G, g, h) /\ \E r \in Seq(Nat) : GenLevels(h, code, G, Marks(code, k + 1), k + 1, r)
  <1>1. CASE code[k].kind = "proc"
    <2>1. h = GenProcScopes(g, k) BY <1>1
    <2> QED BY <1>1, <2>1, GenProc
  <1>2. CASE code[k].kind = "loop"
    <2>1. PICK i : i = AddedHere(g, code[k].id, k) OBVIOUS
    <2>2. h = Pushed(i) BY <1>2, <2>1
    <2>3. Sound(i) /\ i.scopes = g.scopes /\ SameInPlace(code, g, i) /\ Keeps(g, i) BY <1>2, <2>1, LoopVarAdded
    <2>4. \E r \in Seq(Nat) : GenLevels(Pushed(i), code, G, Marks(code, k + 1), k + 1, r) BY <1>2, <2>3, GenEnters
    <2>5. Richer(code, G, g, Pushed(i)) BY <2>1, RicherStmt
    <2> QED BY <2>2, <2>4, <2>5
  <1>3. CASE code[k].kind = "unroll"
    <2>1. PICK i : i = MarkedConst(g, k) OBVIOUS
    <2>2. h = Pushed(i) BY <1>3, <2>1
    <2>3. /\ Richer(code, G, g, i) /\ i.scopes = g.scopes
          /\ \A t \in DOMAIN g.heap, j \in Ids : j # code[k].id => Val(i, t, j) = Val(g, t, j)
      BY <1>3, <2>1, RicherMarked
    <2>4. SameInPlace(code, g, i) BY <1>3, <2>3, LoopVarKept
    <2>5. Sound(i) /\ Keeps(g, i) BY <2>3 DEF Richer
    <2>6. \E r \in Seq(Nat) : GenLevels(Pushed(i), code, G, Marks(code, k + 1), k + 1, r)
      BY <1>3, <2>3, <2>4, <2>5, GenEnters
    <2>7. Richer(code, G, i, Pushed(i)) BY <2>5, RicherPushed
    <2>8. Richer(code, G, g, Pushed(i)) BY <2>3, <2>7, RicherTrans
    <2> QED BY <2>2, <2>6, <2>8
  <1>4. CASE code[k].kind = "loopdo"
    <2>1. h = AddedHere(g, code[k].id, k) BY <1>4
    <2>2. Richer(code, G, g, h) /\ Sound(h) /\ h.scopes = g.scopes /\ SameInPlace(code, g, h) /\ Keeps(g, h)
      BY <1>4, <2>1, LoopVarAdded
    <2>3. \E r \in Seq(Nat) : GenLevels(h, code, G, Marks(code, k + 1), k + 1, r) BY <1>4, <2>2, GenEnters
    <2> QED BY <2>2, <2>3
  <1>5. CASE code[k].kind = "do"
    <2>1. h = g BY <1>5
    <2>2. SameInPlace(code, g, g) /\ Keeps(g, g) BY KeptScopes
    <2>3. \E r \in Seq(Nat) : GenLevels(g, code, G, Marks(code, k + 1), k + 1, r) BY <1>5, <2>2, GenEnters
    <2> QED BY <2>1, <2>3, RicherSame
  <1>6. CASE code[k].kind \notin {"proc", "loop", "unroll", "loopdo", "do"}
    <2>1. h = Pushed(g) BY <1>6
    <2>2. SameInPlace(code, g, g) /\ Keeps(g, g) BY KeptScopes
    <2>3. \E r \in Seq(Nat) : GenLevels(Pushed(g), code, G, Marks(code, k + 1), k + 1, r) BY <1>6, <2>2, GenEnters
    <2> QED BY <2>1, <2>3, RicherPushed
  <1> QED BY <1>1, <1>2, <1>3, <1>4, <1>5, <1>6

LEMMA BindGenOpen == ASSUME IInv, BindInv, GenOpen PROVE BindInv'
  <1>1. /\ phase = "gen" /\ phase' = "gen" /\ at <= Len(code) /\ at' = at + 1 /\ Token.t = "open"
        /\ ~ LeftOut(code, at) /\ UNCHANGED <<globals, code, semVars, defers, made>>
    BY TextNames DEF GenOpen, AtGen
  <1>2. code \in Seq(TokenType) /\ WellNested(code) /\ OneProcedure(code) /\ Sound(gc) BY <1>1, BindFacts
  <1>3. at \in DOMAIN code /\ Token = code[at] BY <1>1, GenFacts, NextToken
  <1>4. PICK q \in Seq(Nat) : GenLevels(gc, code, globals, Marks(code, at), at, q) BY <1>1, BindFacts
  <1>5. gc' = (CASE code[at].kind = "proc"   -> GenProcScopes(gc, at)
                 [] code[at].kind = "loop"   -> Pushed(AddedHere(gc, code[at].id, at))
                 [] code[at].kind = "unroll" -> Pushed(MarkedConst(gc, at))
                 [] code[at].kind = "loopdo" -> AddedHere(gc, code[at].id, at)
                 [] code[at].kind = "do"     -> gc
                 [] OTHER                    -> Pushed(gc))
    BY Zenon DEF GenOpen, Token
  <1>6. PICK h : h = gc' OBVIOUS
  <1>7. Richer(code, globals, gc, h) /\ \E r \in Seq(Nat) : GenLevels(h, code, globals, Marks(code, at + 1), at + 1, r)
    BY <1>1, <1>2, <1>3, <1>4, <1>5, <1>6, GenOpens
  <1> QED BY <1>1, <1>6, <1>7, BindMoves

LEMMA BindGenSkip == ASSUME IInv, BindInv, GenSkip PROVE BindInv'
  <1>1. /\ phase = "gen" /\ phase' = "gen" /\ at <= Len(code) /\ at' = Token.end + 1 /\ Token.t = "open"
        /\ LeftOut(code, at) /\ UNCHANGED <<globals, code, semVars, gc, defers, made>>
    BY TextNames DEF GenSkip, AtGen, genVars
  <1>2. code \in Seq(TokenType) /\ WellNested(code) /\ Sound(gc) /\ Richer(code, globals, gc, gc) BY <1>1, BindFacts
  <1>3. at \in DOMAIN code /\ Token = code[at] BY <1>1, GenFacts, NextToken
  <1>4. PICK q \in Seq(Nat) : GenLevels(gc, code, globals, Marks(code, at), at, q) BY <1>1, BindFacts
  <1>5. GenLevels(gc, code, globals, Marks(code, at'), at', q) BY <1>1, <1>2, <1>3, <1>4, GenOver
  <1>6. GenLevels(gc', code, globals, Marks(code, at'), at', q) /\ Richer(code, globals, gc, gc') BY <1>1, <1>2, <1>5
  <1> QED BY <1>1, <1>6, BindMoves

LEMMA AtTheClose ==
  ASSUME IInv, NEW ks \in SUBSET Kinds, AtClose(ks)
  PROVE  /\ phase = "gen" /\ at \in DOMAIN code /\ code[at].t = "close"
         /\ Innermost(at) = InnerOf(code, at) /\ code[InnerOf(code, at)].kind \in ks
  <1>1. phase = "gen" /\ at <= Len(code) /\ Token.t = "close" /\ code[Innermost(at)].kind \in ks
    BY DEF AtClose, AtGen
  <1>2. at \in DOMAIN code /\ Token = code[at] BY <1>1, GenFacts, NextToken
  <1> QED BY <1>1, <1>2, TextNames

LEMMA BindGenCloseDo == ASSUME IInv, BindInv, GenCloseDo PROVE BindInv'
  <1>1. /\ AtClose({"do", "loopdo"}) /\ phase' = phase /\ at' = at + 1
        /\ UNCHANGED <<globals, code, semVars, gc, defers, made>>
    BY DEF GenCloseDo
  <1>2. {"do", "loopdo"} \in SUBSET Kinds BY DEF Kinds
  <1>3. phase = "gen" /\ at \in DOMAIN code /\ code[at].t = "close" /\ code[InnerOf(code, at)].kind \in {"do", "loopdo"}
    BY <1>1, <1>2, AtTheClose
  <1>4. code \in Seq(TokenType) /\ WellNested(code) /\ Sound(gc) /\ Richer(code, globals, gc, gc) BY <1>3, BindFacts
  <1>5. PICK q \in Seq(Nat) : GenLevels(gc, code, globals, Marks(code, at), at, q) BY <1>3, BindFacts
  <1>6. GenLevels(gc, code, globals, Marks(code, at + 1), at + 1, q) BY <1>3, <1>4, <1>5, GenLeavesDo
  <1>7. GenLevels(gc', code, globals, Marks(code, at'), at', q) /\ Richer(code, globals, gc, gc') BY <1>1, <1>4, <1>6
  <1> QED BY <1>1, <1>3, <1>7, BindMoves

LEMMA BindGenClose == ASSUME IInv, LexInv, BindInv, GenClose PROVE BindInv'
  <1>1. PICK k : k = InnerOf(code, at) OBVIOUS
  <1>2. PICK mine : mine = AtDepth(defers, depth) OBVIOUS
  <1>3. PICK more \in BOOLEAN : more = (code[k].kind = "unroll" /\ Call.again > 0) OBVIOUS
  <1>4. k = Innermost(at) BY <1>1, TextNames
  <1>5. /\ AtClose(ScopeKinds) /\ phase' = phase /\ UNCHANGED <<globals, code, semVars>>
        /\ made' = made \cup BoundAll(gc, mine)
        /\ \E g \in Popped(gc) : gc' = IF more THEN Pushed(g) ELSE g
        /\ at' = (IF more THEN k + 1 ELSE at + 1)
        /\ defers' = NotAtDepth(defers, depth)
    BY <1>2, <1>3, <1>4 DEF GenClose
  <1>6. ScopeKinds \in SUBSET Kinds BY DEF Kinds
  <1>7. phase = "gen" /\ at \in DOMAIN code /\ code[at].t = "close" /\ code[k].kind \in ScopeKinds
    BY <1>1, <1>5, <1>6, AtTheClose
  <1>8. code \in Seq(TokenType) /\ WellNested(code) /\ Sound(gc) /\ Richer(code, globals, gc, gc) BY <1>7, BindFacts
  <1>9. PICK q \in Seq(Nat) : GenLevels(gc, code, globals, Marks(code, at), at, q) BY <1>7, BindFacts
  <1>10. PICK g \in Popped(gc) : gc' = (IF more THEN Pushed(g) ELSE g) BY <1>5
  <1>11. /\ \E r \in Seq(Nat) : GenLevels(g, code, globals, Marks(code, at + 1), at + 1, r)
         /\ \E r \in Seq(Nat) : GenLevels(Pushed(g), code, globals, Marks(code, k + 1), k + 1, r)
    BY <1>1, <1>7, <1>8, <1>9, GenLeaves
  <1>12. Richer(code, globals, gc, g) BY <1>8, RicherPopped
  <1>13. Richer(code, globals, gc, Pushed(g))
    <2>1. Sound(g) BY <1>12 DEF Richer
    <2>2. Richer(code, globals, g, Pushed(g)) BY <2>1, RicherPushed
    <2> QED BY <1>12, <2>2, RicherTrans
  <1>14. /\ Richer(code, globals, gc, gc')
         /\ \E r \in Seq(Nat) : GenLevels(gc', code, globals, Marks(code, at'), at', r)
    <2>1. CASE more
      <3>1. gc' = Pushed(g) /\ at' = k + 1 BY <1>5, <1>10, <2>1
      <3> QED BY <1>11, <1>13, <3>1
    <2>2. CASE ~ more
      <3>1. gc' = g /\ at' = at + 1 BY <1>5, <1>10, <2>2
      <3> QED BY <1>11, <1>12, <3>1
    <2> QED BY <2>1, <2>2
  <1>15. mine \in SUBSET defers /\ defers' \in SUBSET defers BY <1>2, <1>5 DEF AtDepth, NotAtDepth
  <1>16. \A b \in BoundAll(gc, mine) : b.use \in DOMAIN code /\ Right(code, globals, errors, b)
    BY <1>7, <1>8, <1>15, BoundAllRight
  <1>17. \A b \in made' : b \in made \/ (b.use \in DOMAIN code /\ Right(code, globals, errors, b)) BY <1>5, <1>16
  <1> QED BY <1>5, <1>7, <1>14, <1>15, <1>17, BindMoves

\* The innermost procedure around its own end is itself.
LEMMA OwnResult ==
  ASSUME NEW c \in Seq(TokenType), WellNested(c), NEW u \in DOMAIN c, c[u].t = "close",
         NEW k, k = InnerOf(c, u), c[k].kind = "proc"
  PROVE  \A p \in In(c, u, {"proc"}) : (\A j \in In(c, u, {"proc"}) : j <= p) => p = k
  <1>1. k \in Encl(c, u) /\ k \in Nat BY CloseFacts
  <1>2. k \in In(c, u, {"proc"}) BY <1>1 DEF In
  <1>3. \A p \in In(c, u, {"proc"}) : p \in Nat /\ p <= k BY InnerFacts DEF In
  <1> SUFFICES ASSUME NEW p \in In(c, u, {"proc"}), \A j \in In(c, u, {"proc"}) : j <= p PROVE p = k OBVIOUS
  <1>4. k <= p /\ p <= k /\ p \in Nat BY <1>2, <1>3
  <1> QED BY <1>1, <1>4

LEMMA BindGenCloseProc == ASSUME IInv, LexInv, BindInv, GenCloseProc PROVE BindInv'
  <1>1. PICK k : k = InnerOf(code, at) OBVIOUS
  <1>2. PICK mine : mine = AtDepth(defers, depth) OBVIOUS
  <1>3. PICK rest : rest = NotAtDepth(defers, depth) OBVIOUS
  <1>4. PICK falls : falls = (~ closed \/ mine # {}) OBVIOUS
  <1>5. PICK outer : outer = IF falls THEN AtDepth(rest, depth - 1) ELSE {} OBVIOUS
  <1>6. k = Innermost(at) BY <1>1, TextNames
  <1>7. AtClose({"proc"}) /\ phase' = phase /\ UNCHANGED <<globals, code, semVars>> /\ at' = at + 1 BY DEF GenCloseProc
  <1>8. PICK g \in Popped(gc) :
           /\ made' = made \cup BoundAll(gc, mine) \cup BoundAll(g, outer)
                        \cup (IF falls /\ Innermost(k) = 0 THEN Result(g, at) ELSE {})
           /\ gc' \in Popped(g)
           /\ defers' = IF falls THEN NotAtDepth(rest, depth - 1) ELSE rest
    BY <1>2, <1>3, <1>4, <1>5, <1>6, Zenon DEF GenCloseProc
  <1>9. {"proc"} \in SUBSET Kinds BY DEF Kinds
  <1>10. phase = "gen" /\ at \in DOMAIN code /\ code[at].t = "close" /\ code[k].kind = "proc"
    BY <1>1, <1>7, <1>9, AtTheClose
  <1>11. code \in Seq(TokenType) /\ WellNested(code) /\ Sound(gc) /\ Richer(code, globals, gc, gc) BY <1>10, BindFacts
  <1>12. PICK q \in Seq(Nat) : GenLevels(gc, code, globals, Marks(code, at), at, q) BY <1>10, BindFacts
  <1>13. /\ \E r \in Seq(Nat) : GenLevels(g, code, globals, Marks(code, k) \cup {2 * k}, at, r)
         /\ \A i \in Popped(g) : \E r \in Seq(Nat) : GenLevels(i, code, globals, Marks(code, at + 1), at + 1, r)
    BY <1>1, <1>10, <1>11, <1>12, GenLeavesProc
  <1>14. Richer(code, globals, gc, g) BY <1>11, RicherPopped
  <1>15. Richer(code, globals, gc, gc')
    <2>1. Sound(g) BY <1>14 DEF Richer
    <2>2. Richer(code, globals, g, gc') BY <1>8, <2>1, RicherPopped
    <2> QED BY <1>14, <2>2, RicherTrans
  <1>16. \E r \in Seq(Nat) : GenLevels(gc', code, globals, Marks(code, at'), at', r) BY <1>7, <1>8, <1>13
  <1>17. mine \in SUBSET defers /\ outer \in SUBSET defers /\ defers' \in SUBSET defers
    BY <1>2, <1>3, <1>5, <1>8 DEF AtDepth, NotAtDepth
  <1>18. \A b \in BoundAll(gc, mine) : b.use \in DOMAIN code /\ Right(code, globals, errors, b)
    BY <1>10, <1>11, <1>17, BoundAllRight
  <1>19. \A b \in BoundAll(g, outer) : b.use \in DOMAIN code /\ Right(code, globals, errors, b)
    BY <1>10, <1>14, <1>17, BoundAllRight
  <1>20. \A b \in Result(g, at) : b.use \in DOMAIN code /\ Right(code, globals, errors, b)
    <2>1. PICK r \in Seq(Nat) : GenLevels(g, code, globals, Marks(code, k) \cup {2 * k}, at, r) BY <1>13
    <2>2. \A p \in In(code, at, {"proc"}) :
             (\A j \in In(code, at, {"proc"}) : j <= p) => 2 * p \in Marks(code, k) \cup {2 * k}
      <3>1. \A p \in In(code, at, {"proc"}) : (\A j \in In(code, at, {"proc"}) : j <= p) => p = k
        BY <1>1, <1>10, <1>11, OwnResult
      <3> QED BY <3>1
    <2>3. PICK S : S = Marks(code, k) \cup {2 * k} OBVIOUS
    <2> QED BY <1>10, <1>14, <2>1, <2>2, <2>3, ResultRight
  <1>21. \A b \in made' : b \in made \/ (b.use \in DOMAIN code /\ Right(code, globals, errors, b))
    BY <1>8, <1>18, <1>19, <1>20
  <1> QED BY <1>7, <1>10, <1>15, <1>16, <1>17, <1>21, BindMoves

LEMMA BindAfter == ASSUME BindInv, GenEnd \/ Release \/ Destroy PROVE BindInv'
  <1>1. UNCHANGED <<globals, code, errors, defers, made>> /\ phase' \notin {"sem", "gen"}
    BY DEF GenEnd, Release, Destroy, semVars, genVars
  <1> QED BY <1>1, BindLater

LEMMA InitBind == Init => BindInv
  <1> SUFFICES ASSUME Init PROVE BindInv OBVIOUS
  <1>1. globals \subseteq Named /\ OneProcedure(code)
    <2>1. PICK p \in Programs : globals = p.globals /\ code = p.code BY DEF Init
    <2>2. p.globals \in SUBSET Named /\ OneProcedure(p.code) BY LocalAssumption
    <2> QED BY <2>1, <2>2
  <1>2. phase = "sem" /\ made = {} /\ defers = {} /\ symbolOf = [k \in DOMAIN code |-> 0] BY DEF Init
  <1>3. PICK y : y = [id \in Ids |-> IF id \in globals THEN [decl |-> 0, konst |-> 0] ELSE NoSym] OBVIOUS
  <1>4. gc.heap[1].syms = y /\ DOMAIN gc.heap = {1} BY <1>3 DEF Init
  <1>5. ASSUME NEW id \in Ids, y[id] # NoSym PROVE EntryOk(code, globals, id, y[id])
    <2>1. id \in globals /\ y[id] = [decl |-> 0, konst |-> 0] BY <1>3, <1>5
    <2>2. y[id].decl = 0 /\ y[id].konst = 0 BY <2>1
    <2>3. 0 \in Seen(code, globals, id) BY <2>1 DEF Seen
    <2> QED BY <2>2, <2>3 DEF EntryOk
  <1>6. Entries(code, globals, gc) BY <1>4, <1>5 DEF Entries
  <1>7. \A k \in Names(code) : symbolOf[k] = 0 BY <1>2 DEF Names
  <1> QED BY <1>1, <1>2, <1>6, <1>7 DEF BindInv

LEMMA BindInductive == IInv /\ LexInv /\ BindInv /\ [Next]_vars => BindInv'
  <1> SUFFICES ASSUME IInv, LexInv, BindInv, [Next]_vars PROVE BindInv' OBVIOUS
  <1>1. CASE Analyse BY <1>1, BindVar, BindConst, BindUse, BindReturn, BindOpen, BindClose, BindEnd DEF Analyse
  <1>2. CASE Generate
    BY <1>2, BindGenVar, BindGenConst, BindGenUse, BindGenDefer, BindGenReturn, BindGenOpen, BindGenSkip,
       BindGenCloseDo, BindGenClose, BindGenCloseProc, BindAfter
    DEF Generate
  <1>3. CASE Release \/ Destroy BY <1>3, BindAfter
  <1>4. CASE UNCHANGED vars BY <1>4, BindStutter
  <1> QED BY <1>1, <1>2, <1>3, <1>4 DEF Next

\* The innermost procedure with a result of that name: the CHOOSE of SameBinding.
LEMMA ResultIs ==
  ASSUME code \in Seq(TokenType), NEW u, NEW id, NEW d, ResultAt(code, u, id, d)
  PROVE  d = CHOOSE k \in Around(u) : /\ code[k].kind = "proc" /\ code[k].result = id
                                      /\ \A j \in Around(u) : code[j].kind = "proc" => j <= k
  <1>1. PICK E : E = Around(u) OBVIOUS
  <1>2. Encl(code, u) = E /\ \A k \in E : k \in Nat BY <1>1, TextNames DEF Encl
  <1>3. In(code, u, {"proc"}) = {k \in E : code[k].kind = "proc"} BY <1>2 DEF In
  <1>4. d \in E /\ code[d].kind = "proc" /\ code[d].result = id /\ \A j \in E : code[j].kind = "proc" => j <= d
    BY <1>3 DEF ResultAt
  <1>5. ASSUME NEW k \in E, code[k].kind = "proc", \A j \in E : code[j].kind = "proc" => j <= k PROVE k = d
    BY <1>2, <1>4, <1>5
  <1> QED BY <1>1, <1>4, <1>5

\* The generator's second walk gives every identifier the meaning the analyser
\* checked, in every procedure: what ir_gen_identifier finds by name, or through
\* resolved_symbol when that finds nothing, is the innermost declaration, and the
\* named result returned is the one of the procedure around, unless the name has
\* several declarations and is looked up late or one of them is out of its place.
THEOREM SameBindingInBothWalks == Spec => []SameBinding
  <1>1. IInv /\ BindInv => SameBinding
    <2> SUFFICES ASSUME IInv, BindInv, NEW b \in made
                 PROVE  \/ b.decl = IF code[b.use].t \in {"return", "close"}
                                      THEN CHOOSE k \in Around(b.use) :
                                             /\ code[k].kind = "proc" /\ code[k].result = b.id
                                             /\ \A j \in Around(b.use) : code[j].kind = "proc" => j <= k
                                      ELSE Lexical(b.use, b.id)
                        \/ \E j, k \in Declarations(b.id) :
                             j # k /\ (~ ByName(b.use) \/ (k # 0 /\ Misplaced(k, b.id)))
      BY DEF SameBinding
    <2>1. code \in Seq(TokenType) BY DEF IInv, TextInv
    <2>2. b.use \in DOMAIN code /\ Right(code, globals, errors, b) BY DEF BindInv
    <2>3. CASE code[b.use].t \in {"return", "close"} /\ ResultAt(code, b.use, b.id, b.decl)
      BY <2>1, <2>3, ResultIs
    <2>4. CASE code[b.use].t \notin {"return", "close"} /\ IsLexical(code, globals, errors, b.use, b.id, b.decl)
      BY <2>1, <2>2, <2>4, LexicalIs
    <2>5. CASE \E j, k \in DeclaredIn(code, globals, b.id) :
                 j # k /\ (code[b.use].t # "use" \/ (k # 0 /\ OutOfPlace(code, k, b.id)))
      <3>1. DeclaredIn(code, globals, b.id) = Declarations(b.id)
        BY DEF DeclaredIn, Declarations, DeclaresIn, Declares
      <3>2. \A k : OutOfPlace(code, k, b.id) => Misplaced(k, b.id) BY TextNames DEF OutOfPlace, Misplaced, Loops
      <3> QED BY <2>5, <3>1, <3>2 DEF ByName
    <2> QED BY <2>2, <2>3, <2>4, <2>5 DEF Right
  <1> QED BY <1>1, Invariant, InitLex, LexInductive, InitBind, BindInductive, PTL DEF Spec
=============================================================================
