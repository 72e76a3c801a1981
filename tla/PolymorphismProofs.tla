-------------------------- MODULE PolymorphismProofs --------------------------
(***************************************************************************)
(* Theorems about Polymorphism, for every library of procedures, nested in *)
(* each other's bodies in any way, and every program that calls them: the  *)
(* environment stack follows the instantiations under way, and every       *)
(* specialization that generated code calls is generated as well.          *)
(***************************************************************************)
EXTENDS Polymorphism, WellFoundedInduction, TLAPS

-----------------------------------------------------------------------------
(* Sequences, and recursion over them                                     *)

\* A sequence, of whatever elements
IsSeq(s) == Len(s) \in Nat /\ s = [k \in 1 .. Len(s) |-> s[k]]

LEMMA SeqIs == ASSUME NEW S, NEW s \in Seq(S) PROVE IsSeq(s)
  BY DEF IsSeq

LEMMA EmptyIs == IsSeq(<<>>) /\ Len(<<>>) = 0 /\ \A s : IsSeq(s) => (s = <<>> <=> Len(s) = 0)
  <1>1. IsSeq(<<>>) /\ Len(<<>>) = 0 BY DEF IsSeq
  <1>2. ASSUME NEW s, IsSeq(s), Len(s) = 0 PROVE s = <<>>
    <2>1. s \in Seq({s[k] : k \in 1 .. Len(s)}) BY <1>2 DEF IsSeq
    <2> QED BY <1>2, <2>1
  <1> QED BY <1>1, <1>2

LEMMA SingleIs == ASSUME NEW x PROVE IsSeq(<<x>>) /\ Len(<<x>>) = 1 /\ <<x>>[1] = x /\ <<x>> # <<>>
  BY DEF IsSeq

LEMMA AppendIs ==
  ASSUME NEW s, IsSeq(s), NEW x
  PROVE  /\ IsSeq(Append(s, x)) /\ Len(Append(s, x)) = Len(s) + 1
         /\ \A k \in 1 .. Len(s) : Append(s, x)[k] = s[k]
         /\ Append(s, x)[Len(s) + 1] = x
  <1> DEFINE S == {s[k] : k \in 1 .. Len(s)} \cup {x}
  <1>1. s \in Seq(S) /\ x \in S BY DEF IsSeq
  <1> HIDE DEF S
  <1>2. Append(s, x) \in Seq(S) BY <1>1
  <1>3. IsSeq(Append(s, x)) BY <1>2, SeqIs
  <1> QED BY <1>1, <1>3

LEMMA FrontIs ==
  ASSUME NEW s, IsSeq(s), s # <<>>
  PROVE  /\ IsSeq(Front(s)) /\ Len(Front(s)) = Len(s) - 1 /\ Len(s) \in Nat /\ Len(s) > 0
         /\ \A k \in 1 .. Len(s) - 1 : Front(s)[k] = s[k]
  <1> DEFINE S == {s[k] : k \in 1 .. Len(s)}
  <1>1. s \in Seq(S) BY DEF IsSeq
  <1> HIDE DEF S
  <1>2. Len(s) \in Nat /\ Len(s) > 0 BY <1>1
  <1>3. PICK f : f = SubSeq(s, 1, Len(s) - 1) OBVIOUS
  <1>4. f \in Seq(S) /\ Len(f) = Len(s) - 1 /\ \A k \in 1 .. Len(s) - 1 : f[k] = s[k]
    <2>1. PICK n \in Nat : n = Len(s) - 1 BY <1>2
    <2>2. n <= Len(s) /\ f = SubSeq(s, 1, n) BY <1>2, <1>3, <2>1
    <2>3. f \in Seq(S) /\ Len(f) = n BY <1>1, <2>2
    <2>4. \A i \in 1 .. n : f[i] = s[i] BY <1>1, <2>2
    <2> QED BY <2>1, <2>3, <2>4
  <1>5. IsSeq(f) BY <1>4, SeqIs
  <1>6. Front(s) = f BY <1>3 DEF Front
  <1> QED BY <1>2, <1>4, <1>5, <1>6

\* Two sequences of one length and the same elements are one.
LEMMA SameSeq ==
  ASSUME NEW s, NEW t, IsSeq(s), IsSeq(t), Len(s) = Len(t), \A k \in 1 .. Len(s) : s[k] = t[k]
  PROVE  s = t
  BY DEF IsSeq

LEMMA FrontAppend == ASSUME NEW s, IsSeq(s), NEW x PROVE Front(Append(s, x)) = s
  <1>1. PICK t : t = Append(s, x) OBVIOUS
  <1>2. IsSeq(t) /\ Len(t) = Len(s) + 1 /\ Len(s) \in Nat /\ \A k \in 1 .. Len(s) : t[k] = s[k]
    BY <1>1, AppendIs DEF IsSeq
  <1>3. t # <<>> BY <1>2, EmptyIs
  <1>4. PICK f : f = Front(t) OBVIOUS
  <1>5. IsSeq(f) /\ Len(f) = Len(t) - 1 /\ \A k \in 1 .. Len(t) - 1 : f[k] = t[k] BY <1>2, <1>3, <1>4, FrontIs
  <1>6. f = s BY <1>2, <1>5, SameSeq
  <1> QED BY <1>1, <1>4, <1>6

\* Replacing the last element
LEMMA WithLast ==
  ASSUME NEW s, IsSeq(s), s # <<>>, NEW x
  PROVE  /\ IsSeq(Append(Front(s), x)) /\ Len(Append(Front(s), x)) = Len(s)
         /\ Append(Front(s), x)[Len(s)] = x
         /\ \A k \in 1 .. Len(s) - 1 : Append(Front(s), x)[k] = s[k]
  <1>1. PICK f : f = Front(s) OBVIOUS
  <1>2. /\ IsSeq(f) /\ Len(f) = Len(s) - 1 /\ Len(s) \in Nat /\ Len(s) > 0
        /\ \A k \in 1 .. Len(s) - 1 : f[k] = s[k]
    BY <1>1, FrontIs
  <1>3. PICK t : t = Append(f, x) OBVIOUS
  <1>4. IsSeq(t) /\ Len(t) = Len(f) + 1 /\ (\A k \in 1 .. Len(f) : t[k] = f[k]) /\ t[Len(f) + 1] = x
    BY <1>2, <1>3, AppendIs
  <1>5. Len(t) = Len(s) /\ t[Len(s)] = x /\ \A k \in 1 .. Len(s) - 1 : t[k] = s[k] BY <1>2, <1>4
  <1> QED BY <1>1, <1>3, <1>4, <1>5

LEMMA Least ==
  ASSUME NEW S \in SUBSET Nat, S # {}
  PROVE  \E m \in S : \A k \in S : m <= k
  <1>1. PICK m \in S : \A k \in S : ~ (<<k, m>> \in OpToRel(<, Nat))
    BY NatLessThanWellFounded, WFMin, Zenon
  <1>2. \A k \in S : ~ (k < m) BY <1>1 DEF OpToRel
  <1> QED BY <1>2

\* Kept: the recursion has a solution, and it only has elements of the set.
KeptAt(s, S, f, i) == IF i = 0 THEN <<>> ELSE IF s[i] \in S THEN Append(f[i - 1], s[i]) ELSE f[i - 1]
Keeps(s, S, f, n) == f = [i \in 0 .. n |-> KeptAt(s, S, f, i)]

LEMMA KeepsAt ==
  ASSUME NEW s, NEW S, NEW f, NEW n, Keeps(s, S, f, n), NEW i \in 0 .. n
  PROVE  f[i] = KeptAt(s, S, f, i)
  <1>1. PICK u : u = [x \in 0 .. n |-> KeptAt(s, S, f, x)] OBVIOUS
  <1>2. f = u BY <1>1, Zenon DEF Keeps
  <1>3. u[i] = KeptAt(s, S, f, i) BY <1>1
  <1> QED BY <1>2, <1>3

LEMMA KeepsExists ==
  ASSUME NEW s, NEW S, NEW n \in Nat
  PROVE  \E f : Keeps(s, S, f, n)
  <1> DEFINE Bad == {m \in 0 .. n : ~ \E f : Keeps(s, S, f, m)}
  <1> SUFFICES ASSUME Bad # {} PROVE FALSE OBVIOUS
  <1>0. Bad \in SUBSET Nat OBVIOUS
  <1>1. PICK m \in Bad : \A k \in Bad : m <= k
    <2> HIDE DEF Bad
    <2> QED BY <1>0, Least
  <1>2. CASE m = 0
    <2>1. PICK f : f = [i \in 0 .. 0 |-> <<>>] OBVIOUS
    <2>2. Keeps(s, S, f, 0) BY <2>1 DEF Keeps, KeptAt
    <2> QED BY <1>1, <1>2, <2>2
  <1>3. CASE m # 0
    <2>1. m - 1 \in 0 .. n /\ m - 1 \notin Bad /\ m \in 1 .. n BY <1>1, <1>3
    <2>2. PICK f : Keeps(s, S, f, m - 1) BY <2>1
    <2>3. PICK h : h = [i \in 0 .. m |-> IF i = m THEN KeptAt(s, S, f, m) ELSE f[i]] OBVIOUS
    <2>4. ASSUME NEW i \in 0 .. m PROVE h[i] = KeptAt(s, S, h, i)
      <3>1. i # 0 => h[i - 1] = f[i - 1]
        <4>1. \A p \in 0 .. m - 1 : h[p] = f[p] BY <2>1, <2>3
        <4>2. i # 0 => i - 1 \in 0 .. m - 1 BY <2>1
        <4> QED BY <4>1, <4>2
      <3>2. KeptAt(s, S, h, i) = KeptAt(s, S, f, i) BY <3>1 DEF KeptAt
      <3>3. i # m => h[i] = f[i] /\ f[i] = KeptAt(s, S, f, i)
        <4>1. i # m => i \in 0 .. m - 1 BY <2>1
        <4> QED BY <2>2, <2>3, <4>1, KeepsAt
      <3>4. i = m => h[i] = KeptAt(s, S, f, i) BY <2>3
      <3> QED BY <3>2, <3>3, <3>4
    <2>5. Keeps(s, S, h, m) BY <2>3, <2>4 DEF Keeps
    <2> QED BY <1>1, <2>5
  <1> QED BY <1>2, <1>3

LEMMA KeptIs == ASSUME NEW s, IsSeq(s), NEW S PROVE Kept(s, S) \in Seq(S)
  <1>1. PICK n \in Nat : n = Len(s) BY DEF IsSeq
  <1>2. \E f : Keeps(s, S, f, n) BY KeepsExists
  <1>3. PICK f : f = CHOOSE g : g = [i \in 0 .. Len(s) |-> IF i = 0 THEN <<>>
                     ELSE IF s[i] \in S THEN Append(g[i - 1], s[i]) ELSE g[i - 1]]
    OBVIOUS
  <1>4. Keeps(s, S, f, n) BY <1>1, <1>2, <1>3 DEF Keeps, KeptAt
  <1>5. Kept(s, S) = f[n] BY <1>1, <1>3 DEF Kept
  <1> DEFINE Bad == {i \in 0 .. n : f[i] \notin Seq(S)}
  <1>6. Bad = {}
    <2> SUFFICES ASSUME Bad # {} PROVE FALSE OBVIOUS
    <2>1. Bad \in SUBSET Nat OBVIOUS
    <2>2. PICK m \in Bad : \A k \in Bad : m <= k
      <3> HIDE DEF Bad
      <3> QED BY <2>1, Least
    <2>3. f[m] = KeptAt(s, S, f, m) BY <1>4, <2>2, KeepsAt
    <2>4. m # 0
      <3>1. m = 0 => f[m] = <<>> BY <2>3 DEF KeptAt
      <3>2. <<>> \in Seq(S) /\ f[m] \notin Seq(S) BY <2>2
      <3> QED BY <3>1, <3>2
    <2>5. f[m - 1] \in Seq(S) BY <2>2, <2>4
    <2>6. PICK x : x = s[m] OBVIOUS
    <2>7. PICK g \in Seq(S) : g = f[m - 1] BY <2>5
    <2>8. f[m] = IF x \in S THEN Append(g, x) ELSE g BY <2>3, <2>4, <2>6, <2>7 DEF KeptAt
    <2>9. f[m] \in Seq(S) BY <2>8
    <2> QED BY <2>2, <2>9
  <1> QED BY <1>5, <1>6

-----------------------------------------------------------------------------
(* Environments: what binding a call leaves is a bounded list of slots.    *)

SlotOK(x) == DOMAIN x = {"name", "kind", "type", "int"} /\ x.kind \in {"type", "int"}
EnvOK(e)  == IsSeq(e) /\ Len(e) <= MaxEntries /\ \A i \in 1 .. Len(e) : SlotOK(e[i])
AccOK(a)  == "env" \in DOMAIN a /\ EnvOK(a.env)

LEMMA EmptyEnv == EnvOK(<<>>)
  BY EmptyIs, MaxEntriesAssumption DEF EnvOK

LEMMA SlotsAre == ASSUME NEW n, NEW x PROVE SlotOK(TypeSlot(n, x)) /\ SlotOK(IntSlot(n, x))
  BY DEF SlotOK, TypeSlot, IntSlot

LEMMA AddSlotOK == ASSUME NEW e, EnvOK(e), NEW x, SlotOK(x) PROVE EnvOK(AddSlot(e, x))
  <1>1. CASE Len(e) < MaxEntries
    <2>1. PICK f : f = Append(e, x) OBVIOUS
    <2>2. IsSeq(e) /\ Len(e) \in Nat BY DEF EnvOK, IsSeq
    <2>3. IsSeq(f) /\ Len(f) = Len(e) + 1 /\ (\A k \in 1 .. Len(e) : f[k] = e[k]) /\ f[Len(e) + 1] = x
      BY <2>1, <2>2, AppendIs
    <2>4. Len(f) <= MaxEntries BY <1>1, <2>2, <2>3, MaxEntriesAssumption
    <2>5. \A k \in 1 .. Len(f) : SlotOK(f[k]) BY <2>2, <2>3 DEF EnvOK
    <2> QED BY <1>1, <2>1, <2>3, <2>4, <2>5 DEF EnvOK, AddSlot
  <1>2. CASE ~ (Len(e) < MaxEntries) BY <1>2 DEF AddSlot
  <1> QED BY <1>1, <1>2

\* An environment whose slots have been given other values
LEMMA ChangedSlots ==
  ASSUME NEW e, EnvOK(e), NEW f, DOMAIN f = DOMAIN e, f = [i \in DOMAIN e |-> f[i]],
         \A i \in DOMAIN e : SlotOK(f[i])
  PROVE  EnvOK(f)
  <1>1. PICK n \in Nat : n = Len(e) BY DEF EnvOK, IsSeq
  <1>2. DOMAIN e = 1 .. n BY <1>1 DEF EnvOK, IsSeq
  <1>3. f = [i \in 1 .. n |-> f[i]] BY <1>2
  <1>4. f \in Seq({f[i] : i \in 1 .. n}) /\ Len(f) = n
    <2>1. f \in [1 .. n -> {f[i] : i \in 1 .. n}] BY <1>3
    <2>2. DOMAIN f = 1 .. n BY <1>2
    <2> QED BY <2>1, <2>2
  <1>5. IsSeq(f) BY <1>3, <1>4 DEF IsSeq
  <1> QED BY <1>1, <1>2, <1>4, <1>5 DEF EnvOK

LEMMA SlotDomain == ASSUME NEW e, EnvOK(e), NEW i \in DOMAIN e PROVE SlotOK(e[i])
  BY DEF EnvOK, IsSeq

LEMMA BindTypeOK == ASSUME NEW e, EnvOK(e), NEW n, NEW t PROVE EnvOK(BindType(e, n, t))
  <1>1. EnvOK(AddSlot(e, TypeSlot(n, t))) BY SlotsAre, AddSlotOK
  <1>2. PICK f : f = [i \in DOMAIN e |-> IF e[i].name = n /\ e[i].kind = "type" /\ e[i].type = Nothing
                                       THEN [e[i] EXCEPT !.type = t] ELSE e[i]]
    OBVIOUS
  <1>3. ASSUME NEW i \in DOMAIN e PROVE SlotOK(f[i])
    <2>1. PICK x : x = e[i] OBVIOUS
    <2>2. SlotOK(x) BY <2>1, SlotDomain
    <2>3. SlotOK([x EXCEPT !.type = t]) BY <2>2 DEF SlotOK
    <2>4. f[i] = x \/ f[i] = [x EXCEPT !.type = t] BY <1>2, <2>1
    <2> QED BY <2>2, <2>3, <2>4
  <1>4. DOMAIN f = DOMAIN e /\ f = [i \in DOMAIN e |-> f[i]] BY <1>2
  <1>5. EnvOK(f) BY <1>3, <1>4, ChangedSlots
  <1> QED BY <1>1, <1>2, <1>5 DEF BindType

LEMMA BindIntOK == ASSUME NEW e, EnvOK(e), NEW n, NEW v PROVE EnvOK(BindInt(e, n, v))
  <1>1. EnvOK(AddSlot(e, IntSlot(n, v))) BY SlotsAre, AddSlotOK
  <1>2. PICK f : f = [i \in DOMAIN e |-> IF e[i].name = n /\ e[i].kind = "int" /\ e[i].int = 0
                                       THEN [e[i] EXCEPT !.int = v] ELSE e[i]]
    OBVIOUS
  <1>3. ASSUME NEW i \in DOMAIN e PROVE SlotOK(f[i])
    <2>1. PICK x : x = e[i] OBVIOUS
    <2>2. SlotOK(x) BY <2>1, SlotDomain
    <2>3. SlotOK([x EXCEPT !.int = v]) BY <2>2 DEF SlotOK
    <2>4. f[i] = x \/ f[i] = [x EXCEPT !.int = v] BY <1>2, <2>1
    <2> QED BY <2>2, <2>3, <2>4
  <1>4. DOMAIN f = DOMAIN e /\ f = [i \in DOMAIN e |-> f[i]] BY <1>2
  <1>5. EnvOK(f) BY <1>3, <1>4, ChangedSlots
  <1> QED BY <1>1, <1>2, <1>5 DEF BindInt

LEMMA MeetOK ==
  ASSUME NEW a, AccOK(a), NEW n, NEW first, NEW count, NEW elem
  PROVE  AccOK(MeetInArray(a, n, first, count, elem))
  <1>1. EnvOK(BindInt(a.env, n, count)) /\ EnvOK(BindType(a.env, n, elem)) BY BindIntOK, BindTypeOK DEF AccOK
  <1>2. AccOK([a EXCEPT !.env = BindInt(a.env, n, count)]) BY <1>1 DEF AccOK
  <1>3. \A e : EnvOK(e) => AccOK([env |-> e, any |-> TRUE]) BY DEF AccOK
  <1> QED BY <1>1, <1>2, <1>3 DEF MeetInArray

\* The sizes of a pattern: the recursion has a solution, which keeps AccOK.
SizeAt(p, t, e, f, i) ==
  IF i = 0 THEN [env |-> e, any |-> FALSE]
  ELSE IF i <= Depth(p, t) /\ p.wraps[i].k = "array" /\ p.wraps[i].size.var # ""
  THEN MeetInArray(f[i - 1], p.wraps[i].size.var, TRUE, t.wraps[i].n, Nothing)
  ELSE f[i - 1]
Sizes(p, t, e, f, n) == f = [i \in 0 .. n |-> SizeAt(p, t, e, f, i)]

LEMMA SizesAt ==
  ASSUME NEW p, NEW t, NEW e, NEW f, NEW n, Sizes(p, t, e, f, n), NEW i \in 0 .. n
  PROVE  f[i] = SizeAt(p, t, e, f, i)
  <1>1. PICK u : u = [x \in 0 .. n |-> SizeAt(p, t, e, f, x)] OBVIOUS
  <1>2. f = u BY <1>1, Zenon DEF Sizes
  <1>3. u[i] = SizeAt(p, t, e, f, i) BY <1>1
  <1> QED BY <1>2, <1>3

LEMMA SizesExist ==
  ASSUME NEW p, NEW t, NEW e, NEW n \in Nat
  PROVE  \E f : Sizes(p, t, e, f, n)
  <1> DEFINE Bad == {m \in 0 .. n : ~ \E f : Sizes(p, t, e, f, m)}
  <1> SUFFICES ASSUME Bad # {} PROVE FALSE OBVIOUS
  <1>0. Bad \in SUBSET Nat OBVIOUS
  <1>1. PICK m \in Bad : \A k \in Bad : m <= k
    <2> HIDE DEF Bad
    <2> QED BY <1>0, Least
  <1>2. CASE m = 0
    <2>0. PICK a : a = [env |-> e, any |-> FALSE] OBVIOUS
    <2>1. PICK f : f = [i \in 0 .. 0 |-> a] OBVIOUS
    <2>2. Sizes(p, t, e, f, 0)
      <3>1. \A i \in 0 .. 0 : SizeAt(p, t, e, f, i) = a BY <2>0 DEF SizeAt
      <3> QED BY <2>1, <3>1, Zenon DEF Sizes
    <2> QED BY <1>1, <1>2, <2>2
  <1>3. CASE m # 0
    <2>1. m - 1 \in 0 .. n /\ m - 1 \notin Bad /\ m \in 1 .. n BY <1>1, <1>3
    <2>2. PICK f : Sizes(p, t, e, f, m - 1) BY <2>1
    <2>3. PICK h : h = [i \in 0 .. m |-> IF i = m THEN SizeAt(p, t, e, f, m) ELSE f[i]] OBVIOUS
    <2>4. ASSUME NEW i \in 0 .. m PROVE h[i] = SizeAt(p, t, e, h, i)
      <3>1. i # 0 => h[i - 1] = f[i - 1]
        <4>1. \A x \in 0 .. m - 1 : h[x] = f[x] BY <2>1, <2>3
        <4>2. i # 0 => i - 1 \in 0 .. m - 1 BY <2>1
        <4> QED BY <4>1, <4>2
      <3>2. SizeAt(p, t, e, h, i) = SizeAt(p, t, e, f, i) BY <3>1 DEF SizeAt
      <3>3. i # m => h[i] = f[i] /\ f[i] = SizeAt(p, t, e, f, i)
        <4>1. i # m => i \in 0 .. m - 1 BY <2>1
        <4> QED BY <2>2, <2>3, <4>1, SizesAt
      <3>4. i = m => h[i] = SizeAt(p, t, e, f, i) BY <2>3
      <3> QED BY <3>2, <3>3, <3>4
    <2>5. Sizes(p, t, e, h, m) BY <2>3, <2>4 DEF Sizes
    <2> QED BY <1>1, <2>5
  <1> QED BY <1>2, <1>3

LEMMA UnifySizesOK ==
  ASSUME NEW p, Len(p.wraps) \in Nat, NEW t, NEW e, EnvOK(e)
  PROVE  AccOK(UnifySizes(p, t, e))
  <1>1. PICK n \in Nat : n = Len(p.wraps) OBVIOUS
  <1>2. \E f : Sizes(p, t, e, f, n) BY SizesExist
  <1>3. PICK f : f = CHOOSE g : g = [i \in 0 .. Len(p.wraps) |->
          IF i = 0 THEN [env |-> e, any |-> FALSE]
          ELSE IF i <= Depth(p, t) /\ p.wraps[i].k = "array" /\ p.wraps[i].size.var # ""
          THEN MeetInArray(g[i - 1], p.wraps[i].size.var, TRUE, t.wraps[i].n, Nothing)
          ELSE g[i - 1]]
    OBVIOUS
  <1>4. Sizes(p, t, e, f, n) BY <1>1, <1>2, <1>3 DEF Sizes, SizeAt
  <1>5. UnifySizes(p, t, e) = f[n] BY <1>1, <1>3 DEF UnifySizes
  <1> DEFINE Bad == {i \in 0 .. n : ~ AccOK(f[i])}
  <1>6. Bad = {}
    <2> SUFFICES ASSUME Bad # {} PROVE FALSE OBVIOUS
    <2>1. Bad \in SUBSET Nat OBVIOUS
    <2>2. PICK m \in Bad : \A k \in Bad : m <= k
      <3> HIDE DEF Bad
      <3> QED BY <2>1, Least
    <2>3. f[m] = SizeAt(p, t, e, f, m) BY <1>4, <2>2, SizesAt
    <2>4. m # 0
      <3>1. AccOK([env |-> e, any |-> FALSE]) BY DEF AccOK
      <3>2. m = 0 => f[m] = [env |-> e, any |-> FALSE] BY <2>3 DEF SizeAt
      <3>3. ~ AccOK(f[m]) BY <2>2
      <3> QED BY <3>1, <3>2, <3>3
    <2>5. AccOK(f[m - 1]) BY <2>2, <2>4
    <2>6. PICK a : a = f[m - 1] OBVIOUS
    <2>7. AccOK(MeetInArray(a, p.wraps[m].size.var, TRUE, t.wraps[m].n, Nothing)) BY <2>5, <2>6, MeetOK
    <2>8. f[m] = a \/ f[m] = MeetInArray(a, p.wraps[m].size.var, TRUE, t.wraps[m].n, Nothing)
      BY <2>3, <2>4, <2>6 DEF SizeAt
    <2> QED BY <2>2, <2>5, <2>6, <2>7, <2>8
  <1> QED BY <1>5, <1>6

LEMMA UnifyOK ==
  ASSUME NEW p, Len(p.wraps) \in Nat, NEW t, NEW e, EnvOK(e)
  PROVE  EnvOK(Unify(p, t, e))
  <1>1. PICK a : a = UnifySizes(p, t, e) OBVIOUS
  <1>2. AccOK(a) BY <1>1, UnifySizesOK
  <1>3. PICK b : b = UnifyLeaf(p, t, a) OBVIOUS
  <1>4. AccOK(b)
    <2>1. EnvOK(BindType(a.env, p.name, Under(t, Len(p.wraps)))) BY <1>2, BindTypeOK DEF AccOK
    <2>2. AccOK([env |-> BindType(a.env, p.name, Under(t, Len(p.wraps))), any |-> TRUE]) BY <2>1 DEF AccOK
    <2>3. AccOK(MeetInArray(a, p.name, FALSE, t.wraps[Len(p.wraps)].n, Under(t, Len(p.wraps)))) BY <1>2, MeetOK
    <2> QED BY <1>2, <1>3, <2>2, <2>3 DEF UnifyLeaf
  <1>5. EnvOK(b.env) /\ EnvOK(BindType(b.env, p.spec, Some(t))) BY <1>4, BindTypeOK DEF AccOK
  <1> QED BY <1>1, <1>3, <1>5 DEF Unify

\* The arguments of a call, parameter by parameter
ParamOK(q) == q.form \in {"decl", "variadic", "value"} /\ Len(q.pat.wraps) \in Nat

LEMMA BindParamOK ==
  ASSUME NEW a, AccOK(a), NEW q, ParamOK(q), NEW args
  PROVE  AccOK(BindParam(a, q, args))
  <1> DEFINE Rebound(e) == AccOK([a EXCEPT !.env = e])
  <1>1. \A e : EnvOK(e) => Rebound(e) BY DEF AccOK
  <1>2. \A n, x : EnvOK(AddSlot(a.env, TypeSlot(n, x))) BY AddSlotOK, SlotsAre DEF AccOK
  <1>3. EnvOK(a.env) BY DEF AccOK
  <1>4. CASE q.form = "decl"
    <2>1. PICK e : e = IF SlotsOf(a.env, q.pat.name) = {} THEN AddSlot(a.env, TypeSlot(q.pat.name, Nothing))
                       ELSE a.env
      OBVIOUS
    <2>2. EnvOK(e) BY <1>2, <1>3, <2>1
    <2>3. BindParam(a, q, args) = [a EXCEPT !.env = e] BY <1>4, <2>1 DEF BindParam
    <2> QED BY <1>1, <2>2, <2>3
  <1>5. CASE q.form = "variadic"
    <2>1. PICK e : e = IF (q.pat.leaf = "poly" /\ q.pat.wraps = <<>> /\ q.pat.spec = "") /\ a.next \in DOMAIN args
                          /\ SlotsOf(a.env, q.pat.name) = {}
                       THEN AddSlot(a.env, TypeSlot(q.pat.name, args[a.next])) ELSE a.env
      OBVIOUS
    <2>2. EnvOK(e) BY <1>2, <1>3, <2>1
    <2>3. BindParam(a, q, args) = [a EXCEPT !.env = e] BY <1>5, <2>1 DEF BindParam
    <2> QED BY <1>1, <2>2, <2>3
  <1>6. CASE q.form = "value"
    <2>1. PICK direct : direct = IF (q.pat.leaf = "poly" /\ q.pat.wraps = <<>> /\ q.pat.spec = "")
                                    /\ SlotsOf(a.env, q.pat.name) = {}
                                 THEN AddSlot(a.env, TypeSlot(q.pat.name, Arg(args, a.next))) ELSE a.env
      OBVIOUS
    <2>2. EnvOK(direct) BY <1>2, <1>3, <2>1
    <2>3. PICK named : named = BindNamed(direct, q.pat, a.next, args) OBVIOUS
    <2>4. EnvOK(named) BY <2>2, <2>3, BindTypeOK DEF BindNamed
    <2>5. EnvOK(Unify(q.pat, args[a.next][1], named)) BY <2>4, UnifyOK DEF ParamOK
    <2>6. PICK e : e = IF Arg(args, a.next) = Nothing THEN named ELSE Unify(q.pat, args[a.next][1], named) OBVIOUS
    <2>7. EnvOK(e) BY <2>4, <2>5, <2>6
    <2>8. BindParam(a, q, args) = [env |-> e, next |-> a.next + q.names]
      BY <1>6, <2>1, <2>3, <2>6 DEF BindParam
    <2> QED BY <2>7, <2>8 DEF AccOK
  <1> QED BY <1>4, <1>5, <1>6 DEF ParamOK

ParamAt(ps, args, f, i) == IF i = 0 THEN [env |-> <<>>, next |-> 1] ELSE BindParam(f[i - 1], ps[i], args)
Params(ps, args, f, n)  == f = [i \in 0 .. n |-> ParamAt(ps, args, f, i)]

LEMMA ParamsAt ==
  ASSUME NEW ps, NEW args, NEW f, NEW n, Params(ps, args, f, n), NEW i \in 0 .. n
  PROVE  f[i] = ParamAt(ps, args, f, i)
  <1>1. PICK u : u = [x \in 0 .. n |-> ParamAt(ps, args, f, x)] OBVIOUS
  <1>2. f = u BY <1>1, Zenon DEF Params
  <1>3. u[i] = ParamAt(ps, args, f, i) BY <1>1
  <1> QED BY <1>2, <1>3

LEMMA ParamsExist ==
  ASSUME NEW ps, NEW args, NEW n \in Nat
  PROVE  \E f : Params(ps, args, f, n)
  <1> DEFINE Bad == {m \in 0 .. n : ~ \E f : Params(ps, args, f, m)}
  <1> SUFFICES ASSUME Bad # {} PROVE FALSE OBVIOUS
  <1>0. Bad \in SUBSET Nat OBVIOUS
  <1>1. PICK m \in Bad : \A k \in Bad : m <= k
    <2> HIDE DEF Bad
    <2> QED BY <1>0, Least
  <1>2. CASE m = 0
    <2>0. PICK a : a = [env |-> <<>>, next |-> 1] OBVIOUS
    <2>1. PICK f : f = [i \in 0 .. 0 |-> a] OBVIOUS
    <2>2. Params(ps, args, f, 0)
      <3>1. \A i \in 0 .. 0 : ParamAt(ps, args, f, i) = a BY <2>0 DEF ParamAt
      <3> QED BY <2>1, <3>1, Zenon DEF Params
    <2> QED BY <1>1, <1>2, <2>2
  <1>3. CASE m # 0
    <2>1. m - 1 \in 0 .. n /\ m - 1 \notin Bad /\ m \in 1 .. n BY <1>1, <1>3
    <2>2. PICK f : Params(ps, args, f, m - 1) BY <2>1
    <2>3. PICK h : h = [i \in 0 .. m |-> IF i = m THEN ParamAt(ps, args, f, m) ELSE f[i]] OBVIOUS
    <2>4. ASSUME NEW i \in 0 .. m PROVE h[i] = ParamAt(ps, args, h, i)
      <3>1. i # 0 => h[i - 1] = f[i - 1]
        <4>1. \A x \in 0 .. m - 1 : h[x] = f[x] BY <2>1, <2>3
        <4>2. i # 0 => i - 1 \in 0 .. m - 1 BY <2>1
        <4> QED BY <4>1, <4>2
      <3>2. ParamAt(ps, args, h, i) = ParamAt(ps, args, f, i) BY <3>1 DEF ParamAt
      <3>3. i # m => h[i] = f[i] /\ f[i] = ParamAt(ps, args, f, i)
        <4>1. i # m => i \in 0 .. m - 1 BY <2>1
        <4> QED BY <2>2, <2>3, <4>1, ParamsAt
      <3>4. i = m => h[i] = ParamAt(ps, args, f, i) BY <2>3
      <3> QED BY <3>2, <3>3, <3>4
    <2>5. Params(ps, args, h, m) BY <2>3, <2>4 DEF Params
    <2> QED BY <1>1, <2>5
  <1> QED BY <1>2, <1>3

LEMMA EnvFromArgsOK ==
  ASSUME NEW q, Len(q.params) \in Nat, \A i \in 1 .. Len(q.params) : ParamOK(q.params[i]), NEW args
  PROVE  EnvOK(EnvFromArgs(q, args))
  <1>1. PICK n \in Nat : n = Len(q.params) OBVIOUS
  <1>2. \E f : Params(q.params, args, f, n) BY ParamsExist
  <1>3. PICK f : f = CHOOSE g : g = [i \in 0 .. Len(q.params) |->
          IF i = 0 THEN [env |-> <<>>, next |-> 1] ELSE BindParam(g[i - 1], q.params[i], args)]
    OBVIOUS
  <1>4. Params(q.params, args, f, n) BY <1>1, <1>2, <1>3 DEF Params, ParamAt
  <1>5. EnvFromArgs(q, args) = f[n].env BY <1>1, <1>3 DEF EnvFromArgs
  <1> DEFINE Bad == {i \in 0 .. n : ~ AccOK(f[i])}
  <1>6. Bad = {}
    <2> SUFFICES ASSUME Bad # {} PROVE FALSE OBVIOUS
    <2>1. Bad \in SUBSET Nat OBVIOUS
    <2>2. PICK m \in Bad : \A k \in Bad : m <= k
      <3> HIDE DEF Bad
      <3> QED BY <2>1, Least
    <2>3. f[m] = ParamAt(q.params, args, f, m) BY <1>4, <2>2, ParamsAt
    <2>4. m # 0
      <3>1. AccOK([env |-> <<>>, next |-> 1]) BY EmptyEnv DEF AccOK
      <3>2. m = 0 => f[m] = [env |-> <<>>, next |-> 1] BY <2>3 DEF ParamAt
      <3>3. ~ AccOK(f[m]) BY <2>2
      <3> QED BY <3>1, <3>2, <3>3
    <2>5. AccOK(f[m - 1]) BY <2>2, <2>4
    <2>6. ParamOK(q.params[m])
      <3>1. m \in 1 .. Len(q.params) BY <1>1, <2>2, <2>4
      <3> QED BY <3>1
    <2>7. AccOK(BindParam(f[m - 1], q.params[m], args)) BY <2>5, <2>6, BindParamOK
    <2>8. f[m] = BindParam(f[m - 1], q.params[m], args) BY <2>3, <2>4 DEF ParamAt
    <2> QED BY <2>2, <2>7, <2>8
  <1>7. AccOK(f[n]) BY <1>6
  <1> QED BY <1>5, <1>7 DEF AccOK

\* poly_build_env_from_args and poly_bind_from_return_type leave at most
\* MAX_POLY_ENV_ENTRIES slots, whatever the parameters and arguments.
LEMMA CallEnvOK ==
  ASSUME NEW p \in DOMAIN Procs, NEW args, NEW want
  PROVE  EnvOK(CallEnv(Procs[p], args, want))
  <1>1. PICK q : q = Procs[p] OBVIOUS
  <1>2. Len(q.params) \in Nat /\ \A i \in 1 .. Len(q.params) : ParamOK(q.params[i])
    BY <1>1, ProgramAssumption DEF ParamOK
  <1>3. PICK e : e = EnvFromArgs(q, args) OBVIOUS
  <1>4. EnvOK(e) BY <1>2, <1>3, EnvFromArgsOK
  <1>5. \A n : EnvOK(AddSlot(e, TypeSlot(n, want))) BY <1>4, AddSlotOK, SlotsAre
  <1>6. ASSUME NEW U PROVE EnvOK([i \in DOMAIN e |-> IF i \in U /\ e[i].type = Nothing
                                                   THEN [e[i] EXCEPT !.type = want] ELSE e[i]])
    <2>1. PICK f : f = [i \in DOMAIN e |-> IF i \in U /\ e[i].type = Nothing
                                           THEN [e[i] EXCEPT !.type = want] ELSE e[i]]
      OBVIOUS
    <2>2. ASSUME NEW i \in DOMAIN e PROVE SlotOK(f[i])
      <3>1. PICK x : x = e[i] OBVIOUS
      <3>2. SlotOK(x) BY <1>4, <3>1, SlotDomain
      <3>3. SlotOK([x EXCEPT !.type = want]) BY <3>2 DEF SlotOK
      <3>4. f[i] = x \/ f[i] = [x EXCEPT !.type = want] BY <2>1, <3>1
      <3> QED BY <3>2, <3>3, <3>4
    <2>3. DOMAIN f = DOMAIN e /\ f = [i \in DOMAIN e |-> f[i]] BY <2>1
    <2>4. EnvOK(f) BY <1>4, <2>2, <2>3, ChangedSlots
    <2> QED BY <2>1, <2>4
  <1>7. EnvOK(BindFromReturn(q, e, want)) BY <1>4, <1>5, <1>6, Zenon DEF BindFromReturn
  <1> QED BY <1>1, <1>3, <1>7 DEF CallEnv

-----------------------------------------------------------------------------
(* The inductive invariant.                                                *)

FrameFields == {"proc", "name", "rest", "prev", "busy", "args", "tries", "hits", "saved", "arms", "calls"}

\* What a call may be resolved to
PlainNames == {PlainName(p) : p \in PlainProcs}
Answers(c) == c \cup PlainNames
KnownNames(c) == c \cup {PlainName(p) : p \in Range(Plain) \cup {Main}}

FrameOK(f, tree, c) ==
    /\ DOMAIN f = FrameFields
    /\ f.proc \in DOMAIN Procs \cup {Main}
    /\ f.rest \in Seq(tree)
    /\ f.prev \in BOOLEAN
    /\ f.busy \in BOOLEAN
    /\ f.tries \in Seq(PolyProcs)
    /\ f.hits \in Seq(Answers(c))
    /\ f.busy => f.rest # <<>>
    /\ f.tries # <<>> => f.busy

\* Every frame but the innermost waits for the answer to a call.
CallsOK(fr, tree, c) ==
    /\ IsSeq(fr)
    /\ \A i \in 1 .. Len(fr) : FrameOK(fr[i], tree, c) /\ (fr[i].prev <=> i > 2)
    /\ \A i \in 1 .. Len(fr) - 1 : fr[i].tries # <<>>
    /\ \A i \in 2 .. Len(fr) : fr[i].proc \in DOMAIN Procs

EnvsOK(fr, en) ==
    /\ IsSeq(en) /\ Len(en) = IF Len(fr) = 0 THEN 0 ELSE Len(fr) - 1
    /\ \A i \in 1 .. Len(en) : /\ EnvOK(en[i]) /\ en[i] # <<>>
                              /\ fr[i + 1].name = MangledName(fr[i + 1].proc, en[i])

CallsInv ==
    /\ CallsOK(frames, Nodes[body], cache) /\ EnvsOK(frames, envs)
    /\ instantiating \in BOOLEAN /\ (instantiating <=> Len(frames) > 1)
    /\ phase # "analyse" => frames = <<>>

NotesInv ==
    /\ IsSeq(pending) /\ cache = {pending[i].name : i \in 1 .. Len(pending)}
    /\ \A i \in 1 .. Len(pending) : pending[i].proc \in DOMAIN Procs
    /\ \A x \in DOMAIN called : called[x] \in Answers(cache)
    /\ \A s \in Nodes[body] : s.id \in DOMAIN selected => selected[s.id] \in 0 .. Len(s.arms)
    /\ errors \in Nat /\ body \in Bodies
    /\ todo \in Seq(Range(Plain) \cup {Main})
    /\ phase \in {"analyse", "generate", "rejected", "failed", "done"}

BodyOK(g, tree, c) ==
    /\ DOMAIN g = {"name", "rest", "ints", "calls", "arms"}
    /\ g.rest \in Seq(tree)
    /\ g.calls \in Seq(Answers(c) \cup {None})
    /\ g.name \in KnownNames(c)

\* The functions that have a body or are being given one
Makes(b, g) == DOMAIN b \cup (IF g = <<>> THEN {} ELSE {g[1].name})

\* What generation is at: every plain procedure is made or still to do, and so is
\* every specialization.
GenOK(g, b, w, n, ph, tree, pend, c) ==
    /\ g = <<>> \/ (g = <<g[1]>> /\ BodyOK(g[1], tree, c))
    /\ \A f \in DOMAIN b : f \in KnownNames(c) /\ b[f].calls \in Seq(Answers(c) \cup {None})
    /\ n \in 0 .. Len(pend)
    /\ ph = "analyse" => g = <<>> /\ b = <<>> /\ n = 0
    /\ ph \in {"generate", "failed", "done"} =>
         /\ \A p \in PlainProcs : p \in Range(w) \/ PlainName(p) \in Makes(b, g)
         /\ \A i \in 1 .. n : pend[i].name \in Makes(b, g)
    /\ ph = "done" => w = <<>> /\ g = <<>> /\ n = Len(pend)
                      /\ \A f \in DOMAIN b : None \notin Range(b[f].calls)

GenInv == GenOK(gen, built, todo, drained, phase, Nodes[body], pending, cache)

IInv == CallsInv /\ NotesInv /\ GenInv

-----------------------------------------------------------------------------
(* The stack of bodies under analysis.                                     *)

LEMMA FrameLarger ==
  ASSUME NEW f, NEW tree, NEW c, FrameOK(f, tree, c), NEW d, c \subseteq d
  PROVE  FrameOK(f, tree, d)
  <1>1. Answers(c) \subseteq Answers(d) BY DEF Answers
  <1>2. f.hits \in Seq(Answers(d)) BY <1>1 DEF FrameOK
  <1> QED BY <1>2 DEF FrameOK

\* The innermost body goes on.
LEMMA ReplaceTop ==
  ASSUME NEW fr, NEW en, NEW tree, NEW c, CallsOK(fr, tree, c), EnvsOK(fr, en), fr # <<>>,
         NEW d, c \subseteq d, NEW f, FrameOK(f, tree, d),
         f.proc = fr[Len(fr)].proc, f.name = fr[Len(fr)].name, f.prev = fr[Len(fr)].prev
  PROVE  /\ CallsOK(Append(Front(fr), f), tree, d) /\ EnvsOK(Append(Front(fr), f), en)
         /\ Len(Append(Front(fr), f)) = Len(fr)
  <1>1. PICK t : t = Append(Front(fr), f) OBVIOUS
  <1>2. IsSeq(fr) /\ Len(fr) \in Nat /\ Len(fr) > 0
    <2>1. IsSeq(fr) BY DEF CallsOK
    <2> QED BY <2>1, FrontIs
  <1>3. IsSeq(t) /\ Len(t) = Len(fr) /\ t[Len(fr)] = f /\ \A k \in 1 .. Len(fr) - 1 : t[k] = fr[k]
    BY <1>1, <1>2, WithLast
  <1>4. ASSUME NEW i \in 1 .. Len(t)
        PROVE  /\ FrameOK(t[i], tree, d) /\ (t[i].prev <=> i > 2)
               /\ t[i].proc = fr[i].proc /\ t[i].name = fr[i].name
    <2>1. CASE i = Len(fr) BY <1>2, <1>3, <2>1 DEF CallsOK
    <2>2. CASE i # Len(fr)
      <3>1. i \in 1 .. Len(fr) - 1 /\ i \in 1 .. Len(fr) BY <1>2, <1>3, <2>2
      <3>2. t[i] = fr[i] BY <1>3, <3>1
      <3>3. FrameOK(fr[i], tree, c) /\ (fr[i].prev <=> i > 2) BY <3>1 DEF CallsOK
      <3>4. FrameOK(fr[i], tree, d) BY <3>3, FrameLarger
      <3> QED BY <3>2, <3>3, <3>4
    <2> QED BY <2>1, <2>2
  <1>5. CallsOK(t, tree, d)
    <2>1. \A i \in 1 .. Len(t) - 1 : t[i].tries # <<>> BY <1>3 DEF CallsOK
    <2>2. \A i \in 2 .. Len(t) : t[i].proc \in DOMAIN Procs BY <1>2, <1>3, <1>4 DEF CallsOK
    <2> QED BY <1>3, <1>4, <2>1, <2>2 DEF CallsOK
  <1>6. EnvsOK(t, en)
    <2>1. ASSUME NEW i \in 1 .. Len(en) PROVE t[i + 1].name = MangledName(t[i + 1].proc, en[i])
      <3>1. i + 1 \in 1 .. Len(t) BY <1>2, <1>3 DEF EnvsOK
      <3>2. t[i + 1].proc = fr[i + 1].proc /\ t[i + 1].name = fr[i + 1].name BY <1>4, <3>1
      <3> QED BY <3>2 DEF EnvsOK
    <2> QED BY <1>3, <2>1 DEF EnvsOK
  <1> QED BY <1>1, <1>3, <1>5, <1>6

\* A specialization is begun.
LEMMA PushFrame ==
  ASSUME NEW fr, NEW en, NEW tree, NEW c, CallsOK(fr, tree, c), EnvsOK(fr, en), fr # <<>>,
         fr[Len(fr)].tries # <<>>, NEW f, FrameOK(f, tree, c), f.proc \in DOMAIN Procs,
         f.prev <=> Len(fr) > 1, NEW e, EnvOK(e), e # <<>>, f.name = MangledName(f.proc, e)
  PROVE  /\ CallsOK(Append(fr, f), tree, c) /\ EnvsOK(Append(fr, f), Append(en, e))
         /\ Len(Append(fr, f)) = Len(fr) + 1 /\ Len(fr) \in Nat /\ Len(fr) > 0
  <1>1. PICK t : t = Append(fr, f) OBVIOUS
  <1>2. IsSeq(fr) /\ Len(fr) \in Nat /\ Len(fr) > 0
    <2>1. IsSeq(fr) BY DEF CallsOK
    <2> QED BY <2>1, FrontIs
  <1>3. IsSeq(t) /\ Len(t) = Len(fr) + 1 /\ t[Len(fr) + 1] = f /\ \A k \in 1 .. Len(fr) : t[k] = fr[k]
    BY <1>1, <1>2, AppendIs
  <1>4. ASSUME NEW i \in 1 .. Len(t) PROVE FrameOK(t[i], tree, c) /\ (t[i].prev <=> i > 2)
    <2>1. CASE i = Len(fr) + 1 BY <1>2, <1>3, <2>1
    <2>2. CASE i # Len(fr) + 1
      <3>1. i \in 1 .. Len(fr) BY <1>2, <1>3, <2>2
      <3> QED BY <1>3, <3>1 DEF CallsOK
    <2> QED BY <2>1, <2>2
  <1>5. CallsOK(t, tree, c)
    <2>1. ASSUME NEW i \in 1 .. Len(t) - 1 PROVE t[i].tries # <<>>
      <3>1. i \in 1 .. Len(fr) /\ t[i] = fr[i] BY <1>2, <1>3
      <3>2. i = Len(fr) \/ i \in 1 .. Len(fr) - 1 BY <1>2, <3>1
      <3> QED BY <3>1, <3>2 DEF CallsOK
    <2>2. ASSUME NEW i \in 2 .. Len(t) PROVE t[i].proc \in DOMAIN Procs
      <3>1. i = Len(fr) + 1 \/ i \in 2 .. Len(fr) BY <1>2, <1>3
      <3> QED BY <1>2, <1>3, <3>1 DEF CallsOK
    <2> QED BY <1>3, <1>4, <2>1, <2>2 DEF CallsOK
  <1>6. PICK u : u = Append(en, e) OBVIOUS
  <1>7. IsSeq(en) /\ Len(en) = Len(fr) - 1 /\ Len(en) \in Nat BY <1>2 DEF EnvsOK
  <1>8. IsSeq(u) /\ Len(u) = Len(fr) /\ u[Len(fr)] = e /\ \A k \in 1 .. Len(en) : u[k] = en[k]
    <2>1. IsSeq(u) /\ Len(u) = Len(en) + 1 /\ u[Len(en) + 1] = e /\ \A k \in 1 .. Len(en) : u[k] = en[k]
      BY <1>6, <1>7, AppendIs
    <2>2. Len(en) + 1 = Len(fr) BY <1>2, <1>7
    <2> QED BY <2>1, <2>2
  <1>9. EnvsOK(t, u)
    <2>1. ASSUME NEW i \in 1 .. Len(u)
          PROVE  EnvOK(u[i]) /\ u[i] # <<>> /\ t[i + 1].name = MangledName(t[i + 1].proc, u[i])
      <3>1. CASE i = Len(fr) BY <1>3, <1>8, <3>1
      <3>2. CASE i # Len(fr)
        <4>1. i \in 1 .. Len(en) /\ i + 1 \in 1 .. Len(fr) BY <1>2, <1>7, <1>8, <3>2
        <4>2. u[i] = en[i] /\ t[i + 1] = fr[i + 1] BY <1>3, <1>8, <4>1
        <4> QED BY <4>1, <4>2 DEF EnvsOK
      <3> QED BY <3>1, <3>2
    <2>2. Len(u) = IF Len(t) = 0 THEN 0 ELSE Len(t) - 1 BY <1>2, <1>3, <1>8
    <2> QED BY <1>8, <2>1, <2>2 DEF EnvsOK
  <1> QED BY <1>1, <1>2, <1>3, <1>5, <1>6, <1>9

\* A specialization is done.
LEMMA PopFrame ==
  ASSUME NEW fr, NEW en, NEW tree, NEW c, CallsOK(fr, tree, c), EnvsOK(fr, en), Len(fr) > 1
  PROVE  /\ CallsOK(Front(fr), tree, c) /\ EnvsOK(Front(fr), Front(en))
         /\ Len(Front(fr)) = Len(fr) - 1 /\ Front(fr) # <<>> /\ Len(fr) \in Nat
         /\ Front(fr)[Len(fr) - 1] = fr[Len(fr) - 1]
  <1>1. PICK t : t = Front(fr) OBVIOUS
  <1>2. IsSeq(fr) /\ Len(fr) \in Nat /\ fr # <<>>
    <2>1. IsSeq(fr) /\ Len(fr) \in Nat BY DEF CallsOK, IsSeq
    <2>2. Len(fr) # 0 BY <2>1
    <2> QED BY <2>1, <2>2, EmptyIs
  <1>3. IsSeq(t) /\ Len(t) = Len(fr) - 1 /\ \A k \in 1 .. Len(fr) - 1 : t[k] = fr[k] BY <1>1, <1>2, FrontIs
  <1>4. t # <<>>
    <2>1. Len(t) # 0 BY <1>2, <1>3
    <2> QED BY <1>3, <2>1, EmptyIs
  <1>5. CallsOK(t, tree, c)
    <2>1. \A i \in 1 .. Len(t) : i \in 1 .. Len(fr) /\ t[i] = fr[i] BY <1>2, <1>3
    <2>2. \A i \in 1 .. Len(t) - 1 : t[i].tries # <<>>
      <3>1. \A i \in 1 .. Len(t) - 1 : i \in 1 .. Len(t) /\ i \in 1 .. Len(fr) - 1 BY <1>2, <1>3
      <3> QED BY <2>1, <3>1 DEF CallsOK
    <2>3. \A i \in 2 .. Len(t) : t[i].proc \in DOMAIN Procs
      <3>1. \A i \in 2 .. Len(t) : i \in 1 .. Len(t) /\ i \in 2 .. Len(fr) BY <1>2, <1>3
      <3> QED BY <2>1, <3>1 DEF CallsOK
    <2> QED BY <1>3, <2>1, <2>2, <2>3 DEF CallsOK
  <1>6. IsSeq(en) /\ Len(en) = Len(fr) - 1 /\ en # <<>>
    <2>1. IsSeq(en) /\ Len(en) = Len(fr) - 1 BY <1>2 DEF EnvsOK
    <2>2. Len(en) # 0 BY <1>2, <2>1
    <2> QED BY <2>1, <2>2, EmptyIs
  <1>7. PICK u : u = Front(en) OBVIOUS
  <1>8. IsSeq(u) /\ Len(u) = Len(en) - 1 /\ \A k \in 1 .. Len(en) - 1 : u[k] = en[k] BY <1>6, <1>7, FrontIs
  <1>9. EnvsOK(t, u)
    <2>1. ASSUME NEW i \in 1 .. Len(u)
          PROVE  EnvOK(u[i]) /\ u[i] # <<>> /\ t[i + 1].name = MangledName(t[i + 1].proc, u[i])
      <3>1. i \in 1 .. Len(en) - 1 /\ i \in 1 .. Len(en) /\ i + 1 \in 1 .. Len(fr) - 1 BY <1>2, <1>6, <1>8
      <3>2. u[i] = en[i] /\ t[i + 1] = fr[i + 1] BY <1>3, <1>8, <3>1
      <3> QED BY <3>1, <3>2 DEF EnvsOK
    <2>2. Len(u) = IF Len(t) = 0 THEN 0 ELSE Len(t) - 1 BY <1>2, <1>3, <1>6, <1>8
    <2> QED BY <1>8, <2>1, <2>2 DEF EnvsOK
  <1>10. t[Len(fr) - 1] = fr[Len(fr) - 1] BY <1>2, <1>3
  <1> QED BY <1>1, <1>2, <1>3, <1>4, <1>5, <1>7, <1>9, <1>10

LEMMA TopFacts ==
  ASSUME CallsInv, frames # <<>>
  PROVE  FrameOK(Top, Nodes[body], cache) /\ Len(frames) \in Nat /\ Len(frames) > 0
  <1>1. IsSeq(frames) BY DEF CallsInv, CallsOK
  <1>2. Len(frames) \in Nat /\ Len(frames) > 0 BY <1>1, FrontIs
  <1>3. FrameOK(frames[Len(frames)], Nodes[body], cache) BY <1>2 DEF CallsInv, CallsOK
  <1> QED BY <1>2, <1>3 DEF Top

LEMMA NowFacts ==
  ASSUME CallsInv, frames # <<>>, Top.rest # <<>>
  PROVE  Now \in Nodes[body] /\ Tail(Top.rest) \in Seq(Nodes[body])
  <1>1. PICK r : r = Top.rest OBVIOUS
  <1>2. r \in Seq(Nodes[body]) /\ r # <<>> BY <1>1, TopFacts DEF FrameOK
  <1>3. Head(r) \in Nodes[body] /\ Tail(r) \in Seq(Nodes[body]) BY <1>2
  <1> QED BY <1>1, <1>3 DEF Now

\* An analysis step that ends no body leaves the rest of the state as it was.
LEMMA TopStep ==
  ASSUME CallsInv, frames # <<>>, phase = "analyse",
         NEW f, FrameOK(f, Nodes[body], cache), f.proc = Top.proc, f.name = Top.name, f.prev = Top.prev,
         frames' = WithTop(f), envs' = envs, instantiating' = instantiating,
         UNCHANGED <<body, cache, phase>>
  PROVE  CallsInv'
  <1>1. PICK t : t = Append(Front(frames), f) OBVIOUS
  <1>2. CallsOK(t, Nodes[body], cache) /\ EnvsOK(t, envs) /\ Len(t) = Len(frames)
    <2>1. CallsOK(frames, Nodes[body], cache) /\ EnvsOK(frames, envs) BY DEF CallsInv
    <2>2. f.proc = frames[Len(frames)].proc /\ f.name = frames[Len(frames)].name
          /\ f.prev = frames[Len(frames)].prev
      BY DEF Top
    <2> QED BY <1>1, <2>1, <2>2, ReplaceTop
  <1>3. frames' = t BY <1>1 DEF WithTop, Below
  <1> QED BY <1>2, <1>3 DEF CallsInv

LEMMA AnalysisKeepsGen ==
  ASSUME GenInv, phase = "analyse", phase' = "analyse", UNCHANGED <<gen, built, drained>>,
         Len(pending') \in Nat
  PROVE  GenInv'
  BY DEF GenInv, GenOK

LEMMA AnswersGrow == ASSUME NEW c, NEW d, c \subseteq d PROVE Answers(c) \subseteq Answers(d)
  BY DEF Answers

LEMMA GenerationKeepsCalls ==
  ASSUME CallsInv, phase # "analyse", UNCHANGED <<body, frames, analysis>>
  PROVE  CallsInv'
  BY DEF CallsInv, analysis

LEMMA GenerationKeepsNotes ==
  ASSUME NotesInv, UNCHANGED <<body, analysis>>, todo' \in Seq(Range(Plain) \cup {Main}),
         phase' \in {"analyse", "generate", "rejected", "failed", "done"}
  PROVE  NotesInv'
  BY DEF NotesInv, analysis

-----------------------------------------------------------------------------
(* The analysis, an action at a time.                                      *)

\* The procedures the program is made of
LEMMA ProcFacts ==
  ASSUME body \in Bodies, NEW p \in DOMAIN Procs \cup {Main}
  PROVE  /\ Proc(p).body \in Seq(Nodes[body])
         /\ p \in DOMAIN Procs => Proc(p) = Procs[p]
         /\ p = Main => ~ Proc(p).poly
  <1>1. CASE p = Main
    <2>1. Proc(p).body = body /\ ~ Proc(p).poly BY <1>1 DEF Proc
    <2>2. p \notin DOMAIN Procs BY <1>1, ProgramAssumption
    <2>3. body \in Seq(Nodes[body]) BY ProgramAssumption
    <2> QED BY <2>1, <2>2, <2>3
  <1>2. CASE p # Main
    <2>1. Proc(p) = Procs[p] /\ p \in DOMAIN Procs BY <1>2 DEF Proc
    <2>2. Procs[p].body \in Seq(Nodes[body]) BY <2>1, ProgramAssumption
    <2> QED BY <1>2, <2>1, <2>2
  <1> QED BY <1>1, <1>2

LEMMA PlainAre == Range(Plain) \subseteq DOMAIN Procs
  <1>1. Plain \in Seq(DOMAIN Procs) BY ProgramAssumption
  <1> QED BY <1>1 DEF Range

\* A frame at the start of a body
LEMMA NewFrame ==
  ASSUME body \in Bodies, NEW p \in DOMAIN Procs \cup {Main}, NEW n, NEW v \in BOOLEAN
  PROVE  /\ FrameOK(Frame(p, n, v), Nodes[body], cache)
         /\ Frame(p, n, v).proc = p /\ Frame(p, n, v).name = n /\ Frame(p, n, v).prev = v
  <1>1. PICK r : r = Proc(p).body OBVIOUS
  <1>2. r \in Seq(Nodes[body]) BY <1>1, ProcFacts
  <1>3. PICK f : f = [proc |-> p, name |-> n, rest |-> r, prev |-> v,
                      busy |-> FALSE, args |-> <<>>, tries |-> <<>>, hits |-> <<>>, saved |-> Nothing,
                      arms |-> <<>>, calls |-> <<>>]
    OBVIOUS
  <1>4. /\ DOMAIN f = FrameFields /\ f.proc = p /\ f.name = n /\ f.rest = r /\ f.prev = v
        /\ f.busy = FALSE /\ f.tries = <<>> /\ f.hits = <<>>
    BY <1>3 DEF FrameFields
  <1>5. f.tries \in Seq(PolyProcs) /\ f.hits \in Seq(Answers(cache)) BY <1>4
  <1>6. FrameOK(f, Nodes[body], cache) BY <1>2, <1>4, <1>5 DEF FrameOK
  <1>7. Frame(p, n, v) = f BY <1>1, <1>3 DEF Frame
  <1> QED BY <1>4, <1>6, <1>7

LEMMA AnalyseProcStep == ASSUME IInv, AnalyseProc PROVE IInv'
  <1>1. PICK p : p = Head(todo) OBVIOUS
  <1>2. p \in Range(Plain) \cup {Main} /\ todo' \in Seq(Range(Plain) \cup {Main})
    BY <1>1 DEF IInv, NotesInv, AnalyseProc
  <1>3. CallsInv'
    <2>1. PICK f : f = Frame(p, PlainName(p), instantiating) OBVIOUS
    <2>2. frames = <<>> /\ Len(frames) = 0 /\ instantiating = FALSE /\ phase = "analyse"
      BY DEF AnalyseProc, IInv, CallsInv
    <2>3. FrameOK(f, Nodes[body], cache) /\ f.prev = FALSE
      <3>1. p \in DOMAIN Procs \cup {Main} BY <1>2, PlainAre
      <3> QED BY <2>1, <2>2, <3>1, NewFrame DEF IInv, NotesInv
    <2>4. frames' = <<>> \/ frames' = <<f>> BY <1>1, <2>1 DEF AnalyseProc
    <2>5. /\ envs' = envs /\ instantiating' = instantiating /\ body' = body /\ cache' = cache
          /\ phase' = phase
      BY DEF AnalyseProc, analysis
    <2>6. CASE frames' = <<>> BY <2>2, <2>5, <2>6 DEF IInv, CallsInv
    <2>7. CASE frames' = <<f>>
      <3>1. PICK t : t = <<f>> OBVIOUS
      <3>2. IsSeq(t) /\ Len(t) = 1 /\ t[1] = f BY <3>1, SingleIs
      <3>3. CallsOK(t, Nodes[body], cache) BY <2>3, <3>2 DEF CallsOK
      <3>4. EnvsOK(t, envs) BY <2>2, <3>2 DEF IInv, CallsInv, EnvsOK
      <3>5. frames' = t BY <2>7, <3>1
      <3>6. instantiating' = FALSE /\ ~ (Len(t) > 1) BY <2>2, <2>5, <3>2
      <3>7. CallsOK(frames', Nodes[body'], cache') /\ EnvsOK(frames', envs') BY <2>5, <3>3, <3>4, <3>5
      <3> QED BY <2>2, <2>5, <3>5, <3>6, <3>7 DEF CallsInv
    <2> QED BY <2>4, <2>6, <2>7
  <1>4. NotesInv' BY <1>2 DEF IInv, NotesInv, AnalyseProc, analysis
  <1>5. GenInv'
    <2>1. Len(pending) \in Nat BY DEF IInv, NotesInv, IsSeq
    <2> QED BY <2>1, AnalysisKeepsGen DEF IInv, AnalyseProc, analysis, output
  <1> QED BY <1>3, <1>4, <1>5 DEF IInv

LEMMA NodeFacts ==
  ASSUME body \in Bodies, NEW s \in Nodes[body]
  PROVE  /\ s.arms \in Seq(Seq(Nodes[body])) /\ Len(s.arms) \in Nat
         /\ Len(s.conds) \in 0 .. Len(s.arms) /\ DOMAIN s.conds = 1 .. Len(s.conds)
         /\ s.k = "call" => s.callees \in Seq(DOMAIN Procs) /\ s.callees # <<>>
         /\ s.bundle \in BOOLEAN
         /\ \A r \in Nodes[body] : r.id = s.id => r = s
  BY ProgramAssumption

LEMMA StartCallStep == ASSUME IInv, StartCall PROVE IInv'
  <1>1. /\ frames # <<>> /\ Top.rest # <<>> /\ ~ Top.busy /\ Now.k = "call" /\ phase = "analyse"
    BY DEF StartCall, Idle
  <1>2. CallsInv /\ NotesInv /\ GenInv BY DEF IInv
  <1>3. FrameOK(Top, Nodes[body], cache) BY <1>1, <1>2, TopFacts
  <1>4. PICK s : s = Now OBVIOUS
  <1>5. s \in Nodes[body] BY <1>1, <1>2, <1>4, NowFacts
  <1>6. s.callees \in Seq(DOMAIN Procs) BY <1>1, <1>2, <1>4, <1>5, NodeFacts DEF NotesInv
  <1>7. PICK args : args = [i \in DOMAIN Now.args |-> Resolve(Now.args[i], envs)] OBVIOUS
  <1>8. PICK plain : plain = Kept(s.callees, IF s.bundle THEN Matching(args) ELSE PlainProcs) OBVIOUS
  <1>9. PICK tries : tries = IF plain # <<>> THEN <<>> ELSE Kept(s.callees, PolyProcs) OBVIOUS
  <1>10. IsSeq(s.callees) BY <1>6, SeqIs
  <1>11. plain \in Seq(PlainProcs)
    <2>1. PICK S : S = IF s.bundle THEN Matching(args) ELSE PlainProcs OBVIOUS
    <2>2. plain \in Seq(S) BY <1>8, <1>10, <2>1, KeptIs
    <2>3. S \subseteq PlainProcs BY <2>1 DEF Matching
    <2> QED BY <2>2, <2>3
  <1>12. tries \in Seq(PolyProcs)
    <2>1. Kept(s.callees, PolyProcs) \in Seq(PolyProcs) BY <1>10, KeptIs
    <2>2. <<>> \in Seq(PolyProcs) OBVIOUS
    <2> QED BY <1>9, <2>1, <2>2
  <1>13. PICK hits : hits = [i \in DOMAIN plain |-> PlainName(plain[i])] OBVIOUS
  <1>14. hits \in Seq(Answers(cache))
    <2>1. PICK n \in Nat : n = Len(plain) BY <1>11
    <2>2. DOMAIN plain = 1 .. n BY <1>11, <2>1
    <2>3. \A i \in 1 .. n : PlainName(plain[i]) \in Answers(cache) BY <1>11, <2>1 DEF Answers, PlainNames
    <2>4. hits = [i \in 1 .. n |-> PlainName(plain[i])] BY <1>13, <2>2
    <2>5. hits \in [1 .. n -> Answers(cache)] BY <2>3, <2>4
    <2> QED BY <2>5
  <1>15. PICK f : f = [Top EXCEPT !.busy = TRUE, !.args = args, !.saved = expected, !.hits = hits,
                                  !.tries = tries]
    OBVIOUS
  <1>16. FrameOK(f, Nodes[body], cache) /\ f.proc = Top.proc /\ f.name = Top.name /\ f.prev = Top.prev
    <2>1. PICK g : g = Top OBVIOUS
    <2>2. FrameOK(g, Nodes[body], cache) /\ g.rest # <<>> BY <1>1, <1>3, <2>1
    <2>3. f = [g EXCEPT !.busy = TRUE, !.args = args, !.saved = expected, !.hits = hits, !.tries = tries]
      BY <1>15, <2>1
    <2>4. /\ DOMAIN f = FrameFields /\ f.proc = g.proc /\ f.name = g.name /\ f.prev = g.prev
          /\ f.rest = g.rest /\ f.busy = TRUE /\ f.hits = hits /\ f.tries = tries
      BY <2>2, <2>3 DEF FrameOK, FrameFields
    <2> QED BY <1>12, <1>14, <2>1, <2>2, <2>4 DEF FrameOK
  <1>17. frames' = WithTop(f) BY <1>4, <1>7, <1>8, <1>9, <1>13, <1>15 DEF StartCall
  <1>18. CallsInv' BY <1>1, <1>2, <1>16, <1>17, TopStep DEF StartCall
  <1>19. NotesInv' BY <1>2 DEF NotesInv, StartCall
  <1>20. GenInv'
    <2>1. Len(pending) \in Nat BY <1>2 DEF NotesInv, IsSeq
    <2> QED BY <1>1, <1>2, <2>1, AnalysisKeepsGen DEF StartCall, output
  <1> QED BY <1>18, <1>19, <1>20 DEF IInv

\* What a try of a callee starts from
LEMMA TryingFacts ==
  ASSUME CallsInv, NotesInv, Trying
  PROVE  /\ frames # <<>> /\ phase = "analyse"
         /\ Callee \in DOMAIN Procs /\ EnvOK(NewEnv)
         /\ FrameOK(NextTry, Nodes[body], cache) /\ NextTry.hits = Top.hits
         /\ NextTry.proc = Top.proc /\ NextTry.name = Top.name /\ NextTry.prev = Top.prev
  <1>1. frames # <<>> /\ phase = "analyse" /\ Top.busy /\ Top.tries # <<>> BY DEF Trying
  <1>2. PICK g : g = Top OBVIOUS
  <1>3. FrameOK(g, Nodes[body], cache) /\ g.busy /\ g.tries # <<>> BY <1>1, <1>2, TopFacts
  <1>4. PICK tries : tries = g.tries OBVIOUS
  <1>5. tries \in Seq(PolyProcs) /\ tries # <<>> BY <1>3, <1>4 DEF FrameOK
  <1>6. Head(tries) \in PolyProcs /\ Tail(tries) \in Seq(PolyProcs) BY <1>5
  <1>7. Callee \in DOMAIN Procs
    <2>1. Callee = Head(tries) BY <1>2, <1>4 DEF Callee
    <2> QED BY <1>6, <2>1 DEF PolyProcs
  <1>8. EnvOK(NewEnv)
    <2>1. PICK p : p = Callee OBVIOUS
    <2>2. p \in DOMAIN Procs /\ body \in Bodies BY <1>7, <2>1 DEF NotesInv
    <2>3. Proc(p) = Procs[p] BY <2>2, ProcFacts
    <2>4. EnvOK(CallEnv(Procs[p], Top.args, expected)) BY <2>2, CallEnvOK
    <2> QED BY <2>1, <2>3, <2>4 DEF NewEnv
  <1>9. PICK f : f = [g EXCEPT !.tries = Tail(tries)] OBVIOUS
  <1>10. NextTry = f BY <1>2, <1>4, <1>9 DEF NextTry
  <1>11. /\ DOMAIN f = FrameFields /\ f.proc = g.proc /\ f.name = g.name /\ f.prev = g.prev
         /\ f.rest = g.rest /\ f.busy = g.busy /\ f.hits = g.hits /\ f.tries = Tail(tries)
    BY <1>3, <1>9 DEF FrameOK, FrameFields
  <1>12. FrameOK(f, Nodes[body], cache) BY <1>3, <1>6, <1>11 DEF FrameOK
  <1> QED BY <1>1, <1>2, <1>7, <1>8, <1>10, <1>11, <1>12

LEMMA CannotBindStep == ASSUME IInv, CannotBind PROVE IInv'
  <1>1. CallsInv /\ NotesInv /\ GenInv /\ Trying BY DEF IInv, CannotBind
  <1>2. PICK f : f = NextTry OBVIOUS
  <1>3. frames' = WithTop(f) BY <1>2 DEF CannotBind
  <1>4. CallsInv' BY <1>1, <1>2, <1>3, TryingFacts, TopStep DEF CannotBind
  <1>5. NotesInv'
    <2>1. errors' \in Nat BY <1>1 DEF CannotBind, Missed, NotesInv
    <2> QED BY <1>1, <2>1 DEF NotesInv, CannotBind
  <1>6. GenInv'
    <2>1. Len(pending) \in Nat /\ phase = "analyse" BY <1>1 DEF NotesInv, IsSeq, Trying
    <2> QED BY <1>1, <2>1, AnalysisKeepsGen DEF CannotBind, output
  <1> QED BY <1>4, <1>5, <1>6 DEF IInv

LEMMA CacheHitStep == ASSUME IInv, CacheHit PROVE IInv'
  <1>1. CallsInv /\ NotesInv /\ GenInv /\ Trying /\ NewName \in cache BY DEF IInv, CacheHit, Cached
  <1>2. PICK g : g = NextTry OBVIOUS
  <1>3. FrameOK(g, Nodes[body], cache) /\ g.proc = Top.proc /\ g.name = Top.name /\ g.prev = Top.prev
    BY <1>1, <1>2, TryingFacts
  <1>4. PICK name : name = NewName OBVIOUS
  <1>5. PICK hits : hits = g.hits OBVIOUS
  <1>6. Append(hits, name) \in Seq(Answers(cache))
    <2>1. hits \in Seq(Answers(cache)) BY <1>3, <1>5 DEF FrameOK
    <2>2. name \in Answers(cache) BY <1>1, <1>4 DEF Answers
    <2> QED BY <2>1, <2>2
  <1>7. PICK f : f = [g EXCEPT !.hits = Append(hits, name)] OBVIOUS
  <1>8. /\ DOMAIN f = FrameFields /\ f.proc = g.proc /\ f.name = g.name /\ f.prev = g.prev
        /\ f.rest = g.rest /\ f.busy = g.busy /\ f.tries = g.tries /\ f.hits = Append(hits, name)
    BY <1>3, <1>7 DEF FrameOK, FrameFields
  <1>9. FrameOK(f, Nodes[body], cache) BY <1>3, <1>6, <1>8 DEF FrameOK
  <1>10. frames' = WithTop(f) BY <1>2, <1>4, <1>5, <1>7 DEF CacheHit
  <1>11. CallsInv'
    <2>1. frames # <<>> /\ phase = "analyse" BY <1>1 DEF Trying
    <2> QED BY <1>1, <1>3, <1>8, <1>9, <1>10, <2>1, TopStep DEF CacheHit, analysis
  <1>12. NotesInv' BY <1>1 DEF NotesInv, CacheHit, analysis
  <1>13. GenInv'
    <2>1. Len(pending) \in Nat /\ phase = "analyse" BY <1>1 DEF NotesInv, IsSeq, Trying
    <2> QED BY <1>1, <2>1, AnalysisKeepsGen DEF CacheHit, analysis, output
  <1> QED BY <1>11, <1>12, <1>13 DEF IInv

LEMMA WhereRefusesStep == ASSUME IInv, WhereRefuses PROVE IInv'
  <1>1. CallsInv /\ NotesInv /\ GenInv /\ Trying BY DEF IInv, WhereRefuses
  <1>2. PICK f : f = NextTry OBVIOUS
  <1>3. frames' = WithTop(f) BY <1>2 DEF WhereRefuses
  <1>4. envs' = envs
    <2>1. PICK e : e = NewEnv OBVIOUS
    <2>2. IsSeq(envs) BY <1>1 DEF CallsInv, EnvsOK
    <2>3. Front(Append(envs, e)) = envs BY <2>2, FrontAppend
    <2> QED BY <2>1, <2>3 DEF WhereRefuses, Refused, Entered
  <1>5. instantiating' = instantiating BY DEF WhereRefuses, Refused
  <1>6. CallsInv' BY <1>1, <1>2, <1>3, <1>4, <1>5, TryingFacts, TopStep DEF WhereRefuses
  <1>7. NotesInv'
    <2>1. errors' \in Nat BY <1>1 DEF WhereRefuses, Missed, NotesInv
    <2> QED BY <1>1, <2>1 DEF NotesInv, WhereRefuses
  <1>8. GenInv'
    <2>1. Len(pending) \in Nat /\ phase = "analyse" BY <1>1 DEF NotesInv, IsSeq, Trying
    <2> QED BY <1>1, <2>1, AnalysisKeepsGen DEF WhereRefuses, output
  <1> QED BY <1>6, <1>7, <1>8 DEF IInv

LEMMA InstantiateStep == ASSUME IInv, Instantiate PROVE IInv'
  <1>1. CallsInv /\ NotesInv /\ GenInv /\ Trying /\ NewEnv # <<>> BY DEF IInv, Instantiate
  <1>2. PICK e : e = NewEnv OBVIOUS
  <1>3. PICK p : p = Callee OBVIOUS
  <1>4. p \in DOMAIN Procs /\ EnvOK(e) /\ e # <<>> BY <1>1, <1>2, <1>3, TryingFacts
  <1>5. PICK f : f = Frame(p, MangledName(p, e), instantiating) OBVIOUS
  <1>6. /\ FrameOK(f, Nodes[body], cache) /\ f.proc = p /\ f.name = MangledName(p, e)
        /\ f.prev = instantiating
    <2>1. instantiating \in BOOLEAN /\ body \in Bodies BY <1>1 DEF CallsInv, NotesInv
    <2> QED BY <1>4, <1>5, <2>1, NewFrame
  <1>7. PICK t : t = Append(frames, f) OBVIOUS
  <1>8. PICK u : u = Append(envs, e) OBVIOUS
  <1>9. /\ CallsOK(t, Nodes[body], cache) /\ EnvsOK(t, u)
        /\ Len(t) = Len(frames) + 1 /\ Len(frames) \in Nat /\ Len(frames) > 0
    <2>1. CallsOK(frames, Nodes[body], cache) /\ EnvsOK(frames, envs) BY <1>1 DEF CallsInv
    <2>2. frames # <<>> /\ frames[Len(frames)].tries # <<>> BY <1>1 DEF Trying, Top
    <2>3. f.prev <=> Len(frames) > 1 BY <1>1, <1>6 DEF CallsInv
    <2> QED BY <1>4, <1>6, <1>7, <1>8, <2>1, <2>2, <2>3, PushFrame
  <1>10. frames' = t /\ envs' = u
    BY <1>2, <1>3, <1>5, <1>7, <1>8 DEF Instantiate, Entered, NewName
  <1>11. instantiating' = TRUE /\ body' = body /\ cache' = cache /\ phase = "analyse" /\ phase' = phase
    BY <1>1 DEF Instantiate, Trying
  <1>12. CallsInv'
    <2>1. Len(t) > 1 BY <1>9
    <2>2. CallsOK(frames', Nodes[body'], cache') /\ EnvsOK(frames', envs') BY <1>9, <1>10, <1>11
    <2> QED BY <1>10, <1>11, <2>1, <2>2 DEF CallsInv
  <1>13. NotesInv' BY <1>1 DEF NotesInv, Instantiate
  <1>14. GenInv'
    <2>1. Len(pending) \in Nat BY <1>1 DEF NotesInv, IsSeq
    <2> QED BY <1>1, <1>11, <2>1, AnalysisKeepsGen DEF Instantiate, output
  <1> QED BY <1>12, <1>13, <1>14 DEF IInv

LEMMA FinishInstanceStep == ASSUME IInv, FinishInstance PROVE IInv'
  <1>1. CallsInv /\ NotesInv /\ GenInv /\ phase = "analyse" /\ Len(frames) > 1
    BY DEF IInv, FinishInstance
  <1>2. PICK n : n = Top.name OBVIOUS
  <1>3. PICK d : d = cache \cup {n} OBVIOUS
  <1>4. PICK fr : fr = Front(frames) OBVIOUS
  <1>5. PICK en : en = Front(envs) OBVIOUS
  <1>6. PICK L \in Nat : L = Len(frames) BY <1>1 DEF CallsInv, CallsOK, IsSeq
  <1>7. /\ CallsOK(fr, Nodes[body], cache) /\ EnvsOK(fr, en) /\ Len(fr) = L - 1 /\ fr # <<>>
        /\ fr[L - 1] = frames[L - 1]
    <2>1. CallsOK(frames, Nodes[body], cache) /\ EnvsOK(frames, envs) BY <1>1 DEF CallsInv
    <2> QED BY <1>1, <1>4, <1>5, <1>6, <2>1, PopFrame
  <1>8. PICK g : g = fr[L - 1] OBVIOUS
  <1>9. FrameOK(g, Nodes[body], cache) /\ g.tries # <<>>
    <2>1. L - 1 \in 1 .. L - 1 /\ L - 1 \in 1 .. L BY <1>1, <1>6
    <2>2. CallsOK(frames, Nodes[body], cache) /\ Len(frames) = L BY <1>1, <1>6 DEF CallsInv
    <2>3. FrameOK(frames[L - 1], Nodes[body], cache) /\ frames[L - 1].tries # <<>>
      BY <2>1, <2>2 DEF CallsOK
    <2> QED BY <1>7, <1>8, <2>3
  <1>10. Last(Below) = g BY <1>4, <1>7, <1>8 DEF Last, Below
  <1>11. PICK tries : tries = g.tries OBVIOUS
  <1>12. Tail(tries) \in Seq(PolyProcs)
    <2>1. tries \in Seq(PolyProcs) /\ tries # <<>> BY <1>9, <1>11 DEF FrameOK
    <2> QED BY <2>1
  <1>13. PICK hits : hits = g.hits OBVIOUS
  <1>14. Append(hits, n) \in Seq(Answers(d))
    <2>1. hits \in Seq(Answers(cache)) BY <1>9, <1>13 DEF FrameOK
    <2>2. Answers(cache) \subseteq Answers(d) /\ n \in Answers(d) BY <1>3 DEF Answers
    <2>3. hits \in Seq(Answers(d)) BY <2>1, <2>2
    <2> QED BY <2>2, <2>3
  <1>15. PICK f : f = [g EXCEPT !.tries = Tail(tries), !.hits = Append(hits, n)] OBVIOUS
  <1>16. /\ DOMAIN f = FrameFields /\ f.proc = g.proc /\ f.name = g.name /\ f.prev = g.prev
         /\ f.rest = g.rest /\ f.busy = g.busy /\ f.tries = Tail(tries) /\ f.hits = Append(hits, n)
    BY <1>9, <1>15 DEF FrameOK, FrameFields
  <1>17. FrameOK(f, Nodes[body], d) BY <1>9, <1>12, <1>14, <1>16 DEF FrameOK
  <1>18. PICK t : t = Append(Front(fr), f) OBVIOUS
  <1>19. CallsOK(t, Nodes[body], d) /\ EnvsOK(t, en) /\ Len(t) = L - 1
    <2>1. fr[Len(fr)] = g BY <1>7, <1>8
    <2>2. cache \subseteq d BY <1>3
    <2>3. f.proc = fr[Len(fr)].proc /\ f.name = fr[Len(fr)].name /\ f.prev = fr[Len(fr)].prev
      BY <1>16, <2>1
    <2> QED BY <1>7, <1>17, <1>18, <2>2, <2>3, ReplaceTop
  <1>20. frames' = t /\ envs' = en /\ cache' = d /\ body' = body /\ phase' = "analyse"
         /\ instantiating' = Top.prev
    <2>1. frames' = Append(Front(Below), [g EXCEPT !.tries = Tail(@), !.hits = Append(@, n)])
      BY <1>2, <1>10 DEF FinishInstance
    <2>2. frames' = t BY <1>4, <1>11, <1>13, <1>15, <1>18, <2>1 DEF Below
    <2> QED BY <1>1, <1>2, <1>3, <1>5, <2>2 DEF FinishInstance
  <1>21. Top.prev \in BOOLEAN /\ (Top.prev <=> L > 2) /\ Top.proc \in DOMAIN Procs
    <2>1. CallsOK(frames, Nodes[body], cache) /\ Len(frames) = L BY <1>1, <1>6 DEF CallsInv
    <2>2. L \in 1 .. L /\ L \in 2 .. L BY <1>1, <1>6
    <2>3. FrameOK(frames[L], Nodes[body], cache) /\ (frames[L].prev <=> L > 2)
          /\ frames[L].proc \in DOMAIN Procs
      BY <2>1, <2>2 DEF CallsOK
    <2> QED BY <2>1, <2>3 DEF Top, FrameOK
  <1>22. CallsInv'
    <2>1. CallsOK(frames', Nodes[body'], cache') /\ EnvsOK(frames', envs') BY <1>19, <1>20
    <2>2. Len(frames') = L - 1 BY <1>19, <1>20
    <2>3. instantiating' \in BOOLEAN /\ (instantiating' <=> Len(frames') > 1)
      BY <1>20, <1>21, <2>2
    <2> QED BY <1>20, <2>1, <2>3 DEF CallsInv
  <1>23. PICK r : r = [proc |-> Top.proc, name |-> Top.name, env |-> Last(envs),
                       around |-> Front(envs), ints |-> Ints(Last(envs)), args |-> Last(Below).args,
                       arms |-> Top.arms, calls |-> Top.calls]
    OBVIOUS
  <1>24. r.proc \in DOMAIN Procs /\ r.name = n BY <1>2, <1>21, <1>23
  <1>25. PICK q : q = Append(pending, r) OBVIOUS
  <1>26. pending' = q BY <1>23, <1>25 DEF FinishInstance
  <1>27. PICK P \in Nat : P = Len(pending) BY <1>1 DEF NotesInv, IsSeq
  <1>28. IsSeq(q) /\ Len(q) = P + 1 /\ q[P + 1] = r /\ \A k \in 1 .. P : q[k] = pending[k]
    BY <1>1, <1>25, <1>27, AppendIs DEF NotesInv
  <1>29. d = {q[i].name : i \in 1 .. Len(q)}
    <2>1. cache = {pending[i].name : i \in 1 .. P} BY <1>1, <1>27 DEF NotesInv
    <2>2. cache = {q[i].name : i \in 1 .. P} BY <1>28, <2>1
    <2>3. 1 .. Len(q) = (1 .. P) \cup {P + 1} BY <1>27, <1>28
    <2>4. {q[i].name : i \in 1 .. Len(q)} = {q[i].name : i \in 1 .. P} \cup {q[P + 1].name} BY <2>3
    <2> QED BY <1>3, <1>24, <1>28, <2>2, <2>4
  <1>30. \A i \in 1 .. Len(q) : q[i].proc \in DOMAIN Procs
    <2>1. \A i \in 1 .. P : pending[i].proc \in DOMAIN Procs BY <1>1, <1>27 DEF NotesInv
    <2>2. \A i \in 1 .. Len(q) : i = P + 1 \/ i \in 1 .. P BY <1>27, <1>28
    <2> QED BY <1>24, <1>28, <2>1, <2>2
  <1>31. \A x \in DOMAIN called : called[x] \in Answers(d)
    <2>1. Answers(cache) \subseteq Answers(d) BY <1>3, AnswersGrow
    <2> QED BY <1>1, <2>1 DEF NotesInv
  <1>32. NotesInv'
    <2>1. /\ called' = called /\ selected' = selected /\ errors' = errors /\ todo' = todo
          /\ body' = body /\ cache' = d /\ pending' = q /\ phase' = phase
      BY <1>3, <1>2, <1>20, <1>26 DEF FinishInstance
    <2>2. IsSeq(pending') /\ cache' = {pending'[i].name : i \in 1 .. Len(pending')}
          /\ \A i \in 1 .. Len(pending') : pending'[i].proc \in DOMAIN Procs
      BY <1>28, <1>29, <1>30, <2>1
    <2>3. \A x \in DOMAIN called' : called'[x] \in Answers(cache') BY <1>31, <2>1
    <2>4. /\ \A s \in Nodes[body] : s.id \in DOMAIN selected => selected[s.id] \in 0 .. Len(s.arms)
          /\ errors \in Nat /\ body \in Bodies /\ todo \in Seq(Range(Plain) \cup {Main})
          /\ phase \in {"analyse", "generate", "rejected", "failed", "done"}
      BY <1>1 DEF NotesInv
    <2> QED BY <2>1, <2>2, <2>3, <2>4 DEF NotesInv
  <1>33. GenInv'
    <2>1. Len(pending') \in Nat BY <1>26, <1>27, <1>28
    <2> QED BY <1>1, <1>20, <2>1, AnalysisKeepsGen DEF FinishInstance, output
  <1> QED BY <1>22, <1>32, <1>33 DEF IInv

LEMMA FinishPlainStep == ASSUME IInv, FinishPlain PROVE IInv'
  <1>1. CallsInv /\ NotesInv /\ GenInv /\ phase = "analyse" /\ Len(frames) = 1
    BY DEF IInv, FinishPlain
  <1>2. frames' = <<>> /\ Len(frames') = 0 /\ IsSeq(frames')
    <2>1. PICK t : t = <<>> OBVIOUS
    <2>2. Len(t) = 0 /\ IsSeq(t) BY <2>1, EmptyIs
    <2> QED BY <2>1, <2>2 DEF FinishPlain
  <1>3. /\ envs' = envs /\ instantiating' = instantiating /\ body' = body /\ cache' = cache
        /\ phase' = phase /\ pending' = pending
    BY DEF FinishPlain, analysis
  <1>4. CallsInv'
    <2>1. IsSeq(envs) /\ Len(envs) = 0 /\ instantiating = FALSE BY <1>1 DEF CallsInv, EnvsOK
    <2>2. CallsOK(frames', Nodes[body'], cache') BY <1>2 DEF CallsOK
    <2>3. EnvsOK(frames', envs') BY <1>2, <1>3, <2>1 DEF EnvsOK
    <2>4. instantiating' = FALSE /\ ~ (Len(frames') > 1) /\ phase' = "analyse" BY <1>1, <1>2, <1>3, <2>1
    <2> QED BY <2>2, <2>3, <2>4 DEF CallsInv
  <1>5. NotesInv' BY <1>1 DEF NotesInv, FinishPlain, analysis
  <1>6. GenInv'
    <2>1. Len(pending) \in Nat BY <1>1 DEF NotesInv, IsSeq
    <2> QED BY <1>1, <1>3, <2>1, AnalysisKeepsGen DEF FinishPlain, output
  <1> QED BY <1>4, <1>5, <1>6 DEF IInv

LEMMA EndAnalysisStep == ASSUME IInv, EndAnalysis PROVE IInv'
  <1>1. /\ CallsInv /\ NotesInv /\ GenInv /\ phase = "analyse" /\ frames = <<>>
        /\ phase' \in {"generate", "rejected"}
    BY DEF IInv, EndAnalysis
  <1>2. CallsInv' BY <1>1 DEF CallsInv, EndAnalysis, analysis
  <1>3. Plain \in Seq(Range(Plain)) /\ todo' = Append(Plain, Main)
    <2>1. Plain \in Seq(DOMAIN Procs) BY ProgramAssumption
    <2> QED BY <2>1 DEF Range, EndAnalysis
  <1>4. PICK w : w = Append(Plain, Main) OBVIOUS
  <1>5. w \in Seq(Range(Plain) \cup {Main}) BY <1>3, <1>4
  <1>6. NotesInv' BY <1>1, <1>3, <1>4, <1>5, GenerationKeepsNotes DEF EndAnalysis
  <1>7. \A p \in PlainProcs : p \in Range(w)
    <2>1. PICK n \in Nat : n = Len(Plain) /\ DOMAIN Plain = 1 .. n BY <1>3
    <2>2. ASSUME NEW p \in Range(Plain) PROVE p \in Range(w)
      <3>1. PICK i \in 1 .. n : Plain[i] = p BY <2>1 DEF Range
      <3>2. i \in DOMAIN w /\ w[i] = p BY <1>3, <1>4, <2>1, <3>1
      <3> QED BY <3>2 DEF Range
    <2>3. PlainProcs \subseteq Range(Plain) BY ProgramAssumption DEF PlainProcs
    <2> QED BY <2>2, <2>3
  <1>8. GenInv'
    <2>1. /\ gen' = <<>> /\ built' = <<>> /\ drained' = 0 /\ pending' = pending /\ todo' = w
          /\ Len(pending) \in Nat
      BY <1>1, <1>3, <1>4 DEF GenInv, GenOK, NotesInv, IsSeq, EndAnalysis, analysis, output
    <2> QED BY <1>1, <1>7, <2>1 DEF GenInv, GenOK
  <1> QED BY <1>2, <1>6, <1>8 DEF IInv

LEMMA FinishCallStep == ASSUME IInv, FinishCall PROVE IInv'
  <1>1. /\ CallsInv /\ NotesInv /\ GenInv /\ phase = "analyse" /\ frames # <<>>
        /\ Top.busy /\ Top.tries = <<>>
    BY DEF IInv, FinishCall
  <1>2. PICK g : g = Top OBVIOUS
  <1>3. FrameOK(g, Nodes[body], cache) /\ g.busy /\ g.tries = <<>> /\ g.rest # <<>>
    BY <1>1, <1>2, TopFacts DEF FrameOK
  <1>4. PICK s : s = Now OBVIOUS
  <1>5. s \in Nodes[body] /\ Tail(g.rest) \in Seq(Nodes[body]) BY <1>1, <1>2, <1>3, <1>4, NowFacts
  <1>6. PICK rest : rest = Tail(g.rest) OBVIOUS
  <1>7. PICK calls : calls = IF Len(g.hits) = 1 THEN Append(g.calls, g.hits[1]) ELSE g.calls OBVIOUS
  <1>8. PICK f : f = [g EXCEPT !.busy = FALSE, !.rest = rest, !.calls = calls] OBVIOUS
  <1>9. /\ DOMAIN f = FrameFields /\ f.proc = g.proc /\ f.name = g.name /\ f.prev = g.prev
        /\ f.rest = rest /\ f.busy = FALSE /\ f.tries = g.tries /\ f.hits = g.hits
    BY <1>3, <1>8 DEF FrameOK, FrameFields
  <1>10. FrameOK(f, Nodes[body], cache) BY <1>3, <1>5, <1>6, <1>9 DEF FrameOK
  <1>11. frames' = WithTop(f)
    <2>1. frames' = WithTop([g EXCEPT !.busy = FALSE, !.rest = Tail(@),
                                      !.calls = IF Len(g.hits) = 1 THEN Append(@, g.hits[1]) ELSE @])
      BY <1>2 DEF FinishCall
    <2> QED BY <1>6, <1>7, <1>8, <2>1
  <1>12. CallsInv' BY <1>1, <1>2, <1>9, <1>10, <1>11, TopStep DEF FinishCall
  <1>13. PICK hit : hit = g.hits[1] OBVIOUS
  <1>14. PICK one : one = (Len(g.hits) = 1) OBVIOUS
  <1>15. one => hit \in Answers(cache)
    <2>1. PICK hits : hits = g.hits OBVIOUS
    <2>2. hits \in Seq(Answers(cache)) BY <1>3, <2>1 DEF FrameOK
    <2>3. Len(hits) = 1 => hits[1] \in Answers(cache) BY <2>2
    <2> QED BY <1>13, <1>14, <2>1, <2>3
  <1>16. PICK table : table = Noted(called, s.id, hit) OBVIOUS
  <1>17. (called' = table /\ one) \/ called' = called
    <2>1. called' = IF Len(g.hits) = 1 THEN Noted(called, s.id, g.hits[1]) ELSE called
      BY <1>2, <1>4 DEF FinishCall
    <2> QED BY <1>13, <1>14, <1>16, <2>1
  <1>18. \A x \in DOMAIN called' : called'[x] \in Answers(cache)
    <2>1. \A x \in DOMAIN called : called[x] \in Answers(cache) BY <1>1 DEF NotesInv
    <2>2. ASSUME one, NEW x \in DOMAIN table PROVE table[x] \in Answers(cache)
      <3>1. /\ DOMAIN table = {s.id} \cup DOMAIN called /\ table[s.id] = hit
            /\ \A y \in DOMAIN called : y # s.id => table[y] = called[y]
        <4>1. PICK old : old = called OBVIOUS
        <4>2. PICK id : id = s.id OBVIOUS
        <4>3. table = Noted(old, id, hit) BY <1>16, <4>1, <4>2
        <4>4. /\ DOMAIN table = {id} \cup DOMAIN old /\ table[id] = hit
              /\ \A y \in DOMAIN old : y # id => table[y] = old[y]
          BY <4>3 DEF Noted
        <4> QED BY <4>1, <4>2, <4>4
      <3>2. x # s.id => table[x] = called[x] BY <2>2, <3>1
      <3> QED BY <1>15, <2>1, <2>2, <3>1, <3>2
    <2> QED BY <1>17, <2>1, <2>2
  <1>19. NotesInv'
    <2>1. errors' \in Nat BY <1>1 DEF FinishCall, NotesInv
    <2> QED BY <1>1, <1>18, <2>1 DEF NotesInv, FinishCall
  <1>20. GenInv'
    <2>1. Len(pending) \in Nat BY <1>1 DEF NotesInv, IsSeq
    <2> QED BY <1>1, <2>1, AnalysisKeepsGen DEF FinishCall, output
  <1> QED BY <1>12, <1>19, <1>20 DEF IInv

\* The first of the conditions that has the property, or the given arm, or none
LEMMA ChosenArmIs ==
  ASSUME NEW n \in Nat, NEW v, DOMAIN v = 1 .. n, NEW else
  PROVE  ChosenArm(v, else) \in (0 .. n) \cup {else}
  <1>1. PICK stop : stop = {i \in 1 .. n : v[i] # Num(0)} OBVIOUS
  <1>2. PICK first : first = CHOOSE i \in stop : \A j \in stop : i <= j OBVIOUS
  <1>3. stop # {} => first \in stop
    <2>1. stop \in SUBSET Nat BY <1>1
    <2>2. stop # {} => \E m \in stop : \A k \in stop : m <= k BY <2>1, Least
    <2> QED BY <1>2, <2>2
  <1>4. ChosenArm(v, else) = IF stop = {} THEN else ELSE IF v[first] = Failed THEN 0 ELSE first
    BY <1>1, <1>2 DEF ChosenArm
  <1> QED BY <1>1, <1>3, <1>4

LEMMA ElseArmIs ==
  ASSUME NEW s, Len(s.arms) \in Nat
  PROVE  ElseArm(s) \in 0 .. Len(s.arms)
  BY DEF ElseArm

\* What an arm leaves to do
LEMMA ArmRest ==
  ASSUME body \in Bodies, NEW s \in Nodes[body], NEW arm \in 0 .. Len(s.arms),
         NEW rest \in Seq(Nodes[body])
  PROVE  (IF arm = 0 THEN <<>> ELSE s.arms[arm]) \o rest \in Seq(Nodes[body])
  <1>1. PICK arms : arms = s.arms OBVIOUS
  <1>2. arms \in Seq(Seq(Nodes[body])) BY <1>1, NodeFacts
  <1>3. PICK b : b = IF arm = 0 THEN <<>> ELSE arms[arm] OBVIOUS
  <1>4. b \in Seq(Nodes[body])
    <2>1. arm # 0 => arm \in 1 .. Len(arms) BY <1>1
    <2>2. arm # 0 => arms[arm] \in Seq(Nodes[body]) BY <1>2, <2>1
    <2>3. <<>> \in Seq(Nodes[body]) OBVIOUS
    <2> QED BY <1>3, <2>2, <2>3
  <1>5. b \o rest \in Seq(Nodes[body]) BY <1>4
  <1> QED BY <1>1, <1>3, <1>5

LEMMA SelectArmStep == ASSUME IInv, SelectArm PROVE IInv'
  <1>1. /\ CallsInv /\ NotesInv /\ GenInv /\ phase = "analyse" /\ frames # <<>>
        /\ ~ Top.busy /\ Top.rest # <<>> /\ body \in Bodies
    BY DEF IInv, SelectArm, Idle, NotesInv
  <1>2. PICK g : g = Top OBVIOUS
  <1>3. FrameOK(g, Nodes[body], cache) /\ ~ g.busy /\ g.tries = <<>>
    BY <1>1, <1>2, TopFacts DEF FrameOK
  <1>4. PICK s : s = Now OBVIOUS
  <1>5. s \in Nodes[body] /\ Tail(g.rest) \in Seq(Nodes[body]) BY <1>1, <1>2, <1>4, NowFacts
  <1>6. PICK values : values = [i \in DOMAIN s.conds |-> Eval(s.conds[i], envs)] OBVIOUS
  <1>7. PICK arm : arm = ChosenArm(values, ElseArm(s)) OBVIOUS
  <1>8. arm \in 0 .. Len(s.arms)
    <2>1. /\ Len(s.arms) \in Nat /\ Len(s.conds) \in 0 .. Len(s.arms)
          /\ DOMAIN s.conds = 1 .. Len(s.conds)
      BY <1>1, <1>5, NodeFacts
    <2>2. PICK n \in Nat : n = Len(s.conds) BY <2>1
    <2>3. DOMAIN values = 1 .. n BY <1>6, <2>1, <2>2
    <2>4. PICK else : else = ElseArm(s) OBVIOUS
    <2>5. else \in 0 .. Len(s.arms) BY <2>1, <2>4, ElseArmIs
    <2>6. arm \in (0 .. n) \cup {else} BY <1>7, <2>3, <2>4, ChosenArmIs
    <2> QED BY <2>1, <2>2, <2>5, <2>6
  <1>9. PICK rest : rest = (IF arm = 0 THEN <<>> ELSE s.arms[arm]) \o Tail(g.rest) OBVIOUS
  <1>10. rest \in Seq(Nodes[body]) BY <1>1, <1>5, <1>8, <1>9, ArmRest
  <1>11. PICK arms : arms = Append(g.arms, <<s.id, arm>>) OBVIOUS
  <1>12. PICK f : f = [g EXCEPT !.rest = rest, !.arms = arms] OBVIOUS
  <1>13. /\ DOMAIN f = FrameFields /\ f.proc = g.proc /\ f.name = g.name /\ f.prev = g.prev
         /\ f.rest = rest /\ f.busy = g.busy /\ f.tries = g.tries /\ f.hits = g.hits
    BY <1>3, <1>12 DEF FrameOK, FrameFields
  <1>14. FrameOK(f, Nodes[body], cache) BY <1>3, <1>10, <1>13 DEF FrameOK
  <1>15. /\ frames' = WithTop(f) /\ selected' = Noted(selected, s.id, arm)
         /\ errors' \in {errors, errors + 1}
    <2>1. /\ frames' = WithTop([g EXCEPT !.rest = (IF arm = 0 THEN <<>> ELSE s.arms[arm]) \o Tail(@),
                                         !.arms = Append(@, <<s.id, arm>>)])
          /\ selected' = Noted(selected, s.id, arm)
          /\ errors' \in {errors, errors + 1}
      BY <1>2, <1>4, <1>6, <1>7 DEF SelectArm
    <2> QED BY <1>9, <1>11, <1>12, <2>1
  <1>16. CallsInv' BY <1>1, <1>2, <1>13, <1>14, <1>15, TopStep DEF SelectArm
  <1>17. PICK table : table = Noted(selected, s.id, arm) OBVIOUS
  <1>18. ASSUME NEW r \in Nodes[body], r.id \in DOMAIN table PROVE table[r.id] \in 0 .. Len(r.arms)
    <2>1. /\ DOMAIN table = {s.id} \cup DOMAIN selected /\ table[s.id] = arm
          /\ \A y \in DOMAIN selected : y # s.id => table[y] = selected[y]
      <3>1. PICK old : old = selected OBVIOUS
      <3>2. PICK id : id = s.id OBVIOUS
      <3>3. table = Noted(old, id, arm) BY <1>17, <3>1, <3>2
      <3>4. /\ DOMAIN table = {id} \cup DOMAIN old /\ table[id] = arm
            /\ \A y \in DOMAIN old : y # id => table[y] = old[y]
        BY <3>3 DEF Noted
      <3> QED BY <3>1, <3>2, <3>4
    <2>2. CASE r.id = s.id
      <3>1. r = s BY <1>1, <1>5, <2>2, NodeFacts
      <3> QED BY <1>8, <2>1, <3>1
    <2>3. CASE r.id # s.id
      <3>1. r.id \in DOMAIN selected BY <1>18, <2>1, <2>3
      <3>2. table[r.id] = selected[r.id] BY <2>1, <2>3, <3>1
      <3> QED BY <1>1, <3>1, <3>2 DEF NotesInv
    <2> QED BY <2>2, <2>3
  <1>19. NotesInv'
    <2>1. errors' \in Nat BY <1>1, <1>15 DEF NotesInv
    <2>2. selected' = table BY <1>15, <1>17
    <2> QED BY <1>1, <1>18, <2>1, <2>2 DEF NotesInv, SelectArm
  <1>20. GenInv'
    <2>1. Len(pending) \in Nat BY <1>1 DEF NotesInv, IsSeq
    <2> QED BY <1>1, <2>1, AnalysisKeepsGen DEF SelectArm, output
  <1> QED BY <1>16, <1>19, <1>20 DEF IInv

-----------------------------------------------------------------------------
(* Code generation, an action at a time.                                   *)

\* What is left of a sequence when its head is taken
LEMMA HeadTail ==
  ASSUME NEW S, NEW s \in Seq(S), s # <<>>
  PROVE  /\ Head(s) \in S /\ Tail(s) \in Seq(S)
         /\ \A x \in Range(s) : x = Head(s) \/ x \in Range(Tail(s))
  <1>1. Head(s) \in S /\ Tail(s) \in Seq(S) OBVIOUS
  <1>2. ASSUME NEW x \in Range(s) PROVE x = Head(s) \/ x \in Range(Tail(s))
    <2>1. PICK n \in Nat : n = Len(s) /\ n > 0 OBVIOUS
    <2>2. PICK i \in 1 .. n : s[i] = x BY <2>1 DEF Range
    <2>3. CASE i = 1 BY <2>2, <2>3
    <2>4. CASE i # 1
      <3>1. PICK t : t = Tail(s) OBVIOUS
      <3>2. t \in Seq(S) /\ Len(t) = n - 1 /\ \A k \in 1 .. n - 1 : t[k] = s[k + 1] BY <2>1, <3>1
      <3>3. i - 1 \in 1 .. n - 1 /\ i - 1 + 1 = i BY <2>4
      <3>4. i - 1 \in DOMAIN t /\ t[i - 1] = x BY <2>2, <3>2, <3>3
      <3> QED BY <3>1, <3>4 DEF Range
    <2> QED BY <2>3, <2>4
  <1> QED BY <1>1, <1>2

\* A body that is begun
LEMMA NewBody ==
  ASSUME body \in Bodies, NEW p \in DOMAIN Procs \cup {Main}, NEW n \in KnownNames(cache), NEW ints
  PROVE  /\ BodyOK(Generating([name |-> n, body |-> Proc(p).body, ints |-> ints]), Nodes[body], cache)
         /\ Generating([name |-> n, body |-> Proc(p).body, ints |-> ints]).name = n
  <1>1. PICK r : r = Proc(p).body OBVIOUS
  <1>2. r \in Seq(Nodes[body]) BY <1>1, ProcFacts
  <1>3. PICK g : g = [name |-> n, rest |-> r, ints |-> ints, calls |-> <<>>, arms |-> <<>>] OBVIOUS
  <1>4. DOMAIN g = {"name", "rest", "ints", "calls", "arms"} /\ g.rest = r /\ g.calls = <<>> /\ g.name = n
    BY <1>3
  <1>5. g.calls \in Seq(Answers(cache) \cup {None}) BY <1>4
  <1>6. BodyOK(g, Nodes[body], cache) BY <1>2, <1>4, <1>5 DEF BodyOK
  <1>7. Generating([name |-> n, body |-> r, ints |-> ints]) = g BY <1>3 DEF Generating
  <1> QED BY <1>1, <1>4, <1>6, <1>7

LEMMA GeneratePlainStep == ASSUME IInv, GeneratePlain PROVE IInv'
  <1>1. /\ CallsInv /\ NotesInv /\ GenInv /\ phase = "generate" /\ gen = <<>> /\ todo # <<>>
        /\ body \in Bodies
    BY DEF IInv, GeneratePlain, Nothing, NotesInv
  <1>2. PICK p : p = Head(todo) OBVIOUS
  <1>3. PICK w : w = Tail(todo) OBVIOUS
  <1>4. /\ p \in Range(Plain) \cup {Main} /\ w \in Seq(Range(Plain) \cup {Main})
        /\ \A x \in Range(todo) : x = p \/ x \in Range(w)
    <2>1. todo \in Seq(Range(Plain) \cup {Main}) BY <1>1 DEF NotesInv
    <2> QED BY <1>1, <1>2, <1>3, <2>1, HeadTail
  <1>5. /\ todo' = w /\ phase' = "generate" /\ built' = built /\ drained' = drained
        /\ body' = body /\ cache' = cache /\ pending' = pending /\ frames' = frames
    BY <1>1, <1>3 DEF GeneratePlain, analysis
  <1>6. CallsInv' BY <1>1, GenerationKeepsCalls DEF GeneratePlain
  <1>7. NotesInv' BY <1>1, <1>4, <1>5, GenerationKeepsNotes DEF GeneratePlain
  <1>8. PICK g : g = Generating([name |-> PlainName(p), body |-> Proc(p).body, ints |-> <<>>]) OBVIOUS
  <1>9. BodyOK(g, Nodes[body], cache) /\ g.name = PlainName(p)
    <2>1. p \in DOMAIN Procs \cup {Main} BY <1>4, PlainAre
    <2>2. PlainName(p) \in KnownNames(cache) BY <1>4 DEF KnownNames
    <2> QED BY <1>1, <1>8, <2>1, <2>2, NewBody
  <1>10. PICK h : h = IF Proc(p).poly THEN <<>> ELSE <<g>> OBVIOUS
  <1>11. gen' = h BY <1>2, <1>8, <1>10 DEF GeneratePlain, Nothing, Some
  <1>12. h = <<>> \/ (h = <<h[1]>> /\ BodyOK(h[1], Nodes[body], cache)) BY <1>9, <1>10
  <1>13. \A x \in Makes(built, <<>>) : x \in Makes(built, h) BY DEF Makes
  <1>14. GenOK(<<>>, built, todo, drained, "generate", Nodes[body], pending, cache)
    BY <1>1 DEF GenInv
  <1>15. ASSUME NEW q \in PlainProcs PROVE q \in Range(w) \/ PlainName(q) \in Makes(built, h)
    <2>1. q \in Range(todo) \/ PlainName(q) \in Makes(built, <<>>) BY <1>14 DEF GenOK
    <2>2. CASE q = p
      <3>1. q \in DOMAIN Procs /\ ~ Procs[q].poly BY DEF PlainProcs
      <3>2. Proc(q) = Procs[q] BY <1>1, <3>1, ProcFacts
      <3>3. h = <<g>> BY <1>10, <2>2, <3>1, <3>2
      <3>4. h # <<>> /\ h[1].name = PlainName(q) BY <1>9, <2>2, <3>3
      <3> QED BY <3>4 DEF Makes
    <2>3. CASE q # p BY <1>4, <1>13, <2>1, <2>3
    <2> QED BY <2>2, <2>3
  <1>16. GenOK(h, built, w, drained, "generate", Nodes[body], pending, cache)
    BY <1>12, <1>13, <1>14, <1>15 DEF GenOK
  <1> QED BY <1>5, <1>6, <1>7, <1>11, <1>16 DEF IInv, GenInv

LEMMA GenerateSpecStep == ASSUME IInv, GenerateSpec PROVE IInv'
  <1>1. /\ CallsInv /\ NotesInv /\ GenInv /\ phase = "generate" /\ gen = <<>> /\ todo = <<>>
        /\ drained < Len(pending) /\ body \in Bodies /\ todo' = todo
    BY DEF IInv, GenerateSpec, Nothing, NotesInv
  <1>2. /\ phase' = "generate" /\ built' = built /\ drained' = drained + 1 /\ body' = body
        /\ cache' = cache /\ pending' = pending
    BY <1>1 DEF GenerateSpec, analysis
  <1>3. CallsInv' BY <1>1, GenerationKeepsCalls DEF GenerateSpec
  <1>4. NotesInv'
    <2>1. todo' \in Seq(Range(Plain) \cup {Main}) BY <1>1 DEF NotesInv
    <2> QED BY <1>1, <1>2, <2>1, GenerationKeepsNotes DEF GenerateSpec
  <1>5. GenOK(<<>>, built, todo, drained, "generate", Nodes[body], pending, cache)
    BY <1>1 DEF GenInv
  <1>6. PICK n \in Nat : n = drained /\ n + 1 \in 1 .. Len(pending) /\ n + 1 \in 0 .. Len(pending)
    <2>1. drained \in 0 .. Len(pending) /\ Len(pending) \in Nat BY <1>1, <1>5 DEF GenOK, NotesInv, IsSeq
    <2> QED BY <1>1, <2>1
  <1>7. PICK spec : spec = pending[n + 1] OBVIOUS
  <1>8. spec.proc \in DOMAIN Procs /\ spec.name \in KnownNames(cache)
    BY <1>1, <1>6, <1>7 DEF NotesInv, KnownNames
  <1>9. PICK g : g = Generating([name |-> spec.name, body |-> Procs[spec.proc].body, ints |-> spec.ints])
    OBVIOUS
  <1>10. BodyOK(g, Nodes[body], cache) /\ g.name = spec.name
    <2>1. PICK p : p = spec.proc OBVIOUS
    <2>2. PICK m : m = spec.name OBVIOUS
    <2>3. PICK ints : ints = spec.ints OBVIOUS
    <2>4. p \in DOMAIN Procs /\ m \in KnownNames(cache) BY <1>8, <2>1, <2>2
    <2>5. Procs[p] = Proc(p) BY <1>1, <2>4, ProcFacts
    <2>6. g = Generating([name |-> m, body |-> Proc(p).body, ints |-> ints])
      BY <1>9, <2>1, <2>2, <2>3, <2>5
    <2>7. BodyOK(g, Nodes[body], cache) /\ g.name = m BY <1>1, <2>4, <2>6, NewBody
    <2> QED BY <2>2, <2>7
  <1>11. PICK h : h = IF spec.name \in DOMAIN built THEN <<>> ELSE <<g>> OBVIOUS
  <1>12. gen' = h BY <1>6, <1>7, <1>9, <1>11 DEF GenerateSpec, Nothing, Some
  <1>13. h = <<>> \/ (h = <<h[1]>> /\ BodyOK(h[1], Nodes[body], cache)) BY <1>10, <1>11
  <1>14. \A x \in Makes(built, <<>>) : x \in Makes(built, h) BY DEF Makes
  <1>15. spec.name \in Makes(built, h)
    <2>1. CASE spec.name \in DOMAIN built BY <2>1 DEF Makes
    <2>2. CASE spec.name \notin DOMAIN built
      <3>1. h # <<>> /\ h[1].name = spec.name BY <1>10, <1>11, <2>2
      <3> QED BY <3>1 DEF Makes
    <2> QED BY <2>1, <2>2
  <1>16. ASSUME NEW i \in 1 .. n + 1 PROVE pending[i].name \in Makes(built, h)
    <2>1. CASE i = n + 1 BY <1>7, <1>15, <2>1
    <2>2. CASE i # n + 1
      <3>1. i \in 1 .. drained BY <1>6, <2>2
      <3>2. pending[i].name \in Makes(built, <<>>) BY <1>5, <3>1 DEF GenOK
      <3> QED BY <1>14, <3>2
    <2> QED BY <2>1, <2>2
  <1>17. \A q \in PlainProcs : q \in Range(todo) \/ PlainName(q) \in Makes(built, h)
    BY <1>5, <1>14 DEF GenOK
  <1>18. GenOK(h, built, todo, n + 1, "generate", Nodes[body], pending, cache)
    <2>1. \A f \in DOMAIN built : f \in KnownNames(cache) /\ built[f].calls \in Seq(Answers(cache) \cup {None})
      BY <1>5 DEF GenOK
    <2> QED BY <1>6, <1>13, <1>16, <1>17, <2>1 DEF GenOK
  <1> QED BY <1>1, <1>2, <1>3, <1>4, <1>6, <1>12, <1>18 DEF IInv, GenInv

\* What an emitting step starts from
LEMMA EmittingFacts ==
  ASSUME IInv, NEW k, Emitting(k)
  PROVE  /\ CallsInv /\ NotesInv /\ phase = "generate" /\ body \in Bodies
         /\ gen = <<gen[1]>> /\ gen # <<>> /\ BodyOK(gen[1], Nodes[body], cache)
         /\ GenOK(gen, built, todo, drained, "generate", Nodes[body], pending, cache)
         /\ Head(gen[1].rest) \in Nodes[body] /\ Tail(gen[1].rest) \in Seq(Nodes[body])
         /\ Head(gen[1].rest).k = k
  <1>1. phase = "generate" /\ gen # <<>> /\ gen[1].rest # <<>> /\ Head(gen[1].rest).k = k
    BY DEF Emitting, Nothing
  <1>2. GenOK(gen, built, todo, drained, "generate", Nodes[body], pending, cache)
    BY <1>1 DEF IInv, GenInv
  <1>3. gen = <<gen[1]>> /\ BodyOK(gen[1], Nodes[body], cache) BY <1>1, <1>2 DEF GenOK
  <1>4. PICK r : r = gen[1].rest OBVIOUS
  <1>5. r \in Seq(Nodes[body]) /\ r # <<>> BY <1>1, <1>3, <1>4 DEF BodyOK
  <1>6. Head(r) \in Nodes[body] /\ Tail(r) \in Seq(Nodes[body]) BY <1>5
  <1> QED BY <1>1, <1>2, <1>3, <1>4, <1>6 DEF IInv, NotesInv

\* The body being made goes on.
LEMMA GoesOn ==
  ASSUME NEW g, NEW b, NEW w, NEW n, NEW tree, NEW pend, NEW c,
         GenOK(g, b, w, n, "generate", tree, pend, c), g # <<>>,
         NEW f, BodyOK(f, tree, c), f.name = g[1].name
  PROVE  GenOK(<<f>>, b, w, n, "generate", tree, pend, c)
  <1>1. PICK h : h = <<f>> OBVIOUS
  <1>2. h # <<>> /\ h[1] = f /\ h = <<h[1]>> BY <1>1
  <1>3. Makes(b, h) = Makes(b, g) BY <1>2 DEF Makes
  <1>4. GenOK(h, b, w, n, "generate", tree, pend, c) BY <1>2, <1>3 DEF GenOK
  <1> QED BY <1>1, <1>4

LEMMA CalleeIs ==
  ASSUME NotesInv, NEW s \in Nodes[body], s.k = "call"
  PROVE  CalleeOf(s) \in Answers(cache) \cup {None}
  <1>1. PICK id : id = s.id OBVIOUS
  <1>2. PICK p : p = s.callees[1] OBVIOUS
  <1>3. p \in DOMAIN Procs /\ body \in Bodies
    <2>1. PICK l : l = s.callees OBVIOUS
    <2>2. l \in Seq(DOMAIN Procs) /\ l # <<>> BY <2>1, NodeFacts DEF NotesInv
    <2>3. l[1] \in DOMAIN Procs BY <2>2
    <2> QED BY <1>2, <2>1, <2>3 DEF NotesInv
  <1>4. Proc(p) = Procs[p] BY <1>3, ProcFacts
  <1>5. ~ Proc(p).poly => PlainName(p) \in Answers(cache)
    BY <1>3, <1>4 DEF Answers, PlainNames, PlainProcs
  <1>6. id \in DOMAIN called => called[id] \in Answers(cache) BY DEF NotesInv
  <1> QED BY <1>1, <1>2, <1>5, <1>6 DEF CalleeOf

LEMMA EmitCallStep == ASSUME IInv, EmitCall PROVE IInv'
  <1>0. Emitting("call") BY DEF EmitCall
  <1>1. PICK g : g = gen[1] OBVIOUS
  <1>2. PICK s : s = Head(g.rest) OBVIOUS
  <1>3. /\ CallsInv /\ NotesInv /\ phase = "generate" /\ gen # <<>> /\ BodyOK(g, Nodes[body], cache)
        /\ GenOK(gen, built, todo, drained, "generate", Nodes[body], pending, cache)
        /\ s \in Nodes[body] /\ Tail(g.rest) \in Seq(Nodes[body]) /\ s.k = "call"
    BY <1>0, <1>1, <1>2, EmittingFacts
  <1>4. PICK callee : callee = CalleeOf(s) OBVIOUS
  <1>5. PICK rest : rest = Tail(g.rest) OBVIOUS
  <1>6. PICK calls : calls = g.calls OBVIOUS
  <1>7. Append(calls, callee) \in Seq(Answers(cache) \cup {None})
    <2>1. calls \in Seq(Answers(cache) \cup {None}) BY <1>3, <1>6 DEF BodyOK
    <2>2. callee \in Answers(cache) \cup {None} BY <1>3, <1>4, CalleeIs
    <2> QED BY <2>1, <2>2
  <1>8. PICK f : f = [g EXCEPT !.rest = rest, !.calls = Append(calls, callee)] OBVIOUS
  <1>9. BodyOK(f, Nodes[body], cache) /\ f.name = g.name
    <2>1. /\ DOMAIN f = DOMAIN g /\ f.rest = rest /\ f.calls = Append(calls, callee) /\ f.name = g.name
      BY <1>3, <1>8 DEF BodyOK
    <2> QED BY <1>3, <1>5, <1>7, <2>1 DEF BodyOK
  <1>10. gen' = <<f>> BY <1>1, <1>2, <1>4, <1>5, <1>6, <1>8 DEF EmitCall, Some
  <1>11. GenOK(<<f>>, built, todo, drained, "generate", Nodes[body], pending, cache)
    BY <1>1, <1>3, <1>9, GoesOn
  <1>12. /\ todo' = todo /\ phase' = "generate" /\ built' = built /\ drained' = drained
         /\ body' = body /\ cache' = cache /\ pending' = pending
    BY <1>3 DEF EmitCall, analysis
  <1>13. CallsInv' BY <1>3, GenerationKeepsCalls DEF EmitCall
  <1>14. NotesInv'
    <2>1. todo' \in Seq(Range(Plain) \cup {Main}) BY <1>3, <1>12 DEF NotesInv
    <2> QED BY <1>3, <1>12, <2>1, GenerationKeepsNotes DEF EmitCall
  <1> QED BY <1>10, <1>11, <1>12, <1>13, <1>14 DEF IInv, GenInv

LEMMA EmittedArmIs ==
  ASSUME NotesInv, NEW s \in Nodes[body], NEW ints
  PROVE  EmittedArm(s, ints) \in 0 .. Len(s.arms)
  <1>1. /\ Len(s.arms) \in Nat /\ Len(s.conds) \in 0 .. Len(s.arms)
        /\ DOMAIN s.conds = 1 .. Len(s.conds)
    BY NodeFacts DEF NotesInv
  <1>2. PICK n \in Nat : n = Len(s.conds) /\ n <= Len(s.arms) BY <1>1
  <1>3. PICK values : values = [i \in DOMAIN s.conds |-> IrEval(s.conds[i], ints)] OBVIOUS
  <1>4. PICK yes : yes = {i \in DOMAIN values : values[i] \notin {Nothing, Some(Num(0))}} OBVIOUS
  <1>5. yes \subseteq 1 .. n BY <1>1, <1>2, <1>3, <1>4
  <1>6. PICK first : first = CHOOSE i \in yes : \A j \in yes : i <= j OBVIOUS
  <1>7. yes # {} => first \in yes
    <2>1. yes \in SUBSET Nat BY <1>5
    <2>2. yes # {} => \E m \in yes : \A k \in yes : m <= k BY <2>1, Least
    <2> QED BY <1>6, <2>2
  <1>8. ElseArm(s) \in 0 .. Len(s.arms) BY <1>1, ElseArmIs
  <1>9. Selection(s) \in 0 .. Len(s.arms) BY <1>1 DEF Selection, NotesInv
  <1>10. EmittedArm(s, ints) = IF yes # {} THEN first
                               ELSE IF \A i \in DOMAIN values : values[i] # Nothing THEN ElseArm(s)
                               ELSE Selection(s)
    BY <1>3, <1>4, <1>6 DEF EmittedArm
  <1>11. yes # {} => first \in 0 .. Len(s.arms)
    <2>1. PICK m \in Nat : m = Len(s.arms) BY <1>1
    <2>2. yes # {} => first \in 1 .. n BY <1>5, <1>7
    <2>3. n <= m BY <1>2, <2>1
    <2>4. yes # {} => first \in 0 .. m BY <2>2, <2>3
    <2> QED BY <2>1, <2>4
  <1> QED BY <1>8, <1>9, <1>10, <1>11

LEMMA EmitWhenStep == ASSUME IInv, EmitWhen PROVE IInv'
  <1>0. Emitting("when") BY DEF EmitWhen
  <1>1. PICK g : g = gen[1] OBVIOUS
  <1>2. PICK s : s = Head(g.rest) OBVIOUS
  <1>3. /\ CallsInv /\ NotesInv /\ phase = "generate" /\ gen # <<>> /\ BodyOK(g, Nodes[body], cache)
        /\ GenOK(gen, built, todo, drained, "generate", Nodes[body], pending, cache)
        /\ s \in Nodes[body] /\ Tail(g.rest) \in Seq(Nodes[body]) /\ body \in Bodies
    BY <1>0, <1>1, <1>2, EmittingFacts
  <1>4. PICK ints : ints = g.ints OBVIOUS
  <1>5. PICK arm : arm = EmittedArm(s, ints) OBVIOUS
  <1>6. arm \in 0 .. Len(s.arms) BY <1>3, <1>5, EmittedArmIs
  <1>7. PICK rest : rest = (IF arm = 0 THEN <<>> ELSE s.arms[arm]) \o Tail(g.rest) OBVIOUS
  <1>8. rest \in Seq(Nodes[body]) BY <1>3, <1>6, <1>7, ArmRest
  <1>9. PICK f : f = [g EXCEPT !.rest = rest, !.arms = Append(g.arms, <<s.id, arm>>)] OBVIOUS
  <1>10. BodyOK(f, Nodes[body], cache) /\ f.name = g.name
    <2>1. DOMAIN f = DOMAIN g /\ f.rest = rest /\ f.calls = g.calls /\ f.name = g.name
      BY <1>3, <1>9 DEF BodyOK
    <2> QED BY <1>3, <1>8, <2>1 DEF BodyOK
  <1>11. gen' = <<f>> BY <1>1, <1>2, <1>4, <1>5, <1>7, <1>9 DEF EmitWhen, Some
  <1>12. GenOK(<<f>>, built, todo, drained, "generate", Nodes[body], pending, cache)
    BY <1>1, <1>3, <1>10, GoesOn
  <1>13. /\ todo' = todo /\ phase' = "generate" /\ built' = built /\ drained' = drained
         /\ body' = body /\ cache' = cache /\ pending' = pending
    BY <1>3 DEF EmitWhen, analysis
  <1>14. CallsInv' BY <1>3, GenerationKeepsCalls DEF EmitWhen
  <1>15. NotesInv'
    <2>1. todo' \in Seq(Range(Plain) \cup {Main}) BY <1>3, <1>13 DEF NotesInv
    <2> QED BY <1>3, <1>13, <2>1, GenerationKeepsNotes DEF EmitWhen
  <1> QED BY <1>11, <1>12, <1>13, <1>14, <1>15 DEF IInv, GenInv

LEMMA FinishBodyStep == ASSUME IInv, FinishBody PROVE IInv'
  <1>1. /\ CallsInv /\ NotesInv /\ phase = "generate" /\ gen # <<>>
        /\ GenOK(gen, built, todo, drained, "generate", Nodes[body], pending, cache)
    BY DEF IInv, FinishBody, Nothing, GenInv
  <1>2. PICK g : g = gen[1] OBVIOUS
  <1>3. BodyOK(g, Nodes[body], cache) BY <1>1, <1>2 DEF GenOK
  <1>4. PICK name : name = g.name OBVIOUS
  <1>5. PICK done : done = [calls |-> g.calls, arms |-> g.arms] OBVIOUS
  <1>6. PICK old : old = built OBVIOUS
  <1>7. PICK b : b = Noted(old, name, done) OBVIOUS
  <1>8. built' = b /\ gen' = <<>> BY <1>2, <1>4, <1>5, <1>6, <1>7 DEF FinishBody, Nothing
  <1>9. DOMAIN b = {name} \cup DOMAIN old /\ b[name] = done /\ \A x \in DOMAIN old : x # name => b[x] = old[x]
    BY <1>7 DEF Noted
  <1>10. Makes(b, <<>>) = Makes(built, gen) BY <1>1, <1>2, <1>4, <1>6, <1>9 DEF Makes
  <1>11. ASSUME NEW f \in DOMAIN b
         PROVE  f \in KnownNames(cache) /\ b[f].calls \in Seq(Answers(cache) \cup {None})
    <2>1. CASE f = name
      <3>1. done.calls = g.calls BY <1>5
      <3> QED BY <1>3, <1>4, <1>9, <2>1, <3>1 DEF BodyOK
    <2>2. CASE f # name
      <3>1. f \in DOMAIN built /\ b[f] = built[f] BY <1>6, <1>9, <2>2
      <3> QED BY <1>1, <3>1 DEF GenOK
    <2> QED BY <2>1, <2>2
  <1>12. GenOK(<<>>, b, todo, drained, "generate", Nodes[body], pending, cache)
    BY <1>1, <1>10, <1>11 DEF GenOK
  <1>13. /\ todo' = todo /\ phase' = "generate" /\ drained' = drained
         /\ body' = body /\ cache' = cache /\ pending' = pending
    BY <1>1 DEF FinishBody, analysis
  <1>14. CallsInv' BY <1>1, GenerationKeepsCalls DEF FinishBody
  <1>15. NotesInv'
    <2>1. todo' \in Seq(Range(Plain) \cup {Main}) BY <1>1, <1>13 DEF NotesInv
    <2> QED BY <1>1, <1>13, <2>1, GenerationKeepsNotes DEF FinishBody
  <1> QED BY <1>8, <1>12, <1>13, <1>14, <1>15 DEF IInv, GenInv

LEMMA EndGenerationStep == ASSUME IInv, EndGeneration PROVE IInv'
  <1>1. /\ CallsInv /\ NotesInv /\ phase = "generate" /\ gen = <<>> /\ todo = <<>>
        /\ drained = Len(pending) /\ phase' \in {"failed", "done"}
        /\ (phase' = "done" => None \notin Callees)
        /\ GenOK(gen, built, todo, drained, "generate", Nodes[body], pending, cache)
    BY DEF IInv, EndGeneration, Nothing, GenInv
  <1>2. PICK ph : ph = phase' OBVIOUS
  <1>3. ph = "done" => \A f \in DOMAIN built : None \notin Range(built[f].calls)
    BY <1>1, <1>2 DEF Callees
  <1>4. GenOK(gen, built, todo, drained, ph, Nodes[body], pending, cache)
    BY <1>1, <1>2, <1>3 DEF GenOK
  <1>5. /\ todo' = todo /\ built' = built /\ drained' = drained /\ gen' = gen
        /\ body' = body /\ cache' = cache /\ pending' = pending
    BY DEF EndGeneration, analysis, output
  <1>6. CallsInv' BY <1>1, GenerationKeepsCalls DEF EndGeneration
  <1>7. NotesInv'
    <2>1. todo' \in Seq(Range(Plain) \cup {Main}) BY <1>1, <1>5 DEF NotesInv
    <2> QED BY <1>1, <2>1, GenerationKeepsNotes DEF EndGeneration
  <1> QED BY <1>2, <1>4, <1>5, <1>6, <1>7 DEF IInv, GenInv

-----------------------------------------------------------------------------
(* The theorems.                                                           *)

LEMMA Initially == ASSUME Init PROVE IInv
  <1>1. PICK e : e = <<>> OBVIOUS
  <1>2. IsSeq(e) /\ Len(e) = 0 /\ DOMAIN e = {} BY <1>1, EmptyIs
  <1>3. CallsInv
    <2>1. CallsOK(e, Nodes[body], cache) BY <1>2 DEF CallsOK
    <2>2. EnvsOK(e, e) BY <1>2 DEF EnvsOK
    <2>3. /\ CallsOK(frames, Nodes[body], cache) /\ EnvsOK(frames, envs) /\ frames = <<>>
          /\ Len(frames) = 0 /\ instantiating = FALSE
      BY <1>1, <1>2, <2>1, <2>2 DEF Init
    <2>4. instantiating \in BOOLEAN /\ (instantiating <=> Len(frames) > 1)
      <3>1. PICK l : l = Len(frames) OBVIOUS
      <3>2. ~ (l > 1) BY <2>3, <3>1
      <3> QED BY <2>3, <3>1, <3>2, Zenon
    <2> QED BY <2>3, <2>4, Zenon DEF CallsInv
  <1>4. NotesInv
    <2>1. PICK w : w = Append(Plain, Main) OBVIOUS
    <2>2. Plain \in Seq(Range(Plain))
      <3>1. Plain \in Seq(DOMAIN Procs) BY ProgramAssumption
      <3> QED BY <3>1 DEF Range
    <2>3. w \in Seq(Range(Plain) \cup {Main}) BY <2>1, <2>2
    <2>4. {e[i].name : i \in 1 .. Len(e)} = {} BY <1>2
    <2> QED BY <1>1, <1>2, <2>1, <2>3, <2>4 DEF NotesInv, Init
  <1>5. GenInv BY <1>1, <1>2 DEF GenInv, GenOK, Init, Nothing
  <1> QED BY <1>3, <1>4, <1>5 DEF IInv

LEMMA Unchanged == ASSUME IInv, UNCHANGED vars PROVE IInv'
  BY DEF IInv, CallsInv, NotesInv, GenInv, vars

LEMMA Inductive == ASSUME IInv, [Next]_vars PROVE IInv'
  <1>1. CASE AnalyseProc BY <1>1, AnalyseProcStep
  <1>2. CASE StartCall BY <1>2, StartCallStep
  <1>3. CASE CannotBind BY <1>3, CannotBindStep
  <1>4. CASE CacheHit BY <1>4, CacheHitStep
  <1>5. CASE WhereRefuses BY <1>5, WhereRefusesStep
  <1>6. CASE Instantiate BY <1>6, InstantiateStep
  <1>7. CASE FinishInstance BY <1>7, FinishInstanceStep
  <1>8. CASE FinishPlain BY <1>8, FinishPlainStep
  <1>9. CASE FinishCall BY <1>9, FinishCallStep
  <1>10. CASE SelectArm BY <1>10, SelectArmStep
  <1>11. CASE EndAnalysis BY <1>11, EndAnalysisStep
  <1>12. CASE GeneratePlain BY <1>12, GeneratePlainStep
  <1>13. CASE GenerateSpec BY <1>13, GenerateSpecStep
  <1>14. CASE EmitCall BY <1>14, EmitCallStep
  <1>15. CASE EmitWhen BY <1>15, EmitWhenStep
  <1>16. CASE FinishBody BY <1>16, FinishBodyStep
  <1>17. CASE EndGeneration BY <1>17, EndGenerationStep
  <1>18. CASE Ended BY <1>18, Unchanged DEF Ended
  <1>19. CASE UNCHANGED vars BY <1>19, Unchanged
  <1> QED BY <1>1, <1>2, <1>3, <1>4, <1>5, <1>6, <1>7, <1>8, <1>9, <1>10, <1>11, <1>12, <1>13,
             <1>14, <1>15, <1>16, <1>17, <1>18, <1>19 DEF Next

LEMMA Invariant == Spec => []IInv
  <1>1. Init => IInv BY Initially
  <1>2. IInv /\ [Next]_vars => IInv' BY Inductive
  <1> QED BY <1>1, <1>2, PTL DEF Spec

\* poly_env_stack and currently_instantiating follow poly_resolve_call through every
\* return it has: refused where clauses, callees of a bundle that do not fit, hits in
\* the cache, and instantiations nested in each other to any depth.  The i-th body
\* under instantiation was entered with the i-th environment, which is the one its
\* mangled name was made from.
THEOREM EnvsFollow == Spec => []EnvMatchesFrames
  <1>1. ASSUME IInv PROVE EnvMatchesFrames
    <2>1. PICK en : en = envs OBVIOUS
    <2>2. PICK fr : fr = frames OBVIOUS
    <2>3. /\ EnvsOK(fr, en) /\ CallsOK(fr, Nodes[body], cache)
          /\ instantiating \in BOOLEAN /\ (instantiating <=> Len(fr) > 1)
      BY <1>1, <2>1, <2>2 DEF IInv, CallsInv
    <2>4. Len(en) = IF fr = <<>> THEN 0 ELSE Len(fr) - 1
      <3>1. IsSeq(fr) BY <2>3 DEF CallsOK
      <3>2. fr = <<>> <=> Len(fr) = 0 BY <3>1, EmptyIs
      <3> QED BY <2>3, <3>2 DEF EnvsOK
    <2>5. \A i \in DOMAIN en : fr[i + 1].name = MangledName(fr[i + 1].proc, en[i])
      <3>1. DOMAIN en = 1 .. Len(en) BY <2>3 DEF EnvsOK, IsSeq
      <3> QED BY <2>3, <3>1 DEF EnvsOK
    <2>6. instantiating = (Len(fr) > 1) BY <2>3
    <2> QED BY <2>1, <2>2, <2>4, <2>5, <2>6 DEF EnvMatchesFrames
  <1> QED BY <1>1, Invariant, PTL

\* Every function a finished program's code calls has a body: the specializations met
\* while the body of another was analysed, or tried for an overload bundle, are queued
\* with the rest, and ir_gen_pending_specialization leaves none of the queue out.
THEOREM SpecsGenerated == Spec => []CalledSpecsGenerated
  <1>1. ASSUME IInv, phase = "done" PROVE Callees \subseteq DOMAIN built
    <2>1. /\ GenOK(<<>>, built, <<>>, Len(pending), "done", Nodes[body], pending, cache)
          /\ Len(pending) \in Nat /\ cache = {pending[i].name : i \in 1 .. Len(pending)}
      BY <1>1 DEF IInv, GenInv, GenOK, NotesInv, IsSeq
    <2>2. Makes(built, <<>>) = DOMAIN built BY DEF Makes
    <2>3. \A i \in 1 .. Len(pending) : pending[i].name \in DOMAIN built BY <2>1, <2>2 DEF GenOK
    <2>4. cache \subseteq DOMAIN built BY <2>1, <2>3
    <2>5. PlainNames \subseteq DOMAIN built
      <3>1. \A p \in PlainProcs : p \in Range(<<>>) \/ PlainName(p) \in DOMAIN built BY <2>1, <2>2 DEF GenOK
      <3>2. Range(<<>>) = {} BY DEF Range
      <3> QED BY <3>1, <3>2 DEF PlainNames
    <2>6. ASSUME NEW f \in DOMAIN built, NEW x \in Range(built[f].calls) PROVE x \in DOMAIN built
      <3>1. PICK calls : calls = built[f].calls OBVIOUS
      <3>2. calls \in Seq(Answers(cache) \cup {None}) /\ None \notin Range(calls)
        BY <2>1, <3>1 DEF GenOK
      <3>3. x \in Range(calls) BY <2>6, <3>1
      <3>4. x \in Answers(cache) BY <3>2, <3>3 DEF Range
      <3> QED BY <2>4, <2>5, <3>4 DEF Answers
    <2> QED BY <2>6 DEF Callees
  <1>2. IInv => CalledSpecsGenerated BY <1>1 DEF CalledSpecsGenerated
  <1> QED BY <1>2, Invariant, PTL

\* The state keeps its shape, for any library and any nesting of calls: an environment
\* never outgrows MAX_POLY_ENV_ENTRIES, the cache is what the queue holds, and only
\* functions of the program are generated.
THEOREM PolymorphismTypes == Spec => []TypeOK
  <1>1. ASSUME IInv PROVE TypeOK
    <2>1. PICK en : en = envs OBVIOUS
    <2>2. PICK fr : fr = frames OBVIOUS
    <2>3. /\ EnvsOK(fr, en) /\ CallsOK(fr, Nodes[body], cache) /\ instantiating \in BOOLEAN
          /\ NotesInv /\ GenInv
      BY <1>1, <2>1, <2>2 DEF IInv, CallsInv
    <2>4. ASSUME NEW e \in Range(en)
          PROVE  /\ e # <<>> /\ Len(e) <= MaxEntries
                 /\ \A i \in DOMAIN e : e[i].kind \in {"type", "int"}
      <3>1. PICK i \in 1 .. Len(en) : en[i] = e
        <4>1. DOMAIN en = 1 .. Len(en) BY <2>3 DEF EnvsOK, IsSeq
        <4> QED BY <4>1 DEF Range
      <3>2. EnvOK(e) /\ e # <<>> BY <2>3, <3>1 DEF EnvsOK
      <3>3. \A j \in DOMAIN e : SlotOK(e[j]) BY <3>2, SlotDomain
      <3> QED BY <3>2, <3>3 DEF EnvOK, SlotOK
    <2>5. ASSUME NEW f \in Range(fr) PROVE f.proc \in DOMAIN Procs \cup {Main}
      <3>1. PICK i \in 1 .. Len(fr) : fr[i] = f
        <4>1. DOMAIN fr = 1 .. Len(fr) BY <2>3 DEF CallsOK, IsSeq
        <4> QED BY <4>1 DEF Range
      <3> QED BY <2>3, <3>1 DEF CallsOK, FrameOK
    <2>6. cache = {s.name : s \in Specs}
      <3>1. PICK pe : pe = pending OBVIOUS
      <3>2. IsSeq(pe) /\ cache = {pe[i].name : i \in 1 .. Len(pe)} BY <2>3, <3>1 DEF NotesInv
      <3>3. DOMAIN pe = 1 .. Len(pe) BY <3>2 DEF IsSeq
      <3>4. {s.name : s \in Range(pe)} = {pe[i].name : i \in 1 .. Len(pe)} BY <3>3 DEF Range
      <3> QED BY <3>1, <3>2, <3>4 DEF Specs
    <2>7. DOMAIN built \subseteq Known
      <3>1. Known = KnownNames(cache) BY <2>6 DEF Known, KnownNames
      <3> QED BY <2>3, <3>1 DEF GenInv, GenOK
    <2>8. errors \in Nat /\ phase \in {"analyse", "generate", "rejected", "failed", "done"}
          /\ drained \in 0 .. Len(pending)
      BY <2>3 DEF NotesInv, GenInv, GenOK
    <2> QED BY <2>1, <2>2, <2>3, <2>4, <2>5, <2>6, <2>7, <2>8 DEF TypeOK
  <1> QED BY <1>1, Invariant, PTL

===============================================================================
