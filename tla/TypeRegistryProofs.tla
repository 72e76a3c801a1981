------------------------- MODULE TypeRegistryProofs -------------------------
(***************************************************************************)
(* Theorems about TypeRegistry, for every program of type expressions, any *)
(* number of types and templates and any size of the registry: descriptors *)
(* refer to earlier ones, no type has two descriptors, a descriptor keeps  *)
(* describing what was asked for, and distinct types stay apart.           *)
(*                                                                         *)
(* The registry only grows, so that what is said of a descriptor stays     *)
(* true; the lemmas about GetOrCreate say what one lookup adds.            *)
(***************************************************************************)
EXTENDS TypeRegistry, WellFoundedInduction, TLAPS

-----------------------------------------------------------------------------
(* Sequences and least elements                                            *)

\* A sequence, of whatever elements
IsSeq(s) == Len(s) \in Nat /\ s = [k \in 1 .. Len(s) |-> s[k]]

LEMMA SeqIs == ASSUME NEW S, NEW s \in Seq(S) PROVE IsSeq(s)
  BY DEF IsSeq

LEMMA FunctionIs == ASSUME NEW n \in Nat, NEW s, s = [k \in 1 .. n |-> s[k]] PROVE IsSeq(s) /\ Len(s) = n
  <1>1. s \in Seq({s[k] : k \in 1 .. n}) BY DEF IsSeq
  <1>2. DOMAIN s = 1 .. n OBVIOUS
  <1>3. Len(s) = n BY <1>1, <1>2
  <1> QED BY <1>3 DEF IsSeq

LEMMA Tuples ==
  ASSUME NEW a, NEW b, NEW c, NEW d, NEW e, NEW f, NEW g, NEW h, NEW i, NEW j, NEW k
  PROVE  /\ IsSeq(<<a, b>>) /\ Len(<<a, b>>) = 2
         /\ IsSeq(<<a, b, c>>) /\ Len(<<a, b, c>>) = 3
         /\ IsSeq(<<a, b, c, d>>) /\ Len(<<a, b, c, d>>) = 4
         /\ IsSeq(<<a, b, c, d, e, f, g, h, i, j, k>>)
         /\ Len(<<a, b, c, d, e, f, g, h, i, j, k>>) = 11
  BY DEF IsSeq

LEMMA AppendIs ==
  ASSUME NEW s, IsSeq(s), NEW x
  PROVE  /\ IsSeq(Append(s, x)) /\ Len(Append(s, x)) = Len(s) + 1
         /\ \A k \in 1 .. Len(s) : Append(s, x)[k] = s[k]
         /\ Append(s, x)[Len(s) + 1] = x
  <1> DEFINE S == {s[k] : k \in 1 .. Len(s)} \cup {x}
  <1>1. s \in Seq(S) /\ x \in S BY DEF IsSeq
  <1> HIDE DEF S
  <1>2. Append(s, x) \in Seq(S) BY <1>1
  <1>3. IsSeq(Append(s, x)) BY <1>2, SeqIs
  <1> QED BY <1>1, <1>3

\* The library's Min on numbers: it exists, and is the least.
LEMMA MinIs == ASSUME NEW S \in SUBSET Nat, S # {} PROVE Min(S) \in S /\ \A y \in S : Min(S) <= y
  <1> DEFINE R == OpToRel(<, Nat)
  <1>1. IsWellFoundedOn(R, Nat) BY NatLessThanWellFounded
  <1>2. \A x, y \in Nat : x < y => <<x, y>> \in R BY DEF OpToRel
  <1> HIDE DEF R
  <1>3. PICK x \in S : \A y \in S : ~ (<<y, x>> \in R) BY <1>1, WFMin
  <1>4. ASSUME NEW y \in S PROVE x =< y
    <2>1. x \in Nat /\ y \in Nat OBVIOUS
    <2>2. ~ (y < x) BY <2>1, <1>2, <1>3
    <2> QED BY <2>1, <2>2
  <1> QED BY <1>4 DEF Min

-----------------------------------------------------------------------------
(* The registry                                                            *)

\* A descriptor that may follow the descriptors of r
Fits(r, d) ==
  /\ d.kids \in Seq(Nat) /\ Range(d.kids) \subseteq 1 .. Len(r)
  /\ d.kind = "struct" => IsSeq(d.names) /\ Len(d.names) = Len(d.kids)

\* A descriptor that may be alike an earlier one
MayRepeat(d) == d.kind \in Fresh \/ (d.kind = "proc" /\ d.attrs # <<>>)

RegOK(r) ==
  /\ IsSeq(r) /\ Len(r) <= MaxTypes
  /\ \A k \in 1 .. Len(r) :
       /\ r[k].kids \in Seq(Nat) /\ Range(r[k].kids) \subseteq 1 .. k - 1
       /\ r[k].kind = "struct" => IsSeq(r[k].names) /\ Len(r[k].names) = Len(r[k].kids)
  /\ \A l \in 1 .. Len(r) : MayRepeat(r[l]) \/ \A k \in 1 .. l - 1 : Alike(r[k], r[l]) => Copies(k, l)

\* q holds what r holds, and perhaps more.
Grown(r, q) == Len(r) <= Len(q) /\ \A k \in 1 .. Len(r) : q[k] = r[k]

\* g is a right answer of a lookup of d in r.
Answers(r, d, g) ==
  /\ RegOK(g.reg) /\ Grown(r, g.reg)
  /\ g.got \in 0 .. Len(g.reg)
  /\ g.got = 0 => Len(g.reg) = MaxTypes
  /\ g.got # 0 => Alike(g.reg[g.got], d)
  /\ g.got # 0 /\ d.kind \in Fresh => g.got > Len(r)

LEMMA GrownTwice ==
  ASSUME NEW p, NEW q, NEW r, Len(p) \in Nat, Len(q) \in Nat, Len(r) \in Nat, Grown(p, q), Grown(q, r)
  PROVE  Grown(p, r)
  BY DEF Grown

LEMMA GrownSame == ASSUME NEW r, RegOK(r) PROVE Grown(r, r)
  BY DEF Grown, RegOK, IsSeq

\* One more descriptor at the end
LEMMA PutIs ==
  ASSUME NEW r, RegOK(r), NEW x, Fits(r, x), Len(r) < MaxTypes,
         MayRepeat(x) \/ \A k \in 1 .. Len(r) : ~ Alike(r[k], x)
  PROVE  /\ RegOK(Append(r, x)) /\ Grown(r, Append(r, x))
         /\ Len(Append(r, x)) = Len(r) + 1 /\ Append(r, x)[Len(r) + 1] = x
  <1> DEFINE q == Append(r, x)
  <1>1. IsSeq(r) /\ Len(r) \in Nat BY DEF RegOK, IsSeq
  <1>2. /\ IsSeq(q) /\ Len(q) = Len(r) + 1
        /\ \A k \in 1 .. Len(r) : q[k] = r[k]
        /\ q[Len(r) + 1] = x
    BY <1>1, AppendIs
  <1> HIDE DEF q
  <1>3. Len(q) <= MaxTypes BY <1>1, <1>2, RegistryAssumption
  <1>4. ASSUME NEW k \in 1 .. Len(q)
        PROVE  /\ q[k].kids \in Seq(Nat) /\ Range(q[k].kids) \subseteq 1 .. k - 1
               /\ q[k].kind = "struct" => IsSeq(q[k].names) /\ Len(q[k].names) = Len(q[k].kids)
    <2>1. CASE k \in 1 .. Len(r) BY <1>2, <2>1 DEF RegOK
    <2>2. CASE k = Len(r) + 1 BY <1>1, <1>2, <2>2 DEF Fits
    <2> QED BY <1>1, <1>2, <2>1, <2>2
  <1>5. ASSUME NEW l \in 1 .. Len(q)
        PROVE  MayRepeat(q[l]) \/ \A k \in 1 .. l - 1 : Alike(q[k], q[l]) => Copies(k, l)
    <2>1. CASE l \in 1 .. Len(r)
      <3>1. \A k \in 1 .. l - 1 : k \in 1 .. Len(r) BY <1>1, <2>1
      <3> QED BY <1>2, <2>1, <3>1 DEF RegOK
    <2>2. CASE l = Len(r) + 1
      <3>1. 1 .. l - 1 = 1 .. Len(r) BY <1>1, <2>2
      <3> QED BY <1>2, <2>2, <3>1
    <2> QED BY <1>1, <1>2, <2>1, <2>2
  <1>6. RegOK(q) BY <1>2, <1>3, <1>4, <1>5 DEF RegOK
  <1>7. Grown(r, q) BY <1>1, <1>2 DEF Grown
  <1> QED BY <1>2, <1>6, <1>7 DEF q

LEMMA AddIs ==
  ASSUME NEW r, RegOK(r), NEW d, Fits(r, d), Len(r) < MaxTypes,
         MayRepeat(d) \/ \A k \in 1 .. Len(r) : ~ Alike(r[k], d)
  PROVE  /\ RegOK(Add(r, d)) /\ Grown(r, Add(r, d)) /\ Len(Add(r, d)) = Len(r) + 1
         /\ Alike(Add(r, d)[Len(r) + 1], d) /\ Add(r, d)[Len(r) + 1].attrs = d.attrs
  <1> DEFINE x == WithId(r, d)
  <1>1. /\ x.kind = d.kind /\ x.kids = d.kids /\ x.nums = d.nums /\ x.names = d.names
        /\ x.attrs = d.attrs
    BY DEF WithId
  <1>2. Add(r, d) = Append(r, x) BY DEF Add
  <1> HIDE DEF x
  <1>3. Fits(r, x) BY <1>1 DEF Fits
  <1>4. MayRepeat(x) \/ \A k \in 1 .. Len(r) : ~ Alike(r[k], x) BY <1>1 DEF MayRepeat, Alike
  <1> QED BY <1>1, <1>2, <1>3, <1>4, PutIs DEF Alike

\* type_descriptor_alloc
LEMMA CreateAnswers ==
  ASSUME NEW r, RegOK(r), NEW d, Fits(r, d),
         MayRepeat(d) \/ \A k \in 1 .. Len(r) : ~ Alike(r[k], d)
  PROVE  /\ Answers(r, d, Create(r, d))
         /\ Create(r, d).got # 0 => Create(r, d).reg[Create(r, d).got].attrs = d.attrs
  <1>1. Len(r) \in Nat /\ Len(r) <= MaxTypes /\ MaxTypes \in Nat BY RegistryAssumption DEF RegOK, IsSeq
  <1>2. CASE Len(r) >= MaxTypes
    <2>1. Create(r, d) = [reg |-> r, got |-> 0] BY <1>2 DEF Create
    <2> QED BY <1>1, <1>2, <2>1, GrownSame DEF Answers
  <1>3. CASE ~ (Len(r) >= MaxTypes)
    <2>1. Create(r, d) = [reg |-> Add(r, d), got |-> Len(r) + 1] BY <1>3 DEF Create
    <2>2. Len(r) < MaxTypes BY <1>1, <1>3
    <2> QED BY <1>1, <2>1, <2>2, AddIs DEF Answers
  <1> QED BY <1>2, <1>3

\* Every get_or_create_* answers right.
LEMMA GetAnswers ==
  ASSUME NEW r, RegOK(r), NEW d, Fits(r, d)
  PROVE  Answers(r, d, GetOrCreate(r, d))
  <1>1. Len(r) \in Nat /\ Len(r) <= MaxTypes BY DEF RegOK, IsSeq
  <1>2. CASE FoundIn(r, d) # {}
    <2>1. FoundIn(r, d) \subseteq 1 .. Len(r) /\ d.kind \notin Fresh
          /\ \A k \in FoundIn(r, d) : Alike(r[k], d)
      BY <1>2 DEF FoundIn
    <2>2. FoundIn(r, d) \in SUBSET Nat BY <1>1, <2>1
    <2>3. Min(FoundIn(r, d)) \in FoundIn(r, d) BY <1>2, <2>2, MinIs
    <2>4. GetOrCreate(r, d) = [reg |-> r, got |-> Min(FoundIn(r, d))] BY <1>2 DEF GetOrCreate
    <2> QED BY <1>1, <2>1, <2>3, <2>4, GrownSame DEF Answers
  <1>3. CASE FoundIn(r, d) = {}
    <2>1. MayRepeat(d) \/ \A k \in 1 .. Len(r) : ~ Alike(r[k], d) BY <1>3 DEF FoundIn, MayRepeat
    <2> QED BY <1>3, <2>1, CreateAnswers DEF GetOrCreate
  <1> QED BY <1>2, <1>3

\* A procedure with default values gets a descriptor that holds them.
LEMMA GetProcAnswers ==
  ASSUME NEW r, RegOK(r), NEW d, Fits(r, d), d.kind = "proc", NEW u \in BOOLEAN, u => d.attrs # <<>>
  PROVE  LET g == GetOrCreateProc(r, d, u)
         IN  Answers(r, d, g) /\ (u /\ g.got # 0 => g.reg[g.got].attrs = d.attrs)
  <1>1. CASE u
    <2>1. MayRepeat(d) BY <1>1 DEF MayRepeat
    <2> QED BY <1>1, <2>1, CreateAnswers DEF GetOrCreateProc
  <1>2. CASE ~ u BY <1>2, GetAnswers DEF GetOrCreateProc
  <1> QED BY <1>1, <1>2

-----------------------------------------------------------------------------
(* The registry before any program                                         *)

LEMMA NamedBasic ==
  ASSUME NEW name \in {"int", "rawptr", "string", "u8"}
  PROVE  BasicNamed(name) \in 1 .. Len(Basics)
  <1>1. \E i \in DOMAIN Basics : Basics[i].name = name /\ Basics[i].listed BY RegistryAssumption
  <1>2. DOMAIN Basics = 1 .. Len(Basics) BY RegistryAssumption
  <1> QED BY <1>1, <1>2 DEF BasicNamed

LEMMA HiddenBasic == HiddenI64 \in 1 .. Len(Basics)
  <1>1. \E i \in DOMAIN Basics : Basics[i].name = "i64" /\ ~ Basics[i].listed BY RegistryAssumption
  <1>2. DOMAIN Basics = 1 .. Len(Basics) BY RegistryAssumption
  <1> QED BY <1>1, <1>2 DEF HiddenI64

LEMMA BasicsOK ==
  /\ RegOK(CreateRegistry) /\ Len(CreateRegistry) = Len(Basics)
  /\ \A k \in 1 .. Len(Basics) : CreateRegistry[k].kind = "basic"
  <1> DEFINE r == CreateRegistry
             n == Len(Basics)
  <1>1. n \in Nat /\ DOMAIN Basics = 1 .. n /\ n <= MaxTypes BY RegistryAssumption
  <1>2. ASSUME NEW k \in 1 .. n
        PROVE  /\ r[k].kind = "basic" /\ r[k].kids = <<>> /\ r[k].names = <<Basics[k].name>>
    BY <1>1 DEF CreateRegistry, WithId, BasicDesc, Desc
  <1>3. IsSeq(r) /\ Len(r) = n BY <1>1, FunctionIs DEF CreateRegistry
  <1> HIDE DEF r
  <1>4. ASSUME NEW k \in 1 .. n
        PROVE  /\ r[k].kids \in Seq(Nat) /\ Range(r[k].kids) \subseteq 1 .. k - 1
               /\ r[k].kind = "struct" => IsSeq(r[k].names) /\ Len(r[k].names) = Len(r[k].kids)
    <2>1. r[k].kids = <<>> /\ r[k].kind = "basic" BY <1>2
    <2>2. Range(<<>>) = {} BY DEF Range
    <2> QED BY <2>1, <2>2
  <1>5. ASSUME NEW l \in 1 .. n, NEW k \in 1 .. l - 1, Alike(r[k], r[l]) PROVE Copies(k, l)
    <2>1. k \in 1 .. n /\ k # l BY <1>1
    <2>2. <<Basics[k].name>> = <<Basics[l].name>> BY <1>2, <1>5, <2>1 DEF Alike
    <2>3. Basics[k].name = Basics[l].name BY <2>2
    <2>4. Basics[k].listed # Basics[l].listed BY <1>1, <2>1, <2>3, RegistryAssumption
    <2> QED BY <2>1, <2>3, <2>4 DEF Copies
  <1> QED BY <1>1, <1>2, <1>3, <1>4, <1>5 DEF RegOK, r

\* One of the structs of register_builtin_context_types
LEMMA AddStruct ==
  ASSUME NEW r, RegOK(r), Len(r) < MaxTypes, \A k \in 1 .. Len(r) : r[k].kind # "pointer",
         NEW m \in Nat, NEW names, IsSeq(names), NEW kids \in Seq(Nat),
         Len(names) = m, Len(kids) = m, \A k \in 1 .. m : kids[k] \in 1 .. Len(r)
  PROVE  LET q == Add(r, StructType(names, kids, <<>>))
         IN  RegOK(q) /\ Len(q) = Len(r) + 1 /\ \A k \in 1 .. Len(q) : q[k].kind # "pointer"
  <1> DEFINE d == StructType(names, kids, <<>>)
             q == Add(r, d)
  <1>1. d.kind = "struct" /\ d.kids = kids /\ d.names = names BY DEF StructType, Desc
  <1> HIDE DEF d
  <1>2. Range(kids) \subseteq 1 .. Len(r) BY DEF Range
  <1>3. Fits(r, d) BY <1>1, <1>2, SeqIs DEF Fits
  <1>4. MayRepeat(d) BY <1>1 DEF MayRepeat, Fresh
  <1>5. /\ RegOK(q) /\ Len(q) = Len(r) + 1 /\ Grown(r, q)
        /\ Alike(q[Len(r) + 1], d)
    BY <1>3, <1>4, AddIs
  <1> HIDE DEF q
  <1>6. Len(r) \in Nat BY DEF RegOK, IsSeq
  <1>7. \A k \in 1 .. Len(q) : q[k].kind # "pointer" BY <1>1, <1>5, <1>6 DEF Grown, Alike
  <1> QED BY <1>5, <1>7 DEF q, d

LEMMA StartIs == RegOK(Start) /\ Len(Start) = Len(Basics) + 5
  <1> DEFINE r   == CreateRegistry
             n   == Len(Basics)
             ptr == BasicNamed("rawptr")
             i64 == HiddenI64
             int == BasicNamed("int")
             str == BasicNamed("string")
             m1  == <<"procedure", "data">>
             k1  == <<ptr, ptr>>
             r1  == Add(r, StructType(m1, k1, <<>>))
             m2  == <<"allocator", "temp_allocator", "user_ptr", "user_index">>
             k2  == <<n + 1, n + 1, ptr, int>>
             r2  == Add(r1, StructType(m2, k2, <<>>))
             m3  == <<"file", "line", "column">>
             k3  == <<str, int, int>>
             r3  == Add(r2, StructType(m3, k3, <<>>))
             m4  == <<"size", "align", "id", "kind", "elem_count", "elem_size",
                      "elem_type_id", "rows", "cols", "layout", "lane_count">>
             k4  == [i \in 1 .. 11 |-> i64]
             r4  == Add(r3, StructType(m4, k4, <<>>))
             x   == [WithId(r4, PointerType(n + 4)) EXCEPT !.type_id = NoId]
  <1>0. Len(r) = n BY BasicsOK
  <1>1. Start = Append(r4, x) BY <1>0 DEF Start, BuiltinTypes
  <1>2. n \in Nat /\ MaxTypes \in Nat /\ n + 5 <= MaxTypes BY RegistryAssumption
  <1>3. ptr \in 1 .. n /\ i64 \in 1 .. n /\ int \in 1 .. n /\ str \in 1 .. n BY NamedBasic, HiddenBasic
  <1>4. /\ IsSeq(m1) /\ Len(m1) = 2 /\ IsSeq(m2) /\ Len(m2) = 4
        /\ IsSeq(m3) /\ Len(m3) = 3
    BY Tuples
  <1>5. IsSeq(m4) /\ Len(m4) = 11 BY Tuples
  <1>6. x.kind = "pointer" /\ x.kids = <<n + 4>> BY DEF WithId, PointerType, Desc
  <1>7. k1 \in Seq(Nat) /\ Len(k1) = 2 /\ \A k \in 1 .. 2 : k1[k] \in 1 .. n BY <1>2, <1>3
  <1>8. k2 \in Seq(Nat) /\ Len(k2) = 4 /\ \A k \in 1 .. 4 : k2[k] \in 1 .. n + 1
    <2>1. n + 1 \in Nat /\ ptr \in Nat /\ int \in Nat BY <1>2, <1>3
    <2>2. k2 \in Seq(Nat) /\ Len(k2) = 4 BY <2>1
    <2>3. k2[1] = n + 1 /\ k2[2] = n + 1 /\ k2[3] = ptr /\ k2[4] = int OBVIOUS
    <2> HIDE DEF k2, ptr, int, n
    <2> QED BY <1>2, <1>3, <2>2, <2>3
  <1>9. k3 \in Seq(Nat) /\ Len(k3) = 3 /\ \A k \in 1 .. 3 : k3[k] \in 1 .. n BY <1>2, <1>3
  <1>10. k4 \in Seq(Nat) /\ Len(k4) = 11 /\ \A k \in 1 .. 11 : k4[k] \in 1 .. n BY <1>2, <1>3
  <1>11. RegOK(r) /\ \A k \in 1 .. n : r[k].kind # "pointer" BY BasicsOK
  <1> HIDE DEF r, n, ptr, i64, int, str, m1, m2, m3, m4, k1, k2, k3, k4
  <1>12. RegOK(r1) /\ Len(r1) = n + 1 /\ \A k \in 1 .. Len(r1) : r1[k].kind # "pointer"
    <2>1. Len(r) < MaxTypes BY <1>0, <1>2
    <2> QED BY <2>1, <1>0, <1>4, <1>7, <1>11, AddStruct
  <1> HIDE DEF r1
  <1>13. RegOK(r2) /\ Len(r2) = n + 2 /\ \A k \in 1 .. Len(r2) : r2[k].kind # "pointer"
    <2>1. Len(r1) < MaxTypes /\ \A k \in 1 .. 4 : k2[k] \in 1 .. Len(r1) BY <1>2, <1>8, <1>12
    <2>2. Len(r2) = Len(r1) + 1 /\ RegOK(r2) /\ \A k \in 1 .. Len(r2) : r2[k].kind # "pointer"
      BY <2>1, <1>4, <1>8, <1>12, AddStruct
    <2> QED BY <1>2, <1>12, <2>2
  <1> HIDE DEF r2
  <1>14. RegOK(r3) /\ Len(r3) = n + 3 /\ \A k \in 1 .. Len(r3) : r3[k].kind # "pointer"
    <2>1. Len(r2) < MaxTypes /\ \A k \in 1 .. 3 : k3[k] \in 1 .. Len(r2) BY <1>2, <1>9, <1>13
    <2>2. Len(r3) = Len(r2) + 1 /\ RegOK(r3) /\ \A k \in 1 .. Len(r3) : r3[k].kind # "pointer"
      BY <2>1, <1>4, <1>9, <1>13, AddStruct
    <2> QED BY <1>2, <1>13, <2>2
  <1> HIDE DEF r3
  <1>15. RegOK(r4) /\ Len(r4) = n + 4 /\ \A k \in 1 .. Len(r4) : r4[k].kind # "pointer"
    <2>1. Len(r3) < MaxTypes BY <1>2, <1>14
    <2>3. \A k \in 1 .. 11 : k4[k] \in 1 .. Len(r3)
      <3>1. \A y \in 1 .. n : y \in 1 .. Len(r3) BY <1>2, <1>14
      <3> QED BY <1>10, <3>1
    <2>2. Len(r4) = Len(r3) + 1 /\ RegOK(r4) /\ \A k \in 1 .. Len(r4) : r4[k].kind # "pointer"
      BY <2>1, <2>3, <1>5, <1>10, <1>14, AddStruct
    <2> QED BY <1>2, <1>14, <2>2
  <1> HIDE DEF r4, x
  <1>16. Fits(r4, x)
    <2>1. x.kids \in Seq(Nat) /\ Range(x.kids) \subseteq 1 .. Len(r4) BY <1>2, <1>6, <1>15 DEF Range
    <2> QED BY <1>6, <2>1 DEF Fits
  <1>17. \A k \in 1 .. Len(r4) : ~ Alike(r4[k], x) BY <1>6, <1>15 DEF Alike
  <1>18. Len(r4) < MaxTypes BY <1>2, <1>15
  <1>19. RegOK(Start) /\ Len(Start) = Len(r4) + 1 BY <1>1, <1>15, <1>16, <1>17, <1>18, PutIs
  <1> QED BY <1>2, <1>15, <1>19 DEF n

-----------------------------------------------------------------------------
(* The inductive invariant                                                 *)

Composite == {"soa", "soa_struct", "template", "literal"}

\* A request that was answered
AskedOK(r, d) ==
  /\ d.kids \in Seq(Nat) /\ Range(d.kids) \subseteq 0 .. Len(r)
  /\ d.kind \in Composite \cup {"distinct"} => Len(d.kids) = 1 /\ d.kids[1] # 0
  /\ d.kind = "soa" => /\ r[d.kids[1]].kind = "struct" /\ d.nums # <<>>
                       /\ d.names[1] \in {"slice", "array"}
  /\ d.kind = "soa_struct" => IsSeq(d.names) /\ Len(d.names) = 1
  /\ d.kind \in {"template", "literal"} => d.names[1] \in DOMAIN Templates

\* The descriptor it was answered with describes it; for composite types only
\* while the registry has room.
Right(r, d, k) ==
  0 \notin Range(d.kids) /\ (d.kind \in Composite => Len(r) < MaxTypes) => Means(r, d, k)

UseOK(r, u) ==
  u.got \in 0 .. Len(r) /\ (u.got # 0 => AskedOK(r, u.asked) /\ Right(r, u.asked, u.got))

\* Uses are right, and no two distinct types are one.
UsesOK(r, us) ==
  /\ IsSeq(us)
  /\ \A k \in 1 .. Len(us) : UseOK(r, us[k])
  /\ \A k, l \in 1 .. Len(us) :
       (/\ k # l /\ us[k].got # 0
        /\ us[k].asked.kind = "distinct" /\ us[l].asked.kind = "distinct") =>
       us[k].got # us[l].got

EntryOK(r, e) ==
  /\ e.result \in 1 .. Len(r)
  /\ AskedOK(r, Instantiation(e.origin, e.arg, e.n))
  /\ Right(r, Instantiation(e.origin, e.arg, e.n), e.result)

\* What is cached is right.
TemplatesOK(r, ts) ==
  /\ IsSeq(ts) /\ Len(ts) <= MaxTemplates
  /\ \A k \in 1 .. Len(ts) : EntryOK(r, ts[k])

\* The fields that a #soa type or a template is made of
Source(r, d) ==
  CASE d.kind = "soa" ->
         [f \in DOMAIN r[d.kids[1]].kids |->
            [name |-> r[d.kids[1]].names[f], kid |-> r[d.kids[1]].kids[f], wrap |-> d.names[1]]]
    [] d.kind = "soa_struct" -> <<[name |-> d.names[1], kid |-> d.kids[1], wrap |-> "slice"]>>
    [] OTHER ->
         [f \in DOMAIN Templates[d.names[1]].fields |->
            [name |-> Templates[d.names[1]].fields[f].name, kid |-> d.kids[1],
             wrap |-> Templates[d.names[1]].fields[f].wrap]]

SizeFor(d) == IF d.kind = "soa_struct" THEN 0
              ELSE IF d.nums = <<>> THEN Min(Numbers) ELSE d.nums[1]

FormOf(d) == IF d.kind \in {"soa", "soa_struct"} THEN "soa" ELSE Templates[d.names[1]].form

\* The fields done and the fields to do are the fields of the source, as long as
\* the registry has room.
BuildMeans(r, b) ==
  LET src == Source(r, b.asked)
  IN  /\ Len(b.done) + Len(b.todo) = Len(src)
      /\ \A k \in 1 .. Len(b.todo) : b.todo[k] = src[Len(b.done) + k]
      /\ \A k \in 1 .. Len(b.done) :
           /\ b.done[k].name = src[k].name
           /\ b.done[k].kid # 0
           /\ IsWrapped(r, b.done[k].kid, src[k].kid, src[k].wrap, b.n)

IsBuild(b) ==
  b = [form |-> b.form, todo |-> b.todo, done |-> b.done, n |-> b.n,
       attrs |-> b.attrs, keepNull |-> b.keepNull, asked |-> b.asked]

TodoOK(r, f) == f.kid \in 1 .. Len(r) /\ f.wrap \in {"plain", "slice", "array"}

DoneOK(r, b, f) == f.kid \in 0 .. Len(r) /\ (~ b.keepNull => f.kid # 0)

Building(r, b) ==
  /\ IsBuild(b)
  /\ b.asked.kind \in Composite /\ AskedOK(r, b.asked)
  /\ b.form = FormOf(b.asked) /\ b.n = SizeFor(b.asked)
  /\ b.form # "soa" => ~ b.keepNull
  /\ IsSeq(b.todo) /\ \A k \in 1 .. Len(b.todo) : TodoOK(r, b.todo[k])
  /\ IsSeq(b.done) /\ \A k \in 1 .. Len(b.done) : DoneOK(r, b, b.done[k])
  /\ Len(r) < MaxTypes => BuildMeans(r, b)

BuildOK(r, b) == b # NoBuild => Building(r, b)

IInv ==
  /\ RegOK(reg) /\ Len(Start) <= Len(reg) /\ crashed \in BOOLEAN
  /\ UsesOK(reg, uses) /\ TemplatesOK(reg, templates) /\ BuildOK(reg, build)

-----------------------------------------------------------------------------
(* What is said of a registry stays true when it grows                     *)

LEMMA WrappedStays ==
  ASSUME NEW r, NEW q, Grown(r, q), NEW w \in 1 .. Len(r), NEW k, NEW wrap, NEW n,
         wrap \in {"plain", "slice", "array"}, IsWrapped(r, w, k, wrap, n)
  PROVE  IsWrapped(q, w, k, wrap, n)
  BY DEF Grown, IsWrapped

LEMMA AskedStays ==
  ASSUME NEW r, NEW q, RegOK(r), RegOK(q), Grown(r, q), NEW d, AskedOK(r, d)
  PROVE  AskedOK(q, d)
  <1>1. Len(r) \in Nat /\ Len(q) \in Nat /\ Len(r) <= Len(q) BY DEF RegOK, IsSeq, Grown
  <1>2. Range(d.kids) \subseteq 0 .. Len(q) BY <1>1 DEF AskedOK
  <1>3. ASSUME d.kind = "soa" PROVE q[d.kids[1]] = r[d.kids[1]]
    <2>1. Len(d.kids) = 1 /\ d.kids[1] # 0 /\ d.kids \in Seq(Nat) BY <1>3 DEF AskedOK, Composite
    <2>2. 1 \in DOMAIN d.kids BY <2>1
    <2>3. d.kids[1] \in Range(d.kids) BY <2>2 DEF Range
    <2>4. d.kids[1] \in 1 .. Len(r) BY <1>1, <2>1, <2>3 DEF AskedOK
    <2> QED BY <2>4 DEF Grown
  <1> QED BY <1>2, <1>3 DEF AskedOK

LEMMA FirstKid ==
  ASSUME NEW r, RegOK(r), NEW d, AskedOK(r, d), d.kind \in Composite \cup {"distinct"}
  PROVE  d.kids[1] \in 1 .. Len(r)
  <1>1. Len(d.kids) = 1 /\ d.kids[1] # 0 /\ d.kids \in Seq(Nat) BY DEF AskedOK
  <1>2. 1 \in DOMAIN d.kids BY <1>1
  <1>3. d.kids[1] \in Range(d.kids) BY <1>2 DEF Range
  <1>4. Len(r) \in Nat BY DEF RegOK, IsSeq
  <1> QED BY <1>1, <1>3, <1>4 DEF AskedOK

\* The fields of a descriptor are descriptors before it.
LEMMA KidsOfReg ==
  ASSUME NEW r, RegOK(r), NEW k \in 1 .. Len(r)
  PROVE  /\ r[k].kids \in Seq(Nat) /\ DOMAIN r[k].kids = 1 .. Len(r[k].kids)
         /\ \A f \in DOMAIN r[k].kids : r[k].kids[f] \in 1 .. Len(r) /\ r[k].kids[f] < k
  <1>1. Len(r) \in Nat BY DEF RegOK, IsSeq
  <1>2. r[k].kids \in Seq(Nat) /\ Range(r[k].kids) \subseteq 1 .. k - 1 BY DEF RegOK
  <1>3. ASSUME NEW f \in DOMAIN r[k].kids PROVE r[k].kids[f] \in 1 .. Len(r) /\ r[k].kids[f] < k
    <2>1. r[k].kids[f] \in 1 .. k - 1 BY <1>2 DEF Range
    <2> QED BY <1>1, <2>1
  <1> QED BY <1>2, <1>3

LEMMA ElementOf ==
  ASSUME NEW S, NEW s \in Seq(S), NEW f \in DOMAIN s
  PROVE  s[f] \in S
  OBVIOUS

LEMMA MeansStays ==
  ASSUME NEW r, NEW q, RegOK(r), RegOK(q), Grown(r, q), NEW d, AskedOK(r, d),
         NEW k \in 1 .. Len(r), Means(r, d, k)
  PROVE  Means(q, d, k)
  <1>1. q[k] = r[k] BY DEF Grown
  <1>2. /\ r[k].kids \in Seq(Nat) /\ DOMAIN r[k].kids = 1 .. Len(r[k].kids)
        /\ \A f \in DOMAIN r[k].kids : r[k].kids[f] \in 1 .. Len(r)
    BY KidsOfReg
  <1>3. CASE d.kind = "soa"
    <2>1. d.kids[1] \in 1 .. Len(r) BY <1>3, FirstKid DEF Composite
    <2>2. q[d.kids[1]] = r[d.kids[1]] BY <2>1 DEF Grown
    <2> DEFINE s == r[d.kids[1]]
    <2>3. /\ r[k].kind = "soa" /\ r[k].names = s.names /\ Len(r[k].kids) = Len(s.kids)
          /\ \A f \in DOMAIN s.kids : IsWrapped(r, r[k].kids[f], s.kids[f], d.names[1], d.nums[1])
      BY <1>3 DEF Means
    <2>4. DOMAIN s.kids = 1 .. Len(s.kids) BY <2>1, KidsOfReg
    <2>5. d.names[1] \in {"plain", "slice", "array"} BY <1>3 DEF AskedOK
    <2>6. ASSUME NEW f \in DOMAIN s.kids
          PROVE  IsWrapped(q, q[k].kids[f], s.kids[f], d.names[1], d.nums[1])
      <3>1. r[k].kids[f] \in 1 .. Len(r) BY <1>2, <2>3, <2>4
      <3>2. IsWrapped(r, r[k].kids[f], s.kids[f], d.names[1], d.nums[1]) BY <2>3
      <3> HIDE DEF s
      <3>3. IsWrapped(q, r[k].kids[f], s.kids[f], d.names[1], d.nums[1])
        BY <2>5, <3>1, <3>2, WrappedStays
      <3> QED BY <1>1, <3>3
    <2> QED BY <1>1, <1>3, <2>2, <2>3, <2>6 DEF Means
  <1>4. CASE d.kind = "soa_struct"
    <2>1. /\ r[k].kind = "soa" /\ r[k].names = d.names /\ Len(r[k].kids) = 1
          /\ IsWrapped(r, r[k].kids[1], d.kids[1], "slice", 0)
      BY <1>4 DEF Means
    <2>2. r[k].kids[1] \in 1 .. Len(r) BY <1>2, <2>1
    <2>3. IsWrapped(q, r[k].kids[1], d.kids[1], "slice", 0) BY <2>1, <2>2, WrappedStays
    <2> QED BY <1>1, <1>4, <2>1, <2>3 DEF Means
  <1>5. CASE d.kind \in {"template", "literal"}
    <2> DEFINE t == Templates[d.names[1]]
               n == IF d.nums = <<>> THEN Min(Numbers) ELSE d.nums[1]
    <2>1. /\ r[k].kind = t.form /\ Len(r[k].kids) = Len(t.fields)
          /\ \A f \in DOMAIN t.fields :
               r[k].names[f] = t.fields[f].name /\ IsWrapped(r, r[k].kids[f], d.kids[1], t.fields[f].wrap, n)
      BY <1>5 DEF Means
    <2>2. d.names[1] \in DOMAIN Templates BY <1>5 DEF AskedOK
    <2>3. t.fields \in Seq([name : Labels, wrap : {"plain", "slice", "array"}])
      BY <2>2, RegistryAssumption
    <2>4. ASSUME NEW f \in DOMAIN t.fields
          PROVE  r[k].names[f] = t.fields[f].name /\ IsWrapped(q, r[k].kids[f], d.kids[1], t.fields[f].wrap, n)
      <3>1. r[k].names[f] = t.fields[f].name /\ IsWrapped(r, r[k].kids[f], d.kids[1], t.fields[f].wrap, n)
        BY <2>1
      <3>2. DOMAIN t.fields = 1 .. Len(t.fields) /\ t.fields[f].wrap \in {"plain", "slice", "array"}
        <4>1. t.fields[f] \in [name : Labels, wrap : {"plain", "slice", "array"}] BY <2>3, ElementOf
        <4> QED BY <2>3, <4>1
      <3>3. r[k].kids[f] \in 1 .. Len(r) BY <1>2, <2>1, <3>2
      <3> HIDE DEF t, n
      <3> QED BY <3>1, <3>2, <3>3, WrappedStays
    <2> QED BY <1>1, <1>5, <2>1, <2>4 DEF Means
  <1>6. CASE d.kind \notin Composite
    BY <1>1, <1>6 DEF Means, Composite
  <1> QED BY <1>3, <1>4, <1>5, <1>6 DEF Composite

LEMMA RightStays ==
  ASSUME NEW r, NEW q, RegOK(r), RegOK(q), Grown(r, q), NEW d, AskedOK(r, d),
         NEW k \in 1 .. Len(r), Right(r, d, k)
  PROVE  Right(q, d, k)
  <1>1. Len(q) < MaxTypes => Len(r) < MaxTypes
    BY RegistryAssumption DEF RegOK, IsSeq, Grown
  <1> QED BY <1>1, MeansStays DEF Right

LEMMA UsesStay ==
  ASSUME NEW r, NEW q, RegOK(r), RegOK(q), Grown(r, q), NEW us, UsesOK(r, us)
  PROVE  UsesOK(q, us)
  <1>1. Len(r) \in Nat /\ Len(q) \in Nat /\ Len(r) <= Len(q) BY DEF RegOK, IsSeq, Grown
  <1>2. ASSUME NEW k \in 1 .. Len(us) PROVE UseOK(q, us[k])
    <2>1. UseOK(r, us[k]) BY DEF UsesOK
    <2>2. us[k].got \in 0 .. Len(q) BY <1>1, <2>1 DEF UseOK
    <2>3. ASSUME us[k].got # 0 PROVE AskedOK(q, us[k].asked) /\ Right(q, us[k].asked, us[k].got)
      <3>1. us[k].got \in 1 .. Len(r) BY <1>1, <2>1, <2>3 DEF UseOK
      <3>2. AskedOK(r, us[k].asked) /\ Right(r, us[k].asked, us[k].got) BY <2>1, <2>3 DEF UseOK
      <3> QED BY <3>1, <3>2, AskedStays, RightStays
    <2> QED BY <2>2, <2>3 DEF UseOK
  <1> QED BY <1>2 DEF UsesOK

LEMMA TemplatesStay ==
  ASSUME NEW r, NEW q, RegOK(r), RegOK(q), Grown(r, q), NEW ts, TemplatesOK(r, ts)
  PROVE  TemplatesOK(q, ts)
  <1>1. Len(r) \in Nat /\ Len(q) \in Nat /\ Len(r) <= Len(q) BY DEF RegOK, IsSeq, Grown
  <1>2. ASSUME NEW k \in 1 .. Len(ts) PROVE EntryOK(q, ts[k])
    <2>1. EntryOK(r, ts[k]) BY DEF TemplatesOK
    <2>2. ts[k].result \in 1 .. Len(r) /\ ts[k].result \in 1 .. Len(q) BY <1>1, <2>1 DEF EntryOK
    <2> QED BY <2>1, <2>2, AskedStays, RightStays DEF EntryOK
  <1> QED BY <1>2 DEF TemplatesOK

LEMMA SourceStays ==
  ASSUME NEW r, NEW q, RegOK(r), RegOK(q), Grown(r, q), NEW d, AskedOK(r, d), d.kind \in Composite
  PROVE  Source(q, d) = Source(r, d)
  <1>1. d.kids[1] \in 1 .. Len(r) BY FirstKid
  <1>2. q[d.kids[1]] = r[d.kids[1]] BY <1>1 DEF Grown
  <1> QED BY <1>2 DEF Source

\* The fields of a source are types of the registry.
LEMMA SourceIs ==
  ASSUME NEW r, RegOK(r), NEW d, AskedOK(r, d), d.kind \in Composite
  PROVE  IsSeq(Source(r, d)) /\ \A k \in 1 .. Len(Source(r, d)) : TodoOK(r, Source(r, d)[k])
  <1>1. d.kids[1] \in 1 .. Len(r) BY FirstKid
  <1>2. CASE d.kind = "soa"
    <2> DEFINE s == r[d.kids[1]].kids
               x(f) == [name |-> r[d.kids[1]].names[f], kid |-> s[f], wrap |-> d.names[1]]
    <2>1. s \in Seq(Nat) /\ DOMAIN s = 1 .. Len(s) /\ \A f \in DOMAIN s : s[f] \in 1 .. Len(r)
      BY <1>1, KidsOfReg
    <2>2. Source(r, d) = [f \in DOMAIN s |-> x(f)] BY <1>2 DEF Source
    <2>3. Len(s) \in Nat BY <2>1
    <2>4. \A f \in DOMAIN s : TodoOK(r, x(f)) BY <1>2, <2>1 DEF TodoOK, AskedOK
    <2> HIDE DEF s, x
    <2>5. IsSeq(Source(r, d)) /\ Len(Source(r, d)) = Len(s) BY <2>1, <2>2, <2>3, FunctionIs
    <2> QED BY <2>1, <2>2, <2>4, <2>5
  <1>3. CASE d.kind = "soa_struct"
    <2> DEFINE x == [name |-> d.names[1], kid |-> d.kids[1], wrap |-> "slice"]
    <2>1. Source(r, d) = <<x>> BY <1>3 DEF Source
    <2>2. TodoOK(r, x) BY <1>1 DEF TodoOK
    <2> HIDE DEF x
    <2>3. IsSeq(<<x>>) /\ Len(<<x>>) = 1 /\ <<x>>[1] = x BY DEF IsSeq
    <2>4. \A k \in 1 .. 1 : k = 1 OBVIOUS
    <2> QED BY <2>1, <2>2, <2>3, <2>4
  <1>4. CASE d.kind \in {"template", "literal"}
    <2> DEFINE t == Templates[d.names[1]].fields
               x(f) == [name |-> t[f].name, kid |-> d.kids[1], wrap |-> t[f].wrap]
    <2>1. t \in Seq([name : Labels, wrap : {"plain", "slice", "array"}])
      BY <1>4, RegistryAssumption DEF AskedOK
    <2>2. Source(r, d) = [f \in DOMAIN t |-> x(f)] BY <1>4 DEF Source
    <2>3. ASSUME NEW f \in DOMAIN t PROVE TodoOK(r, x(f))
      <3>1. t[f] \in [name : Labels, wrap : {"plain", "slice", "array"}] BY <2>1, ElementOf
      <3> QED BY <1>1, <3>1 DEF TodoOK
    <2> HIDE DEF t, x
    <2>4. Len(t) \in Nat /\ DOMAIN t = 1 .. Len(t) BY <2>1
    <2>5. IsSeq(Source(r, d)) /\ Len(Source(r, d)) = Len(t) BY <2>2, <2>4, FunctionIs
    <2> QED BY <2>2, <2>3, <2>4, <2>5
  <1> QED BY <1>2, <1>3, <1>4 DEF Composite

LEMMA PartOf == ASSUME NEW x \in Nat, NEW y \in Nat, NEW z, x + y = z PROVE x <= z /\ z \in Nat
  OBVIOUS

LEMMA BuildStays ==
  ASSUME NEW r, NEW q, RegOK(r), RegOK(q), Grown(r, q), NEW b, BuildOK(r, b)
  PROVE  BuildOK(q, b)
  <1> SUFFICES ASSUME Building(r, b) PROVE Building(q, b) BY DEF BuildOK
  <1>1. Len(r) \in Nat /\ Len(q) \in Nat /\ Len(r) <= Len(q) /\ MaxTypes \in Nat
    BY RegistryAssumption DEF RegOK, IsSeq, Grown
  <1>2. AskedOK(r, b.asked) /\ b.asked.kind \in Composite BY DEF Building
  <1>3. AskedOK(q, b.asked) BY <1>2, AskedStays
  <1>4. \A k \in 1 .. Len(b.todo) : TodoOK(q, b.todo[k]) BY <1>1 DEF Building, TodoOK
  <1>5. \A k \in 1 .. Len(b.done) : DoneOK(q, b, b.done[k]) BY <1>1 DEF Building, DoneOK
  <1>6. ASSUME Len(q) < MaxTypes PROVE BuildMeans(q, b)
    <2>1. BuildMeans(r, b) BY <1>1, <1>6 DEF Building
    <2>2. Source(q, b.asked) = Source(r, b.asked) BY <1>2, SourceStays
    <2> DEFINE src == Source(r, b.asked)
    <2>3. IsSeq(src) /\ \A k \in 1 .. Len(src) : TodoOK(r, src[k]) BY <1>2, SourceIs
    <2>4. \A k \in 1 .. Len(b.done) : k \in 1 .. Len(src)
      <3>1. Len(b.done) \in Nat /\ Len(b.todo) \in Nat BY DEF Building, IsSeq
      <3>2. Len(b.done) + Len(b.todo) = Len(src) BY <2>1 DEF BuildMeans
      <3>3. Len(b.done) <= Len(src) /\ Len(src) \in Nat BY <3>1, <3>2, PartOf
      <3> QED BY <3>1, <3>3
    <2>5. ASSUME NEW k \in 1 .. Len(b.done)
          PROVE  IsWrapped(q, b.done[k].kid, src[k].kid, src[k].wrap, b.n)
      <3>1. IsWrapped(r, b.done[k].kid, src[k].kid, src[k].wrap, b.n) /\ b.done[k].kid # 0
        BY <2>1 DEF BuildMeans
      <3>2. b.done[k].kid \in 1 .. Len(r) BY <1>1, <3>1 DEF Building, DoneOK
      <3> HIDE DEF src
      <3>4. k \in 1 .. Len(src) BY <2>4
      <3>3. src[k].wrap \in {"plain", "slice", "array"} BY <2>3, <3>4 DEF TodoOK
      <3> QED BY <3>1, <3>2, <3>3, WrappedStays
    <2> QED BY <2>1, <2>2, <2>5 DEF BuildMeans
  <1> QED BY <1>3, <1>4, <1>5, <1>6 DEF Building

-----------------------------------------------------------------------------
(* One use more                                                            *)

LEMMA NoteKeeps ==
  ASSUME NEW r, RegOK(r), NEW us, UsesOK(r, us), NEW d, NEW got \in 0 .. Len(r),
         got # 0 => AskedOK(r, d) /\ Right(r, d, got),
         got # 0 /\ d.kind = "distinct" => \A k \in 1 .. Len(us) : us[k].got < got,
         NEW vs, vs = Append(us, [asked |-> IF got = 0 THEN Unresolved ELSE d, got |-> got])
  PROVE  UsesOK(r, vs)
  <1> DEFINE u == [asked |-> IF got = 0 THEN Unresolved ELSE d, got |-> got]
  <1>1. u.got = got /\ (got # 0 => u.asked = d) /\ (got = 0 => u.asked.kind = "none")
    BY DEF Unresolved, Desc
  <1>2. vs = Append(us, u) OBVIOUS
  <1> HIDE DEF u
  <1>3. /\ IsSeq(us) /\ Len(us) \in Nat /\ IsSeq(vs) /\ Len(vs) = Len(us) + 1
        /\ \A k \in 1 .. Len(us) : vs[k] = us[k]
        /\ vs[Len(us) + 1] = u
    BY <1>2, AppendIs DEF UsesOK, IsSeq
  <1>4. UseOK(r, u) BY <1>1 DEF UseOK
  <1>5. ASSUME NEW k \in 1 .. Len(vs) PROVE (k \in 1 .. Len(us) /\ vs[k] = us[k]) \/ (k = Len(us) + 1 /\ vs[k] = u)
    BY <1>3
  <1>6. \A k \in 1 .. Len(vs) : UseOK(r, vs[k]) BY <1>4, <1>5 DEF UsesOK
  <1>7. ASSUME NEW k \in 1 .. Len(vs), NEW l \in 1 .. Len(vs), k # l, vs[k].got # 0,
               vs[k].asked.kind = "distinct", vs[l].asked.kind = "distinct"
        PROVE  vs[k].got # vs[l].got
    <2>1. CASE k \in 1 .. Len(us) /\ l \in 1 .. Len(us) BY <1>3, <1>7, <2>1 DEF UsesOK
    <2>2. CASE k \in 1 .. Len(us) /\ l = Len(us) + 1
      <3>1. got # 0 /\ d.kind = "distinct" BY <1>1, <1>3, <1>7, <2>2
      <3>2. us[k].got < got BY <3>1, <2>2
      <3>3. us[k].got \in Nat /\ got \in Nat BY <2>2, <1>3 DEF UsesOK, UseOK, RegOK, IsSeq
      <3> QED BY <1>1, <1>3, <2>2, <3>2, <3>3
    <2>3. CASE l \in 1 .. Len(us) /\ k = Len(us) + 1
      <3>1. got # 0 /\ d.kind = "distinct" BY <1>1, <1>3, <1>7, <2>3
      <3>2. us[l].got < got BY <3>1, <2>3
      <3>3. us[l].got \in Nat /\ got \in Nat BY <2>3, <1>3 DEF UsesOK, UseOK, RegOK, IsSeq
      <3> QED BY <1>1, <1>3, <2>3, <3>2, <3>3
    <2> QED BY <1>5, <1>7, <2>1, <2>2, <2>3
  <1> QED BY <1>3, <1>6, <1>7 DEF UsesOK

LEMMA NoTypeKeeps == ASSUME IInv, NoType PROVE IInv'
  <1>1. UsesOK(reg, uses')
    <2>1. uses' = Append(uses, [asked |-> IF 0 = 0 THEN Unresolved ELSE Unresolved, got |-> 0])
      BY DEF NoType, Note
    <2>2. 0 \in 0 .. Len(reg) BY DEF IInv, RegOK, IsSeq
    <2> QED BY <2>1, <2>2, NoteKeeps DEF IInv
  <1> QED BY <1>1 DEF IInv, NoType

LEMMA StartStays ==
  ASSUME NEW r, NEW q, RegOK(r), RegOK(q), Grown(r, q), Len(Start) <= Len(r)
  PROVE  Len(Start) <= Len(q)
  <1>1. Len(Start) \in Nat BY StartIs, RegistryAssumption DEF RegOK, IsSeq
  <1>2. Len(r) \in Nat /\ Len(q) \in Nat /\ Len(r) <= Len(q) BY DEF RegOK, IsSeq, Grown
  <1> QED BY <1>1, <1>2

\* An answer is noted for what was asked: d is asked for, m is looked up.
LEMMA GivesKeeps ==
  ASSUME IInv, NEW m, NEW d, NEW g, Answers(reg, m, g), Gives(d, g),
         g.got # 0 => AskedOK(g.reg, d) /\ Right(g.reg, d, g.got),
         d.kind = "distinct" => m.kind = "distinct"
  PROVE  IInv'
  <1>1. /\ RegOK(reg) /\ RegOK(g.reg) /\ Grown(reg, g.reg) /\ g.got \in 0 .. Len(g.reg)
        /\ Len(reg) \in Nat /\ Len(g.reg) \in Nat /\ Len(Start) <= Len(reg)
    BY DEF Answers, IInv, RegOK, IsSeq
  <1>2. reg' = g.reg /\ templates' = templates /\ build' = build /\ crashed' = crashed BY DEF Gives
  <1>3. UsesOK(g.reg, uses) /\ TemplatesOK(g.reg, templates) /\ BuildOK(g.reg, build)
    BY <1>1, UsesStay, TemplatesStay, BuildStays DEF IInv
  <1>4. ASSUME g.got # 0, d.kind = "distinct", NEW k \in 1 .. Len(uses) PROVE uses[k].got < g.got
    <2>1. g.got > Len(reg) BY <1>4 DEF Answers, Fresh
    <2>2. uses[k].got \in 0 .. Len(reg) BY DEF IInv, UsesOK, UseOK
    <2> QED BY <1>1, <2>1, <2>2
  <1>5. uses' = Append(uses, [asked |-> IF g.got = 0 THEN Unresolved ELSE d, got |-> g.got])
    BY DEF Gives, Note
  <1>6. UsesOK(g.reg, uses') BY <1>1, <1>3, <1>4, <1>5, NoteKeeps
  <1>7. Len(Start) <= Len(g.reg) BY <1>1, StartStays
  <1> QED BY <1>1, <1>2, <1>3, <1>6, <1>7 DEF IInv

-----------------------------------------------------------------------------
(* One action after the other                                              *)

LEMMA InReg == ASSUME IInv PROVE RegOK(reg) /\ Len(reg) \in Nat /\ Len(Basics) \in Nat /\ Len(Basics) <= Len(reg)
  <1>1. RegOK(reg) /\ Len(reg) \in Nat BY DEF IInv, RegOK, IsSeq
  <1>2. Len(Basics) \in Nat BY RegistryAssumption
  <1>3. Len(Basics) + 5 <= Len(reg) BY StartIs DEF IInv
  <1> QED BY <1>1, <1>2, <1>3

LEMMA HandlesIn == ASSUME IInv, NEW h \in Handles PROVE h \in 0 .. Len(reg)
  <1>1. CASE h \in Named
    <2>1. h \in 1 .. Len(Basics) BY <1>1, RegistryAssumption
    <2> QED BY <2>1, InReg
  <1>2. ASSUME NEW k \in DOMAIN uses, h = uses[k].got PROVE h \in 0 .. Len(reg)
    <2>1. IsSeq(uses) BY DEF IInv, UsesOK
    <2>2. k \in 1 .. Len(uses) BY <2>1 DEF IsSeq
    <2> QED BY <1>2, <2>2 DEF IInv, UsesOK, UseOK
  <1> QED BY <1>1, <1>2 DEF Handles

\* A descriptor alike describes what was asked for.
LEMMA AlikeMeans ==
  ASSUME NEW r, NEW d, NEW k, d.kind \notin Composite, Alike(r[k], d),
         d.kind = "proc" /\ d.attrs # <<>> => r[k].attrs = d.attrs
  PROVE  Means(r, d, k)
  <1>1. Shape(r[k]) = Shape(d) BY DEF Alike, Shape, Desc
  <1>2. d.kind # "soa" /\ d.kind # "soa_struct" /\ d.kind \notin {"template", "literal"} BY DEF Composite
  <1> QED BY <1>1, <1>2 DEF Means

LEMMA RequestKeeps ==
  ASSUME IInv, NEW d, d.kids \in Seq(Nat), Range(d.kids) \subseteq 0 .. Len(reg),
         d.kind \notin Composite \cup {"struct", "proc"},
         d.kind = "distinct" => Len(d.kids) = 1,
         Request(d)
  PROVE  IInv'
  <1>1. CASE 0 \in Range(d.kids) BY <1>1, NoTypeKeeps DEF Request
  <1>2. CASE 0 \notin Range(d.kids)
    <2> DEFINE g == GetOrCreate(reg, d)
    <2>1. RegOK(reg) /\ Len(reg) \in Nat BY InReg
    <2>2. Range(d.kids) \subseteq 1 .. Len(reg) BY <1>2, <2>1
    <2>3. Fits(reg, d) BY <2>2 DEF Fits
    <2>4. Answers(reg, d, g) BY <2>1, <2>3, GetAnswers
    <2>5. Gives(d, g) BY <1>2 DEF Request
    <2> HIDE DEF g
    <2>6. ASSUME g.got # 0 PROVE AskedOK(g.reg, d) /\ Right(g.reg, d, g.got)
      <3>1. Alike(g.reg[g.got], d) BY <2>4, <2>6 DEF Answers
      <3>2. Right(g.reg, d, g.got) BY <3>1, AlikeMeans DEF Right
      <3>3. Range(d.kids) \subseteq 0 .. Len(g.reg)
        <4>1. Len(g.reg) \in Nat /\ Len(reg) <= Len(g.reg) BY <2>4 DEF Answers, Grown, RegOK, IsSeq
        <4> QED BY <2>1, <4>1
      <3>4. d.kind = "distinct" => d.kids[1] # 0 BY <1>2 DEF Range
      <3> QED BY <3>2, <3>3, <3>4 DEF AskedOK, Composite
    <2> QED BY <2>4, <2>5, <2>6, GivesKeeps
  <1> QED BY <1>1, <1>2

\* The requests with one child, with two and with none
OneKid == {"pointer", "array", "slice", "dynamic_array", "bit_field", "bit_set", "maybe",
           "multi_pointer", "distinct", "vector", "matrix", "bundle"}

LEMMA OneKidKeeps ==
  ASSUME IInv, NEW k \in 0 .. Len(reg), NEW d, d.kids = <<k>>, d.kind \in OneKid, Request(d)
  PROVE  IInv'
  <1>1. Len(reg) \in Nat BY InReg
  <1>2. d.kids \in Seq(Nat) /\ Len(d.kids) = 1 /\ Range(d.kids) \subseteq 0 .. Len(reg) BY <1>1 DEF Range
  <1>3. d.kind \notin Composite \cup {"struct", "proc"} BY DEF OneKid, Composite
  <1> QED BY <1>2, <1>3, RequestKeeps

LEMMA TwoKidsKeep ==
  ASSUME IInv, NEW k \in 0 .. Len(reg), NEW v \in 0 .. Len(reg), NEW d, d.kids = <<k, v>>,
         d.kind \in {"map", "tuple"}, Request(d)
  PROVE  IInv'
  <1>1. Len(reg) \in Nat BY InReg
  <1>2. d.kids \in Seq(Nat) /\ Range(d.kids) \subseteq 0 .. Len(reg) BY <1>1 DEF Range
  <1>3. d.kind \notin Composite \cup {"struct", "proc", "distinct"} BY DEF Composite
  <1> QED BY <1>2, <1>3, RequestKeeps

LEMMA NoKidsKeep ==
  ASSUME IInv, NEW d, d.kids = <<>>, d.kind \in {"range", "enum"}, Request(d)
  PROVE  IInv'
  <1>1. d.kids \in Seq(Nat) /\ Range(d.kids) = {} BY DEF Range
  <1>2. d.kind \notin Composite \cup {"struct", "proc", "distinct"} BY DEF Composite
  <1> QED BY <1>1, <1>2, RequestKeeps

\* The resolvers of types with children
LEMMA ResolversKeep ==
  ASSUME IInv,
         \/ ResolvePointer \/ ResolveSlice \/ ResolveMultiPointer
         \/ ResolveDynamicArray \/ ResolveMaybe \/ ResolveDistinct
         \/ ResolveArray \/ ResolveMap \/ ResolveTuple \/ ResolveVector
         \/ ResolveMatrix \/ ResolveRange \/ ResolveBitField
         \/ ResolveBitSet \/ ResolveBitSetRange \/ ResolveEnum
  PROVE  IInv'
  <1> USE DEF Desc
  <1>1. CASE ResolvePointer
    <2>1. PICK k \in Handles : Request(PointerType(k)) BY <1>1 DEF ResolvePointer
    <2>2. PointerType(k).kids = <<k>> /\ PointerType(k).kind \in OneKid BY DEF PointerType, OneKid
    <2> QED BY <2>1, <2>2, HandlesIn, OneKidKeeps
  <1>2. CASE ResolveSlice
    <2>1. PICK k \in Handles : Request(SliceType(k)) BY <1>2 DEF ResolveSlice
    <2>2. SliceType(k).kids = <<k>> /\ SliceType(k).kind \in OneKid BY DEF SliceType, OneKid
    <2> QED BY <2>1, <2>2, HandlesIn, OneKidKeeps
  <1>3. CASE ResolveMultiPointer
    <2>1. PICK k \in Handles : Request(MultiPointerType(k)) BY <1>3 DEF ResolveMultiPointer
    <2>2. MultiPointerType(k).kids = <<k>> /\ MultiPointerType(k).kind \in OneKid
      BY DEF MultiPointerType, OneKid
    <2> QED BY <2>1, <2>2, HandlesIn, OneKidKeeps
  <1>4. CASE ResolveDynamicArray
    <2>1. PICK k \in Handles : Request(DynamicArrayType(k)) BY <1>4 DEF ResolveDynamicArray
    <2>2. DynamicArrayType(k).kids = <<k>> /\ DynamicArrayType(k).kind \in OneKid
      BY DEF DynamicArrayType, OneKid
    <2> QED BY <2>1, <2>2, HandlesIn, OneKidKeeps
  <1>5. CASE ResolveMaybe
    <2>1. PICK k \in Handles : Request(MaybeType(k)) BY <1>5 DEF ResolveMaybe
    <2>2. MaybeType(k).kids = <<k>> /\ MaybeType(k).kind \in OneKid BY DEF MaybeType, OneKid
    <2> QED BY <2>1, <2>2, HandlesIn, OneKidKeeps
  <1>6. CASE ResolveDistinct
    <2>1. PICK k \in Handles : Request(DistinctType(k)) BY <1>6 DEF ResolveDistinct
    <2>2. DistinctType(k).kids = <<k>> /\ DistinctType(k).kind \in OneKid BY DEF DistinctType, OneKid
    <2> QED BY <2>1, <2>2, HandlesIn, OneKidKeeps
  <1>7. CASE ResolveArray
    <2>1. PICK k \in Handles, n \in Numbers : Request(ArrayType(k, n)) BY <1>7 DEF ResolveArray
    <2>2. ArrayType(k, n).kids = <<k>> /\ ArrayType(k, n).kind \in OneKid BY DEF ArrayType, OneKid
    <2> QED BY <2>1, <2>2, HandlesIn, OneKidKeeps
  <1>8. CASE ResolveMap
    <2>1. PICK k \in Handles, v \in Handles : Request(MapType(k, v)) BY <1>8 DEF ResolveMap
    <2>2. MapType(k, v).kids = <<k, v>> /\ MapType(k, v).kind = "map" BY DEF MapType
    <2> QED BY <2>1, <2>2, HandlesIn, TwoKidsKeep
  <1>9. CASE ResolveTuple
    <2>1. PICK k \in Handles, v \in Handles : Request(TupleType(<<k, v>>)) BY <1>9 DEF ResolveTuple
    <2>2. TupleType(<<k, v>>).kids = <<k, v>> /\ TupleType(<<k, v>>).kind = "tuple" BY DEF TupleType
    <2> QED BY <2>1, <2>2, HandlesIn, TwoKidsKeep
  <1>10. CASE ResolveVector
    <2>1. PICK k \in Handles, n \in Numbers : IF n = 0 THEN NoType ELSE Request(VectorType(k, n))
      BY <1>10 DEF ResolveVector
    <2>2. VectorType(k, n).kids = <<k>> /\ VectorType(k, n).kind \in OneKid BY DEF VectorType, OneKid
    <2>3. CASE NoType BY <2>3, NoTypeKeeps
    <2>4. CASE Request(VectorType(k, n)) BY <2>2, <2>4, HandlesIn, OneKidKeeps
    <2> QED BY <2>1, <2>3, <2>4
  <1>11. CASE ResolveMatrix
    <2>1. PICK k \in Handles, n \in Numbers, rowMajor \in {0, 1} :
             IF n = 0 THEN NoType ELSE Request(MatrixType(k, n, 1, rowMajor))
      BY <1>11 DEF ResolveMatrix
    <2> DEFINE d == MatrixType(k, n, 1, rowMajor)
    <2>2. d.kids = <<k>> /\ d.kind \in OneKid BY DEF MatrixType, OneKid
    <2> HIDE DEF d
    <2>3. CASE NoType BY <2>3, NoTypeKeeps
    <2>4. CASE Request(d) BY <2>2, <2>4, HandlesIn, OneKidKeeps
    <2> QED BY <2>1, <2>3, <2>4 DEF d
  <1>12. CASE ResolveRange
    <2>1. PICK inclusive \in {0, 1} : Request(RangeType(inclusive)) BY <1>12 DEF ResolveRange
    <2>2. RangeType(inclusive).kids = <<>> /\ RangeType(inclusive).kind = "range" BY DEF RangeType
    <2> QED BY <2>1, <2>2, NoKidsKeep
  <1>13. CASE ResolveBitField
    <2>1. PICK k \in Handles, f \in Labels, w \in Numbers :
             IF w = 0 THEN NoType ELSE Request(BitFieldType(k, f, w))
      BY <1>13 DEF ResolveBitField
    <2> DEFINE d == BitFieldType(k, f, w)
    <2>2. d.kids = <<k>> /\ d.kind \in OneKid BY DEF BitFieldType, OneKid
    <2> HIDE DEF d
    <2>3. CASE NoType BY <2>3, NoTypeKeeps
    <2>4. CASE Request(d) BY <2>2, <2>4, HandlesIn, OneKidKeeps
    <2> QED BY <2>1, <2>3, <2>4 DEF d
  <1>14. CASE ResolveBitSet
    <2>1. PICK k \in Handles : \/ Request(BitSetType(k, ElementBits(k))) \/ NoType
      BY <1>14 DEF ResolveBitSet
    <2>2. PICK bits : bits = ElementBits(k) OBVIOUS
    <2> DEFINE d == BitSetType(k, bits)
    <2>3. d.kids = <<k>> /\ d.kind \in OneKid BY DEF BitSetType, OneKid
    <2> HIDE DEF d
    <2>4. CASE NoType BY <2>4, NoTypeKeeps
    <2>5. CASE Request(d) BY <2>3, <2>5, HandlesIn, OneKidKeeps
    <2>6. Request(BitSetType(k, ElementBits(k))) => Request(d) BY <2>2 DEF d
    <2> QED BY <2>1, <2>4, <2>5, <2>6
  <1>15. CASE ResolveBitSetRange
    <2>1. PICK low \in Numbers, high \in Numbers, inclusive \in BOOLEAN :
             Request(BitSetType(BasicNamed("u8"), RangeBits(low, high, inclusive)))
      BY <1>15 DEF ResolveBitSetRange
    <2> DEFINE k == BasicNamed("u8")
               d == BitSetType(k, RangeBits(low, high, inclusive))
    <2>2. d.kids = <<k>> /\ d.kind \in OneKid BY DEF BitSetType, OneKid
    <2>3. k \in 1 .. Len(Basics) BY NamedBasic
    <2>4. Request(d) BY <2>1
    <2> HIDE DEF d, k
    <2>5. k \in 0 .. Len(reg) BY <2>3, InReg
    <2> QED BY <2>2, <2>4, <2>5, OneKidKeeps
  <1>16. CASE ResolveEnum
    <2>1. PICK f \in Labels : Request(EnumType(<<f>>)) BY <1>16 DEF ResolveEnum
    <2>2. EnumType(<<f>>).kids = <<>> /\ EnumType(<<f>>).kind = "enum" BY DEF EnumType
    <2> QED BY <2>1, <2>2, NoKidsKeep
  <1> QED BY <1>1, <1>2, <1>3, <1>4, <1>5, <1>6, <1>7, <1>8, <1>9, <1>10, <1>11, <1>12, <1>13,
             <1>14, <1>15, <1>16

-----------------------------------------------------------------------------
(* Structs and unions                                                      *)

\* A sequence of one or two fields whose types are among 0 .. n
FieldsOK(fs, n) ==
  /\ \/ \E f : fs = <<f>> /\ f.kid \in 0 .. n
     \/ \E f, g : fs = <<f, g>> /\ f.kid \in 0 .. n /\ g.kid \in 0 .. n

LEMMA FieldsAre == ASSUME IInv, NEW fs \in Fields PROVE FieldsOK(fs, Len(reg))
  <1>1. ASSUME NEW x \in Labels, NEW k \in Handles, NEW u \in BOOLEAN,
               fs = <<[name |-> x, kid |-> k, using |-> u]>>
        PROVE  FieldsOK(fs, Len(reg))
    <2> DEFINE f == [name |-> x, kid |-> k, using |-> u]
    <2>1. fs = <<f>> /\ f.kid = k BY <1>1
    <2>2. f.kid \in 0 .. Len(reg) BY <2>1, HandlesIn
    <2> HIDE DEF f
    <2> QED BY <2>1, <2>2 DEF FieldsOK
  <1>2. ASSUME NEW x \in Labels, NEW y \in Labels, NEW k \in Handles, NEW l \in Handles,
               fs = <<[name |-> x, kid |-> k, using |-> FALSE], [name |-> y, kid |-> l, using |-> FALSE]>>
        PROVE  FieldsOK(fs, Len(reg))
    <2> DEFINE f == [name |-> x, kid |-> k, using |-> FALSE]
               g == [name |-> y, kid |-> l, using |-> FALSE]
    <2>1. fs = <<f, g>> /\ f.kid = k /\ g.kid = l BY <1>2
    <2>2. f.kid \in 0 .. Len(reg) /\ g.kid \in 0 .. Len(reg) BY <2>1, HandlesIn
    <2> HIDE DEF f, g
    <2> QED BY <2>1, <2>2 DEF FieldsOK
  <1> QED BY <1>1, <1>2 DEF Fields

LEMMA PairOf == ASSUME NEW f, NEW g PROVE <<f>> \o <<g>> = <<f, g>>
  <1> DEFINE S == {f, g}
  <1>1. <<f>> \in Seq(S) /\ <<g>> \in Seq(S) /\ <<f, g>> \in Seq(S) OBVIOUS
  <1>2. Len(<<f>>) = 1 /\ Len(<<g>>) = 1 /\ Len(<<f, g>>) = 2 OBVIOUS
  <1> HIDE DEF S
  <1>3. <<f>> \o <<g>> \in Seq(S) /\ Len(<<f>> \o <<g>>) = 2 BY <1>1, <1>2
  <1>4. \A k \in 1 .. 2 : (<<f>> \o <<g>>)[k] = <<f, g>>[k] BY <1>1, <1>2
  <1> DEFINE p == <<f>> \o <<g>>
             t == <<f, g>>
  <1>5. IsSeq(p) /\ IsSeq(t) BY <1>1, <1>3, SeqIs
  <1>6. Len(p) = 2 /\ Len(t) = 2 /\ \A k \in 1 .. 2 : p[k] = t[k] BY <1>2, <1>3, <1>4
  <1> HIDE DEF p, t
  <1>7. p = t BY <1>5, <1>6 DEF IsSeq
  <1> QED BY <1>7 DEF p, t

\* The fields kept are known types; they are all fields unless one is NULL.
LEMMA KnownAre ==
  ASSUME NEW n \in Nat, NEW fs, FieldsOK(fs, n)
  PROVE  /\ IsSeq(fs) /\ \A k \in 1 .. Len(fs) : fs[k].kid \in 0 .. n
         /\ IsSeq(KnownFields(fs))
         /\ \A k \in 1 .. Len(KnownFields(fs)) : KnownFields(fs)[k].kid \in 1 .. n
         /\ (\A k \in 1 .. Len(fs) : fs[k].kid # 0) => KnownFields(fs) = fs
  <1>1. ASSUME NEW f, fs = <<f>>, f.kid \in 0 .. n
        PROVE  /\ IsSeq(fs) /\ \A k \in 1 .. Len(fs) : fs[k].kid \in 0 .. n
               /\ IsSeq(KnownFields(fs))
               /\ \A k \in 1 .. Len(KnownFields(fs)) : KnownFields(fs)[k].kid \in 1 .. n
               /\ (\A k \in 1 .. Len(fs) : fs[k].kid # 0) => KnownFields(fs) = fs
    <2>1. Len(fs) = 1 /\ fs[1] = f /\ IsSeq(fs) BY <1>1 DEF IsSeq
    <2>2. CASE f.kid = 0
      <3>1. KnownFields(fs) = <<>> BY <2>1, <2>2 DEF KnownFields, Known
      <3> QED BY <1>1, <2>1, <2>2, <3>1 DEF IsSeq
    <2>3. CASE f.kid # 0
      <3>1. KnownFields(fs) = <<f>> BY <2>1, <2>3 DEF KnownFields, Known
      <3> QED BY <1>1, <2>1, <2>3, <3>1
    <2> QED BY <2>2, <2>3
  <1>2. ASSUME NEW f, NEW g, fs = <<f, g>>, f.kid \in 0 .. n, g.kid \in 0 .. n
        PROVE  /\ IsSeq(fs) /\ \A k \in 1 .. Len(fs) : fs[k].kid \in 0 .. n
               /\ IsSeq(KnownFields(fs))
               /\ \A k \in 1 .. Len(KnownFields(fs)) : KnownFields(fs)[k].kid \in 1 .. n
               /\ (\A k \in 1 .. Len(fs) : fs[k].kid # 0) => KnownFields(fs) = fs
    <2>1. Len(fs) = 2 /\ fs[1] = f /\ fs[2] = g /\ IsSeq(fs) BY <1>2 DEF IsSeq
    <2>2. KnownFields(fs) = Known(f) \o Known(g) BY <2>1 DEF KnownFields
    <2>3. \A k \in 1 .. Len(fs) : fs[k].kid \in 0 .. n BY <1>2, <2>1
    <2>4. CASE f.kid = 0 /\ g.kid = 0
      <3>1. KnownFields(fs) = <<>> BY <2>2, <2>4 DEF Known
      <3> QED BY <2>1, <2>3, <2>4, <3>1 DEF IsSeq
    <2>5. CASE f.kid # 0 /\ g.kid = 0
      <3>1. KnownFields(fs) = <<f>> BY <2>2, <2>5 DEF Known
      <3>2. IsSeq(<<f>>) /\ Len(<<f>>) = 1 /\ <<f>>[1] = f BY DEF IsSeq
      <3> QED BY <1>2, <2>1, <2>3, <2>5, <3>1, <3>2
    <2>6. CASE f.kid = 0 /\ g.kid # 0
      <3>1. KnownFields(fs) = <<g>> BY <2>2, <2>6 DEF Known
      <3>2. IsSeq(<<g>>) /\ Len(<<g>>) = 1 /\ <<g>>[1] = g BY DEF IsSeq
      <3> QED BY <1>2, <2>1, <2>3, <2>6, <3>1, <3>2
    <2>7. CASE f.kid # 0 /\ g.kid # 0
      <3>1. Known(f) = <<f>> /\ Known(g) = <<g>> BY <2>7 DEF Known
      <3>2. KnownFields(fs) = <<f, g>> BY <2>2, <3>1, PairOf
      <3> QED BY <1>2, <2>1, <2>3, <2>7, <3>2
    <2> QED BY <2>4, <2>5, <2>6, <2>7
  <1> QED BY <1>1, <1>2 DEF FieldsOK

\* The types and the names of a sequence of fields
LEMMA KidsAre ==
  ASSUME NEW fs, IsSeq(fs), NEW a \in Nat, NEW n \in Nat, \A k \in 1 .. Len(fs) : fs[k].kid \in a .. n
  PROVE  /\ KidsOf(fs) \in Seq(Nat) /\ Len(KidsOf(fs)) = Len(fs) /\ Range(KidsOf(fs)) \subseteq a .. n
         /\ \A k \in 1 .. Len(fs) : KidsOf(fs)[k] = fs[k].kid /\ fs[k].kid \in Range(KidsOf(fs))
         /\ IsSeq(NamesOf(fs)) /\ Len(NamesOf(fs)) = Len(fs)
         /\ \A k \in 1 .. Len(fs) : NamesOf(fs)[k] = fs[k].name
  <1>1. Len(fs) \in Nat /\ DOMAIN fs = 1 .. Len(fs) BY DEF IsSeq
  <1>2. KidsOf(fs) = [k \in 1 .. Len(fs) |-> fs[k].kid] BY <1>1 DEF KidsOf
  <1>3. NamesOf(fs) = [k \in 1 .. Len(fs) |-> fs[k].name] BY <1>1 DEF NamesOf
  <1>4. KidsOf(fs) \in Seq(Nat) /\ Len(KidsOf(fs)) = Len(fs)
    <2>1. \A k \in 1 .. Len(fs) : fs[k].kid \in Nat OBVIOUS
    <2>2. KidsOf(fs) \in [1 .. Len(fs) -> Nat] BY <1>2, <2>1
    <2> QED BY <1>1, <2>2
  <1>5. IsSeq(NamesOf(fs)) /\ Len(NamesOf(fs)) = Len(fs) BY <1>1, <1>3, FunctionIs
  <1> QED BY <1>2, <1>3, <1>4, <1>5 DEF Range

LEMMA WithFieldsKeeps ==
  ASSUME IInv, NEW fs \in Fields, NEW asked, NEW made,
         asked.kids = KidsOf(fs), asked.names = NamesOf(fs), asked.kind \in {"struct", "union"},
         made.kids = KidsOf(KnownFields(fs)), made.names = NamesOf(KnownFields(fs)),
         made.kind = asked.kind, made.nums = asked.nums,
         WithFields(fs, asked, made)
  PROVE  IInv'
  <1> DEFINE known == KnownFields(fs)
             n == Len(reg)
             g == GetOrCreate(reg, made)
  <1>0. RegOK(reg) /\ n \in Nat BY InReg
  <1>1. /\ IsSeq(fs) /\ (\A k \in 1 .. Len(fs) : fs[k].kid \in 0 .. n)
        /\ IsSeq(known) /\ (\A k \in 1 .. Len(known) : known[k].kid \in 1 .. n)
        /\ (\A k \in 1 .. Len(fs) : fs[k].kid # 0) => known = fs
    BY <1>0, FieldsAre, KnownAre
  <1> HIDE DEF known
  <1>2. CASE NoType BY <1>2, NoTypeKeeps
  <1>3. CASE Gives(asked, g)
    <2>1. made.kids = KidsOf(known) /\ made.names = NamesOf(known) BY DEF known
    <2>2. /\ made.kids \in Seq(Nat) /\ Range(made.kids) \subseteq 1 .. n
          /\ IsSeq(made.names) /\ Len(made.names) = Len(made.kids)
      <3> HIDE DEF n
      <3>1. /\ KidsOf(known) \in Seq(Nat) /\ Range(KidsOf(known)) \subseteq 1 .. n
            /\ IsSeq(NamesOf(known)) /\ Len(NamesOf(known)) = Len(known)
            /\ Len(KidsOf(known)) = Len(known)
        BY <1>0, <1>1, KidsAre
      <3> QED BY <2>1, <3>1
    <2>3. Fits(reg, made) BY <2>2 DEF Fits
    <2>4. Answers(reg, made, g) BY <1>0, <2>3, GetAnswers
    <2> HIDE DEF g
    <2>5. /\ asked.kids \in Seq(Nat) /\ Range(asked.kids) \subseteq 0 .. n
          /\ \A k \in 1 .. Len(fs) : fs[k].kid \in Range(asked.kids)
      <3> HIDE DEF n
      <3> QED BY <1>0, <1>1, KidsAre
    <2>6. ASSUME g.got # 0 PROVE AskedOK(g.reg, asked) /\ Right(g.reg, asked, g.got)
      <3>1. Alike(g.reg[g.got], made) BY <2>4, <2>6 DEF Answers
      <3>2. ASSUME 0 \notin Range(asked.kids) PROVE Means(g.reg, asked, g.got)
        <4>1. known = fs BY <1>1, <2>5, <3>2
        <4>2. made.kids = asked.kids /\ made.names = asked.names BY <2>1, <4>1
        <4>3. Alike(g.reg[g.got], asked) BY <3>1, <4>2 DEF Alike
        <4>4. asked.kind \notin Composite /\ asked.kind # "proc" BY DEF Composite
        <4> QED BY <4>3, <4>4, AlikeMeans
      <3>3. Right(g.reg, asked, g.got) BY <3>2 DEF Right
      <3>4. Range(asked.kids) \subseteq 0 .. Len(g.reg)
        <4>1. Len(g.reg) \in Nat /\ n <= Len(g.reg) BY <2>4 DEF Answers, Grown, RegOK, IsSeq
        <4> QED BY <1>0, <2>5, <4>1
      <3> QED BY <2>5, <3>3, <3>4 DEF AskedOK, Composite
    <2>7. asked.kind # "distinct" OBVIOUS
    <2> QED BY <1>3, <2>4, <2>6, <2>7, GivesKeeps
  <1> QED BY <1>2, <1>3 DEF WithFields

LEMMA StructsKeep == ASSUME IInv, ResolveStruct \/ ResolveUnion PROVE IInv'
  <1>1. CASE ResolveStruct
    <2>1. PICK fs \in Fields :
            LET known == KnownFields(fs)
            IN  WithFields(fs, StructType(NamesOf(fs), KidsOf(fs), UsingOf(known)),
                               StructType(NamesOf(known), KidsOf(known), UsingOf(known)))
      BY <1>1 DEF ResolveStruct
    <2> DEFINE known == KnownFields(fs)
               asked == StructType(NamesOf(fs), KidsOf(fs), UsingOf(known))
               made  == StructType(NamesOf(known), KidsOf(known), UsingOf(known))
    <2>2. /\ asked.kids = KidsOf(fs) /\ asked.names = NamesOf(fs) /\ asked.kind = "struct"
          /\ made.kids = KidsOf(known) /\ made.names = NamesOf(known) /\ made.kind = asked.kind
          /\ made.nums = asked.nums
      BY DEF StructType, Desc
    <2>3. WithFields(fs, asked, made) BY <2>1
    <2> HIDE DEF asked, made
    <2> QED BY <2>2, <2>3, WithFieldsKeeps
  <1>2. CASE ResolveUnion
    <2>1. PICK fs \in Fields :
            LET known == KnownFields(fs)
            IN  WithFields(fs, UnionType(NamesOf(fs), KidsOf(fs)),
                               UnionType(NamesOf(known), KidsOf(known)))
      BY <1>2 DEF ResolveUnion
    <2> DEFINE known == KnownFields(fs)
               asked == UnionType(NamesOf(fs), KidsOf(fs))
               made  == UnionType(NamesOf(known), KidsOf(known))
    <2>2. /\ asked.kids = KidsOf(fs) /\ asked.names = NamesOf(fs) /\ asked.kind = "union"
          /\ made.kids = KidsOf(known) /\ made.names = NamesOf(known) /\ made.kind = asked.kind
          /\ made.nums = asked.nums
      BY DEF UnionType, Desc
    <2>3. WithFields(fs, asked, made) BY <2>1
    <2> HIDE DEF asked, made
    <2> QED BY <2>2, <2>3, WithFieldsKeeps
  <1> QED BY <1>1, <1>2

-----------------------------------------------------------------------------
(* #soa types and templates: the loop over the fields                      *)

\* The loop begins with the fields of its source.
LEMMA BeginBuilding ==
  ASSUME NEW r, RegOK(r), NEW d, AskedOK(r, d), d.kind \in Composite,
         NEW b, IsBuild(b), b.asked = d, b.form = FormOf(d), b.n = SizeFor(d),
         b.form # "soa" => ~ b.keepNull, b.todo = Source(r, d), b.done = <<>>
  PROVE  Building(r, b)
  <1>1. IsSeq(Source(r, d)) /\ \A k \in 1 .. Len(Source(r, d)) : TodoOK(r, Source(r, d)[k]) BY SourceIs
  <1>2. IsSeq(b.done) /\ Len(b.done) = 0 BY DEF IsSeq
  <1>3. Len(b.todo) \in Nat BY <1>1 DEF IsSeq
  <1>4. BuildMeans(r, b)
    <2>1. Len(b.done) + Len(b.todo) = Len(Source(r, b.asked)) BY <1>2, <1>3
    <2>2. \A k \in 1 .. Len(b.todo) : Len(b.done) + k = k BY <1>2, <1>3
    <2>3. 1 .. Len(b.done) = {} BY <1>2
    <2> QED BY <2>1, <2>2, <2>3 DEF BuildMeans
  <1>5. 1 .. Len(b.done) = {} BY <1>2
  <1> QED BY <1>1, <1>2, <1>4, <1>5 DEF Building

LEMMA BeginKeeps ==
  ASSUME IInv, NEW b, Building(reg, b), build' = b, UNCHANGED <<reg, templates, uses, crashed>>
  PROVE  IInv'
  BY DEF IInv, BuildOK

LEMMA BeginSoaKeeps == ASSUME IInv, BeginSoa PROVE IInv'
  <1>1. PICK k \in Handles \ {0}, n \in Numbers, wrap \in {"slice", "array"} :
          /\ reg[k].kind = "struct"
          /\ build' = [form |-> "soa", todo |-> [i \in DOMAIN reg[k].kids |->
                          [name |-> reg[k].names[i], kid |-> reg[k].kids[i], wrap |-> wrap]],
                       done |-> <<>>, n |-> n, attrs |-> reg[k].attrs, keepNull |-> TRUE,
                       asked |-> Desc("soa", <<k>>, <<n>>, <<wrap>>, <<>>)]
    BY DEF BeginSoa
  <1> DEFINE d == Desc("soa", <<k>>, <<n>>, <<wrap>>, <<>>)
  <1>2. PICK b : b = build' OBVIOUS
  <1>3. RegOK(reg) /\ Len(reg) \in Nat /\ k \in 0 .. Len(reg) /\ k # 0 BY InReg, HandlesIn
  <1>4. d.kind = "soa" /\ d.kids = <<k>> /\ d.nums = <<n>> /\ d.names = <<wrap>> BY DEF Desc
  <1>5. /\ b.asked = d /\ b.form = "soa" /\ b.n = n /\ b.done = <<>>
        /\ b.todo = [i \in DOMAIN reg[k].kids |->
                        [name |-> reg[k].names[i], kid |-> reg[k].kids[i], wrap |-> wrap]]
        /\ IsBuild(b)
    BY <1>1, <1>2 DEF IsBuild
  <1> HIDE DEF d
  <1>6. AskedOK(reg, d)
    <2>1. d.kids \in Seq(Nat) /\ Len(d.kids) = 1 /\ d.kids[1] = k /\ Range(d.kids) \subseteq 0 .. Len(reg)
      BY <1>3, <1>4 DEF Range
    <2>2. d.names[1] = wrap /\ d.nums # <<>> BY <1>4
    <2> QED BY <1>1, <1>3, <1>4, <2>1, <2>2 DEF AskedOK
  <1>7. b.todo = Source(reg, d)
    <2>1. d.kids[1] = k /\ d.names[1] = wrap BY <1>4
    <2> QED BY <1>4, <1>5, <2>1 DEF Source
  <1>8. b.n = SizeFor(d) BY <1>4, <1>5 DEF SizeFor
  <1>9. b.form = FormOf(d) /\ d.kind \in Composite BY <1>4, <1>5 DEF FormOf, Composite
  <1>10. Building(reg, b) BY <1>3, <1>5, <1>6, <1>7, <1>8, <1>9, BeginBuilding
  <1>11. UNCHANGED <<reg, templates, uses, crashed>> BY DEF BeginSoa
  <1> QED BY <1>2, <1>10, <1>11, BeginKeeps

LEMMA BeginSoaStructKeeps == ASSUME IInv, BeginSoaStruct PROVE IInv'
  <1>1. PICK f \in Labels, k \in Handles \ {0} :
          build' = [form |-> "soa", todo |-> <<[name |-> f, kid |-> k, wrap |-> "slice"]>>,
                    done |-> <<>>, n |-> 0, attrs |-> <<FALSE>>, keepNull |-> FALSE,
                    asked |-> Desc("soa_struct", <<k>>, <<>>, <<f>>, <<>>)]
    BY DEF BeginSoaStruct
  <1> DEFINE d == Desc("soa_struct", <<k>>, <<>>, <<f>>, <<>>)
  <1>2. PICK b : b = build' OBVIOUS
  <1>3. RegOK(reg) /\ Len(reg) \in Nat /\ k \in 0 .. Len(reg) /\ k # 0 BY InReg, HandlesIn
  <1>4. d.kind = "soa_struct" /\ d.kids = <<k>> /\ d.names = <<f>> BY DEF Desc
  <1>5. /\ b.asked = d /\ b.form = "soa" /\ b.n = 0 /\ b.done = <<>>
        /\ b.todo = <<[name |-> f, kid |-> k, wrap |-> "slice"]>>
        /\ IsBuild(b)
    BY <1>1, <1>2 DEF IsBuild
  <1> HIDE DEF d
  <1>6. AskedOK(reg, d)
    <2>1. d.kids \in Seq(Nat) /\ Len(d.kids) = 1 /\ d.kids[1] = k /\ Range(d.kids) \subseteq 0 .. Len(reg)
      BY <1>3, <1>4 DEF Range
    <2>2. IsSeq(d.names) /\ Len(d.names) = 1 BY <1>4 DEF IsSeq
    <2> QED BY <1>3, <1>4, <2>1, <2>2 DEF AskedOK
  <1>7. b.todo = Source(reg, d)
    <2>1. d.kids[1] = k /\ d.names[1] = f BY <1>4
    <2> QED BY <1>4, <1>5, <2>1 DEF Source
  <1>8. b.n = SizeFor(d) BY <1>4, <1>5 DEF SizeFor
  <1>9. b.form = FormOf(d) /\ d.kind \in Composite BY <1>4, <1>5 DEF FormOf, Composite
  <1>10. Building(reg, b) BY <1>3, <1>5, <1>6, <1>7, <1>8, <1>9, BeginBuilding
  <1>11. UNCHANGED <<reg, templates, uses, crashed>> BY DEF BeginSoaStruct
  <1> QED BY <1>2, <1>10, <1>11, BeginKeeps

\* d names the template and its argument.
LEMMA InstantiateKeeps ==
  ASSUME IInv, NEW origin \in DOMAIN Templates, NEW arg \in Handles \ {0}, NEW n, NEW d,
         d.kind \in {"template", "literal"}, d.kids = <<arg>>, d.names = <<origin>>, n = SizeFor(d),
         Instantiate(origin, arg, n, d), UNCHANGED <<reg, templates, uses, crashed>>
  PROVE  IInv'
  <1>1. PICK b : b = build' OBVIOUS
  <1>2. RegOK(reg) /\ Len(reg) \in Nat /\ arg \in 0 .. Len(reg) /\ arg # 0 BY InReg, HandlesIn
  <1>3. /\ b.asked = d /\ b.form = Templates[origin].form /\ b.n = n /\ b.done = <<>> /\ b.keepNull = FALSE
        /\ b.todo = [i \in DOMAIN Templates[origin].fields |->
                        [name |-> Templates[origin].fields[i].name, kid |-> arg,
                         wrap |-> Templates[origin].fields[i].wrap]]
        /\ IsBuild(b)
    BY <1>1 DEF Instantiate, IsBuild
  <1>4. d.kids \in Seq(Nat) /\ Len(d.kids) = 1 /\ d.kids[1] = arg /\ Range(d.kids) \subseteq 0 .. Len(reg)
        /\ d.names[1] = origin
    BY <1>2 DEF Range
  <1>5. AskedOK(reg, d) BY <1>2, <1>4 DEF AskedOK
  <1>6. b.todo = Source(reg, d) BY <1>3, <1>4 DEF Source
  <1>7. b.form = FormOf(d) /\ d.kind \in Composite BY <1>3, <1>4 DEF FormOf, Composite
  <1>8. Building(reg, b) BY <1>2, <1>3, <1>5, <1>6, <1>7, BeginBuilding
  <1> QED BY <1>1, <1>8, BeginKeeps

LEMMA ApplyNewKeeps == ASSUME IInv, ApplyNew PROVE IInv'
  <1>1. PICK origin \in DOMAIN Templates, arg \in Handles \ {0}, n \in Numbers :
          Instantiate(origin, arg, n, Instantiation(origin, arg, n))
    BY DEF ApplyNew
  <1> DEFINE d == Instantiation(origin, arg, n)
  <1>2. d.kind = "template" /\ d.kids = <<arg>> /\ d.names = <<origin>> /\ d.nums = <<n>>
    BY DEF Instantiation, Desc
  <1>3. Instantiate(origin, arg, n, d) BY <1>1
  <1> HIDE DEF d
  <1>4. n = SizeFor(d) BY <1>2 DEF SizeFor
  <1>5. UNCHANGED <<reg, templates, uses, crashed>> BY DEF ApplyNew
  <1> QED BY <1>2, <1>3, <1>4, <1>5, InstantiateKeeps

LEMMA InferNewKeeps == ASSUME IInv, InferNew PROVE IInv'
  <1> DEFINE n == Min(Numbers)
  <1>1. PICK origin \in DOMAIN Templates, arg \in Handles \ {0} :
          Instantiate(origin, arg, n, Desc("literal", <<arg>>, <<>>, <<origin>>, <<>>))
    BY DEF InferNew
  <1> DEFINE d == Desc("literal", <<arg>>, <<>>, <<origin>>, <<>>)
  <1>2. d.kind = "literal" /\ d.kids = <<arg>> /\ d.names = <<origin>> /\ d.nums = <<>> BY DEF Desc
  <1>3. Instantiate(origin, arg, n, d) BY <1>1
  <1>4. n = SizeFor(d) BY <1>2 DEF SizeFor
  <1>5. UNCHANGED <<reg, templates, uses, crashed>> BY DEF InferNew
  <1> HIDE DEF d, n
  <1> QED BY <1>2, <1>3, <1>4, <1>5, InstantiateKeeps

LEMMA WrappedIs ==
  ASSUME NEW r, RegOK(r), NEW k \in 1 .. Len(r), NEW wrap \in {"plain", "slice", "array"}, NEW n
  PROVE  LET g == Wrapped(r, k, wrap, n)
         IN  /\ RegOK(g.reg) /\ Grown(r, g.reg) /\ g.got \in 0 .. Len(g.reg)
             /\ g.got = 0 => Len(g.reg) = MaxTypes
             /\ g.got # 0 => IsWrapped(g.reg, g.got, k, wrap, n)
  <1> DEFINE g == Wrapped(r, k, wrap, n)
  <1>1. Len(r) \in Nat BY DEF RegOK, IsSeq
  <1>2. CASE wrap = "plain"
    <2>1. g = [reg |-> r, got |-> k] BY <1>2 DEF Wrapped
    <2> QED BY <1>1, <1>2, <2>1, GrownSame DEF IsWrapped
  <1>3. CASE wrap = "slice"
    <2> DEFINE d == SliceType(k)
    <2>1. d.kind = "slice" /\ d.kids = <<k>> BY DEF SliceType, Desc
    <2>2. g = GetOrCreate(r, d) BY <1>3 DEF Wrapped
    <2> HIDE DEF d, g
    <2>3. d.kids \in Seq(Nat) /\ Range(d.kids) \subseteq 1 .. Len(r) BY <1>1, <2>1 DEF Range
    <2>4. Fits(r, d) BY <2>1, <2>3 DEF Fits
    <2>5. Answers(r, d, g) BY <2>2, <2>4, GetAnswers
    <2>6. g.got # 0 => IsWrapped(g.reg, g.got, k, wrap, n) BY <1>3, <2>1, <2>5 DEF Answers, Alike, IsWrapped
    <2> QED BY <2>5, <2>6 DEF Answers, g
  <1>4. CASE wrap = "array"
    <2> DEFINE d == ArrayType(k, n)
    <2>1. d.kind = "array" /\ d.kids = <<k>> /\ d.nums = <<n>> BY DEF ArrayType, Desc
    <2>2. g = GetOrCreate(r, d) BY <1>4 DEF Wrapped
    <2> HIDE DEF d, g
    <2>3. d.kids \in Seq(Nat) /\ Range(d.kids) \subseteq 1 .. Len(r) BY <1>1, <2>1 DEF Range
    <2>4. Fits(r, d) BY <2>1, <2>3 DEF Fits
    <2>5. Answers(r, d, g) BY <2>2, <2>4, GetAnswers
    <2>6. g.got # 0 => IsWrapped(g.reg, g.got, k, wrap, n) BY <1>4, <2>1, <2>5 DEF Answers, Alike, IsWrapped
    <2> QED BY <2>5, <2>6 DEF Answers, g
  <1> QED BY <1>2, <1>3, <1>4

LEMMA TailIs ==
  ASSUME NEW s, IsSeq(s), s # <<>>
  PROVE  /\ Len(s) \in Nat /\ Len(s) > 0 /\ Head(s) = s[1]
         /\ IsSeq(Tail(s)) /\ Len(Tail(s)) = Len(s) - 1
         /\ \A k \in 1 .. Len(s) - 1 : Tail(s)[k] = s[k + 1]
  <1> DEFINE S == {s[k] : k \in 1 .. Len(s)}
  <1>1. s \in Seq(S) BY DEF IsSeq
  <1> HIDE DEF S
  <1>2. Tail(s) \in Seq(S) BY <1>1
  <1>3. IsSeq(Tail(s)) BY <1>2, SeqIs
  <1>4. Len(s) \in Nat /\ Len(s) > 0 BY <1>1
  <1> QED BY <1>1, <1>3, <1>4

LEMMA OneMore ==
  /\ \A x, y \in Nat : (x + 1) + (y - 1) = x + y
  /\ \A x \in Nat, k \in Int : \A p : p = x + 1 => x + (k + 1) = p + k
  OBVIOUS

\* One field goes from the fields to do to the fields done.
LEMMA FieldDone ==
  ASSUME NEW r, RegOK(r), NEW b, Building(r, b), b.todo # <<>>, NEW got \in 0 .. Len(r),
         got = 0 => Len(r) = MaxTypes,
         got # 0 => IsWrapped(r, got, b.todo[1].kid, b.todo[1].wrap, b.n),
         NEW c, IsBuild(c), c.form = b.form, c.n = b.n, c.keepNull = b.keepNull, c.asked = b.asked,
         c.todo = Tail(b.todo),
         c.done = IF got = 0 /\ ~ b.keepNull THEN b.done
                  ELSE Append(b.done, [name |-> b.todo[1].name, kid |-> got])
  PROVE  Building(r, c)
  <1> DEFINE x == [name |-> b.todo[1].name, kid |-> got]
  <1>1. x.name = b.todo[1].name /\ x.kid = got OBVIOUS
  <1> HIDE DEF x
  <1>2. /\ Len(b.todo) \in Nat /\ Len(b.todo) > 0
        /\ IsSeq(c.todo) /\ Len(c.todo) = Len(b.todo) - 1
        /\ \A k \in 1 .. Len(b.todo) - 1 : c.todo[k] = b.todo[k + 1]
    BY TailIs DEF Building
  <1>3. IsSeq(b.done) /\ Len(b.done) \in Nat BY DEF Building, IsSeq
  <1>4. \A k \in 1 .. Len(c.todo) : TodoOK(r, c.todo[k]) BY <1>2 DEF Building
  <1>5. /\ IsSeq(Append(b.done, x)) /\ Len(Append(b.done, x)) = Len(b.done) + 1
        /\ \A k \in 1 .. Len(b.done) : Append(b.done, x)[k] = b.done[k]
        /\ Append(b.done, x)[Len(b.done) + 1] = x
    BY <1>3, AppendIs
  <1>6. c.done = IF got = 0 /\ ~ b.keepNull THEN b.done ELSE Append(b.done, x) BY DEF x
  <1>7. IsSeq(c.done) /\ \A k \in 1 .. Len(c.done) : DoneOK(r, c, c.done[k])
    <2>1. CASE got = 0 /\ ~ b.keepNull BY <1>3, <1>6, <2>1 DEF Building, DoneOK
    <2>2. CASE ~ (got = 0 /\ ~ b.keepNull)
      <3>1. c.done = Append(b.done, x) BY <1>6, <2>2
      <3>2. DoneOK(r, c, x) BY <1>1, <2>2 DEF DoneOK
      <3>3. \A k \in 1 .. Len(b.done) : DoneOK(r, c, b.done[k]) BY DEF Building, DoneOK
      <3>4. \A k \in 1 .. Len(b.done) + 1 : k \in 1 .. Len(b.done) \/ k = Len(b.done) + 1 BY <1>3
      <3> QED BY <1>5, <3>1, <3>2, <3>3, <3>4
    <2> QED BY <2>1, <2>2
  <1>8. ASSUME Len(r) < MaxTypes PROVE BuildMeans(r, c)
    <2>1. MaxTypes \in Nat /\ Len(r) \in Nat BY RegistryAssumption DEF RegOK, IsSeq
    <2>2. got # 0 /\ c.done = Append(b.done, x)
      <3>1. Len(r) # MaxTypes BY <1>8, <2>1
      <3> QED BY <1>6, <3>1
    <2>3. BuildMeans(r, b) BY <1>8 DEF Building
    <2>4. PICK src : src = Source(r, b.asked) OBVIOUS
    <2>5. /\ Len(b.done) + Len(b.todo) = Len(src)
          /\ \A k \in 1 .. Len(b.todo) : b.todo[k] = src[Len(b.done) + k]
          /\ \A k \in 1 .. Len(b.done) :
               /\ b.done[k].name = src[k].name
               /\ b.done[k].kid # 0
               /\ IsWrapped(r, b.done[k].kid, src[k].kid, src[k].wrap, b.n)
      BY <2>3, <2>4 DEF BuildMeans
    <2>6. Len(c.done) = Len(b.done) + 1 BY <1>5, <2>2
    <2>7. Len(c.done) + Len(c.todo) = Len(src)
      <3>1. Len(b.done) \in Nat /\ Len(b.todo) \in Nat BY <1>2, <1>3
      <3>2. Len(c.todo) = Len(b.todo) - 1 BY <1>2
      <3>3. Len(b.done) + Len(b.todo) = Len(src) BY <2>5
      <3>4. (Len(b.done) + 1) + (Len(b.todo) - 1) = Len(b.done) + Len(b.todo) BY <3>1, OneMore, Zenon
      <3> QED BY <2>6, <3>2, <3>3, <3>4, Zenon
    <2>8. ASSUME NEW k \in 1 .. Len(c.todo) PROVE c.todo[k] = src[Len(c.done) + k]
      <3>1. k \in 1 .. Len(b.todo) - 1 /\ k + 1 \in 1 .. Len(b.todo) BY <1>2
      <3>2. c.todo[k] = b.todo[k + 1] BY <1>2, <3>1
      <3>3. b.todo[k + 1] = src[Len(b.done) + (k + 1)] BY <2>5, <3>1
      <3>4. Len(b.done) + (k + 1) = Len(c.done) + k 
        <4>1. k \in Int OBVIOUS
        <4> QED BY <1>3, <2>6, <4>1, OneMore, Zenon
      <3> QED BY <3>2, <3>3, <3>4
    <2>9. ASSUME NEW k \in 1 .. Len(c.done)
          PROVE  /\ c.done[k].name = src[k].name
                 /\ c.done[k].kid # 0
                 /\ IsWrapped(r, c.done[k].kid, src[k].kid, src[k].wrap, c.n)
      <3>1. CASE k \in 1 .. Len(b.done)
        <4>1. c.done[k] = b.done[k] BY <1>5, <2>2, <3>1
        <4> QED BY <2>5, <3>1, <4>1
      <3>2. CASE k = Len(b.done) + 1
        <4>1. c.done[k] = x BY <1>5, <2>2, <3>2
        <4>2. 1 \in 1 .. Len(b.todo) BY <1>2
        <4>3. b.todo[1] = src[k] BY <2>5, <3>2, <4>2
        <4> QED BY <1>1, <2>2, <4>1, <4>3
      <3> QED BY <1>3, <2>6, <3>1, <3>2
    <2> QED BY <2>4, <2>7, <2>8, <2>9 DEF BuildMeans
  <1> QED BY <1>2, <1>4, <1>7, <1>8 DEF Building

LEMMA BuildFieldKeeps == ASSUME IInv, BuildField PROVE IInv'
  <1>1. RegOK(reg) /\ Len(reg) \in Nat BY InReg
  <1>2. Building(reg, build) /\ build.todo # <<>> BY DEF IInv, BuildOK, BuildField
  <1>3. IsSeq(build.todo) BY <1>2 DEF Building
  <1>4. PICK f : f = build.todo[1] OBVIOUS
  <1>5. Head(build.todo) = f /\ TodoOK(reg, f)
    <2>1. Head(build.todo) = build.todo[1] /\ 1 \in 1 .. Len(build.todo) BY <1>2, <1>3, TailIs
    <2> QED BY <1>2, <1>4, <2>1 DEF Building
  <1>6. PICK g : g = Wrapped(reg, f.kid, f.wrap, build.n) OBVIOUS
  <1>7. /\ RegOK(g.reg) /\ Grown(reg, g.reg) /\ g.got \in 0 .. Len(g.reg)
        /\ g.got = 0 => Len(g.reg) = MaxTypes
        /\ g.got # 0 => IsWrapped(g.reg, g.got, f.kid, f.wrap, build.n)
    BY <1>1, <1>5, <1>6, WrappedIs DEF TodoOK
  <1>8. PICK b : b = build OBVIOUS
  <1>9. PICK c : c = build' OBVIOUS
  <1>10. /\ reg' = g.reg /\ UNCHANGED <<templates, uses, crashed>>
         /\ c = [b EXCEPT !.todo = Tail(@),
                          !.done = IF g.got = 0 /\ ~ b.keepNull THEN @
                                   ELSE Append(@, [name |-> f.name, kid |-> g.got])]
    BY <1>5, <1>6, <1>8, <1>9 DEF BuildField
  <1>11. Building(g.reg, b)
    <2>1. BuildOK(g.reg, b) BY <1>1, <1>7, <1>8, BuildStays DEF IInv
    <2>2. b # NoBuild BY <1>8 DEF BuildField
    <2> QED BY <2>1, <2>2 DEF BuildOK
  <1>12. IsBuild(b) BY <1>11 DEF Building
  <1>13. /\ IsBuild(c) /\ c.form = b.form /\ c.n = b.n /\ c.keepNull = b.keepNull /\ c.asked = b.asked
         /\ c.todo = Tail(b.todo)
         /\ c.done = IF g.got = 0 /\ ~ b.keepNull THEN b.done
                     ELSE Append(b.done, [name |-> b.todo[1].name, kid |-> g.got])
    BY <1>4, <1>8, <1>10, <1>12 DEF IsBuild
  <1>14. Building(g.reg, c) BY <1>2, <1>4, <1>7, <1>8, <1>11, <1>13, FieldDone
  <1>15. UsesOK(g.reg, uses) /\ TemplatesOK(g.reg, templates) BY <1>1, <1>7, UsesStay, TemplatesStay DEF IInv
  <1>16. Len(Start) <= Len(g.reg) BY <1>1, <1>7, StartStays DEF IInv
  <1> QED BY <1>7, <1>9, <1>10, <1>14, <1>15, <1>16 DEF IInv, BuildOK

\* The loop ends, and its result is noted.
LEMMA FinishKeeps ==
  ASSUME IInv, NEW d, NEW g, RegOK(g.reg), Grown(reg, g.reg), g.got \in 0 .. Len(g.reg),
         g.got # 0 => AskedOK(g.reg, d) /\ Right(g.reg, d, g.got), d.kind # "distinct",
         reg' = g.reg, Note(d, g.got), TemplatesOK(g.reg, templates'), build' = NoBuild,
         crashed' = crashed
  PROVE  IInv'
  <1>1. RegOK(reg) /\ Len(Start) <= Len(reg) BY DEF IInv
  <1>2. UsesOK(g.reg, uses) BY <1>1, UsesStay DEF IInv
  <1>3. uses' = Append(uses, [asked |-> IF g.got = 0 THEN Unresolved ELSE d, got |-> g.got]) BY DEF Note
  <1>4. UsesOK(g.reg, uses') BY <1>2, <1>3, NoteKeeps
  <1>5. Len(Start) <= Len(g.reg) BY <1>1, StartStays
  <1> QED BY <1>4, <1>5 DEF IInv, BuildOK

\* What the loop has built may be looked up.
LEMMA BuiltIs ==
  ASSUME IInv, Building(reg, build), 0 \notin Range(KidsOf(build.done)),
         build.form \in {"soa", "struct", "union"}
  PROVE  /\ BuiltDesc.kind = build.form
         /\ BuiltDesc.kids = KidsOf(build.done) /\ BuiltDesc.names = NamesOf(build.done)
         /\ Fits(reg, BuiltDesc)
  <1> DEFINE m == BuiltDesc
             n == Len(reg)
  <1>1. m.kind = build.form /\ m.kids = KidsOf(build.done) /\ m.names = NamesOf(build.done)
    BY DEF BuiltDesc, SoaType, StructType, UnionType, Desc
  <1> HIDE DEF m
  <1>2. n \in Nat BY InReg
  <1>3. IsSeq(build.done) /\ \A k \in 1 .. Len(build.done) : build.done[k].kid \in 0 .. n
    BY DEF Building, DoneOK
  <1> HIDE DEF n
  <1>4. /\ KidsOf(build.done) \in Seq(Nat) /\ Range(KidsOf(build.done)) \subseteq 0 .. n
        /\ Len(KidsOf(build.done)) = Len(build.done)
        /\ IsSeq(NamesOf(build.done)) /\ Len(NamesOf(build.done)) = Len(build.done)
    BY <1>2, <1>3, KidsAre
  <1>5. Range(KidsOf(build.done)) \subseteq 1 .. n BY <1>2, <1>4
  <1>6. Fits(reg, m) BY <1>1, <1>4, <1>5 DEF Fits, n
  <1> QED BY <1>1, <1>6 DEF m

\* In a template no field is NULL.
LEMMA NoNullInTemplate ==
  ASSUME IInv, Building(reg, build), build.form # "soa"
  PROVE  0 \notin Range(KidsOf(build.done))
  <1>1. IsSeq(build.done) /\ \A k \in 1 .. Len(build.done) : build.done[k].kid # 0
    BY DEF Building, DoneOK
  <1> QED BY <1>1 DEF KidsOf, Range, IsSeq

\* If the registry r has room, the fields done are all those of the source.
LEMMA AllDone ==
  ASSUME NEW r, RegOK(r), NEW b, Building(r, b), b.todo = <<>>, Len(r) < MaxTypes
  PROVE  LET src == Source(r, b.asked)
         IN  /\ Len(b.done) = Len(src) /\ IsSeq(b.done) /\ IsSeq(src)
             /\ \A k \in 1 .. Len(src) :
                  /\ KidsOf(b.done)[k] = b.done[k].kid
                  /\ NamesOf(b.done)[k] = src[k].name
                  /\ IsWrapped(r, KidsOf(b.done)[k], src[k].kid, src[k].wrap, b.n)
             /\ Len(KidsOf(b.done)) = Len(src)
             /\ IsSeq(NamesOf(b.done)) /\ Len(NamesOf(b.done)) = Len(src)
  <1>1. BuildMeans(r, b) BY DEF Building
  <1>2. PICK src : src = Source(r, b.asked) OBVIOUS
  <1>3. Len(r) \in Nat /\ 0 \in Nat BY DEF RegOK, IsSeq
  <1>4. IsSeq(b.done) /\ (\A k \in 1 .. Len(b.done) : b.done[k].kid \in 0 .. Len(r)) /\ Len(b.done) \in Nat
    BY DEF Building, DoneOK, IsSeq
  <1>5. /\ Len(KidsOf(b.done)) = Len(b.done)
        /\ \A k \in 1 .. Len(b.done) : KidsOf(b.done)[k] = b.done[k].kid
        /\ IsSeq(NamesOf(b.done)) /\ Len(NamesOf(b.done)) = Len(b.done)
        /\ \A k \in 1 .. Len(b.done) : NamesOf(b.done)[k] = b.done[k].name
    BY <1>3, <1>4, KidsAre
  <1>6. Len(b.done) = Len(src)
    <2>1. Len(b.done) + Len(b.todo) = Len(src) BY <1>1, <1>2 DEF BuildMeans
    <2>2. Len(b.todo) = 0 OBVIOUS
    <2>3. \A x \in Nat : x + 0 = x OBVIOUS
    <2> QED BY <1>4, <2>1, <2>2, <2>3, Zenon
  <1>7. \A k \in 1 .. Len(b.done) :
           b.done[k].name = src[k].name /\ IsWrapped(r, b.done[k].kid, src[k].kid, src[k].wrap, b.n)
    BY <1>1, <1>2 DEF BuildMeans
  <1>8. IsSeq(src) BY <1>2, SourceIs DEF Building
  <1> QED BY <1>2, <1>4, <1>5, <1>6, <1>7, <1>8

\* What the loop has built describes what was asked for.
LEMMA BuiltMeans ==
  ASSUME NEW r, RegOK(r), NEW b, Building(r, b), b.todo = <<>>, NEW k \in 1 .. Len(r),
         r[k].kind = b.form, r[k].kids = KidsOf(b.done), r[k].names = NamesOf(b.done)
  PROVE  Right(r, b.asked, k)
  <1> SUFFICES ASSUME Len(r) < MaxTypes PROVE Means(r, b.asked, k) BY DEF Right, Building
  <1>1. PICK d : d = b.asked OBVIOUS
  <1>2. PICK src : src = Source(r, d) OBVIOUS
  <1>3. d.kind \in Composite /\ AskedOK(r, d) /\ b.form = FormOf(d) /\ b.n = SizeFor(d) BY <1>1 DEF Building
  <1>4. /\ IsSeq(src) /\ Len(r[k].kids) = Len(src)
        /\ IsSeq(r[k].names) /\ Len(r[k].names) = Len(src)
        /\ \A f \in 1 .. Len(src) :
             r[k].names[f] = src[f].name /\ IsWrapped(r, r[k].kids[f], src[f].kid, src[f].wrap, b.n)
    BY <1>1, <1>2, AllDone
  <1>5. d.kids[1] \in 1 .. Len(r) BY <1>3, FirstKid
  <1>6. CASE d.kind = "soa"
    <2>1. PICK s : s = r[d.kids[1]] OBVIOUS
    <2>2. s.kids \in Seq(Nat) /\ DOMAIN s.kids = 1 .. Len(s.kids) BY <1>5, <2>1, KidsOfReg
    <2>3. src = [f \in DOMAIN s.kids |-> [name |-> s.names[f], kid |-> s.kids[f], wrap |-> d.names[1]]]
      BY <1>2, <1>6, <2>1 DEF Source
    <2>4. Len(src) = Len(s.kids) BY <1>4, <2>2, <2>3 DEF IsSeq
    <2>5. \A f \in 1 .. Len(src) : src[f].name = s.names[f] /\ src[f].kid = s.kids[f] /\ src[f].wrap = d.names[1]
      BY <2>2, <2>3, <2>4
    <2>6. IsSeq(s.names) /\ Len(s.names) = Len(s.kids) BY <1>3, <1>5, <1>6, <2>1 DEF AskedOK, RegOK
    <2>7. r[k].names = s.names BY <1>4, <2>4, <2>5, <2>6 DEF IsSeq
    <2>8. b.n = d.nums[1] BY <1>3, <1>6 DEF SizeFor, AskedOK
    <2>9. b.form = "soa" BY <1>3, <1>6 DEF FormOf
    <2>10. \A f \in DOMAIN s.kids : IsWrapped(r, r[k].kids[f], s.kids[f], d.names[1], d.nums[1])
      BY <1>4, <2>2, <2>4, <2>5, <2>8
    <2> QED BY <1>1, <1>4, <1>6, <2>1, <2>4, <2>7, <2>9, <2>10 DEF Means
  <1>7. CASE d.kind = "soa_struct"
    <2> DEFINE x == [name |-> d.names[1], kid |-> d.kids[1], wrap |-> "slice"]
    <2>1. src = <<x>> BY <1>2, <1>7 DEF Source
    <2>2. x.name = d.names[1] /\ x.kid = d.kids[1] /\ x.wrap = "slice" OBVIOUS
    <2> HIDE DEF x
    <2>3. Len(src) = 1 /\ src[1] = x BY <2>1
    <2>4. b.n = 0 /\ b.form = "soa" BY <1>3, <1>7 DEF SizeFor, FormOf
    <2>5. r[k].names[1] = d.names[1] /\ IsWrapped(r, r[k].kids[1], d.kids[1], "slice", 0)
      BY <1>4, <2>2, <2>3, <2>4
    <2>6. r[k].names = d.names BY <1>3, <1>4, <1>7, <2>3, <2>5 DEF AskedOK, IsSeq
    <2> QED BY <1>1, <1>4, <1>7, <2>3, <2>4, <2>5, <2>6 DEF Means
  <1>8. CASE d.kind \in {"template", "literal"}
    <2>1. PICK t : t = Templates[d.names[1]] OBVIOUS
    <2>2. t.fields \in Seq([name : Labels, wrap : {"plain", "slice", "array"}])
      BY <1>3, <1>8, <2>1, RegistryAssumption DEF AskedOK
    <2>3. src = [f \in DOMAIN t.fields |-> [name |-> t.fields[f].name, kid |-> d.kids[1], wrap |-> t.fields[f].wrap]]
      BY <1>2, <1>8, <2>1 DEF Source
    <2>4. DOMAIN t.fields = 1 .. Len(t.fields) /\ Len(t.fields) \in Nat BY <2>2
    <2>5. Len(src) = Len(t.fields) BY <1>4, <2>3, <2>4 DEF IsSeq
    <2>6. \A f \in 1 .. Len(src) : src[f].name = t.fields[f].name /\ src[f].kid = d.kids[1] /\ src[f].wrap = t.fields[f].wrap
      BY <2>3, <2>4, <2>5
    <2>7. b.n = (IF d.nums = <<>> THEN Min(Numbers) ELSE d.nums[1]) /\ b.form = t.form
      BY <1>3, <1>8, <2>1 DEF SizeFor, FormOf
    <2>8. \A f \in DOMAIN t.fields :
            /\ r[k].names[f] = t.fields[f].name
            /\ IsWrapped(r, r[k].kids[f], d.kids[1], t.fields[f].wrap, b.n)
      BY <1>4, <2>4, <2>5, <2>6
    <2> QED BY <1>1, <1>4, <1>8, <2>1, <2>5, <2>7, <2>8 DEF Means
  <1> QED BY <1>3, <1>6, <1>7, <1>8 DEF Composite

\* ... and so does an enum, which has no fields.
LEMMA EnumMeans ==
  ASSUME NEW r, RegOK(r), NEW b, Building(r, b), b.form = "enum", NEW k \in 1 .. Len(r),
         r[k].kind = "enum", r[k].kids = <<>>
  PROVE  Right(r, b.asked, k)
  <1>1. PICK d : d = b.asked OBVIOUS
  <1>2. d.kind \in Composite /\ AskedOK(r, d) /\ b.form = FormOf(d) BY <1>1 DEF Building
  <1>3. d.kind \in {"template", "literal"} /\ Templates[d.names[1]].form = "enum"
    BY <1>2 DEF FormOf, Composite
  <1>4. Templates[d.names[1]].fields = <<>> BY <1>2, <1>3, RegistryAssumption DEF AskedOK
  <1>5. Means(r, d, k) BY <1>3, <1>4 DEF Means
  <1> QED BY <1>1, <1>5 DEF Right

LEMMA FinishSoaKeeps == ASSUME IInv, FinishSoa PROVE IInv'
  <1>1. RegOK(reg) /\ Len(reg) \in Nat BY InReg
  <1>2. build # NoBuild BY DEF FinishSoa, NoBuild
  <1>3. Building(reg, build) /\ build.form = "soa" /\ build.todo = <<>>
    BY <1>2 DEF IInv, BuildOK, FinishSoa
  <1>4. BuiltDesc.kids = KidsOf(build.done) BY <1>3 DEF BuiltDesc, SoaType, Desc
  <1>5. CASE 0 \in Range(BuiltDesc.kids)
    <2>1. UNCHANGED <<reg, uses, templates>> /\ build' = NoBuild /\ crashed' = TRUE BY <1>5 DEF FinishSoa
    <2> QED BY <2>1 DEF IInv, BuildOK
  <1>6. CASE 0 \notin Range(BuiltDesc.kids)
    <2>1. PICK g : g = IF build.done = <<>> THEN [reg |-> reg, got |-> 0] ELSE GetOrCreate(reg, BuiltDesc)
      OBVIOUS
    <2>2. reg' = g.reg /\ Note(build.asked, g.got) /\ UNCHANGED <<templates, crashed>> /\ build' = NoBuild
      BY <1>6, <2>1 DEF FinishSoa
    <2>3. PICK m : m = BuiltDesc OBVIOUS
    <2>4. m.kind = "soa" /\ m.kids = KidsOf(build.done) /\ m.names = NamesOf(build.done) /\ Fits(reg, m)
      BY <1>3, <1>4, <1>6, <2>3, BuiltIs
    <2>5. PICK d : d = build.asked OBVIOUS
    <2>6. d.kind # "distinct" /\ Note(d, g.got) BY <1>3, <2>2, <2>5 DEF Building, Composite
    <2>7. CASE build.done = <<>>
      <3>1. g.reg = reg /\ g.got = 0 BY <2>1, <2>7
      <3>2. Grown(reg, g.reg) BY <1>1, <3>1, GrownSame
      <3>3. TemplatesOK(g.reg, templates') BY <2>2, <3>1 DEF IInv
      <3>4. g.got \in 0 .. Len(g.reg) BY <1>1, <3>1
      <3> QED BY <1>1, <2>2, <2>6, <3>1, <3>2, <3>3, <3>4, FinishKeeps
    <2>8. CASE build.done # <<>>
      <3>1. Answers(reg, m, g) BY <1>1, <2>1, <2>3, <2>4, <2>8, GetAnswers
      <3>2. RegOK(g.reg) /\ Grown(reg, g.reg) /\ g.got \in 0 .. Len(g.reg) BY <3>1 DEF Answers
      <3>3. TemplatesOK(g.reg, templates') BY <1>1, <2>2, <3>2, TemplatesStay DEF IInv
      <3>4. Building(g.reg, build)
        <4>1. BuildOK(g.reg, build) BY <1>1, <3>2, BuildStays DEF IInv
        <4> QED BY <1>2, <4>1 DEF BuildOK
      <3>5. ASSUME g.got # 0 PROVE AskedOK(g.reg, d) /\ Right(g.reg, d, g.got)
        <4>1. Alike(g.reg[g.got], m) BY <3>1, <3>5 DEF Answers
        <4>2. g.got \in 1 .. Len(g.reg) BY <3>2, <3>5 DEF RegOK, IsSeq
        <4>3. Right(g.reg, build.asked, g.got) BY <1>3, <2>4, <3>2, <3>4, <4>1, <4>2, BuiltMeans DEF Alike
        <4>4. AskedOK(g.reg, build.asked) BY <3>4 DEF Building
        <4> QED BY <2>5, <4>3, <4>4
      <3> QED BY <2>2, <2>6, <3>2, <3>3, <3>5, FinishKeeps
    <2> QED BY <2>7, <2>8
  <1> QED BY <1>5, <1>6

\* A template that was resolved is cached under the argument it was asked with.
LEMMA EntryIs ==
  ASSUME NEW r, RegOK(r), NEW d, AskedOK(r, d), d.kind = "template", NEW k \in 1 .. Len(r), Right(r, d, k)
  PROVE  EntryOK(r, [origin |-> d.names[1], arg |-> d.kids[1], n |-> SizeFor(d), result |-> k])
  <1> DEFINE e == [origin |-> d.names[1], arg |-> d.kids[1], n |-> SizeFor(d), result |-> k]
             c == Instantiation(e.origin, e.arg, e.n)
  <1>1. e.origin = d.names[1] /\ e.arg = d.kids[1] /\ e.n = SizeFor(d) /\ e.result = k OBVIOUS
  <1>2. c.kind = "template" /\ c.kids = <<e.arg>> /\ c.nums = <<e.n>> /\ c.names = <<e.origin>>
    BY DEF Instantiation, Desc
  <1> HIDE DEF c, e
  <1>3. d.kids[1] \in 1 .. Len(r) BY FirstKid DEF Composite
  <1>4. Len(r) \in Nat BY DEF RegOK, IsSeq
  <1>5. c.kids \in Seq(Nat) /\ Len(c.kids) = 1 /\ c.kids[1] = d.kids[1] /\ Range(c.kids) \subseteq 0 .. Len(r)
    BY <1>1, <1>2, <1>3, <1>4 DEF Range
  <1>6. c.names[1] = d.names[1] /\ d.names[1] \in DOMAIN Templates BY <1>1, <1>2 DEF AskedOK
  <1>7. AskedOK(r, c) BY <1>2, <1>3, <1>5, <1>6 DEF AskedOK
  <1>8. Right(r, c, k)
    <2> SUFFICES ASSUME Len(r) < MaxTypes PROVE Means(r, c, k) BY <1>2 DEF Right, Composite
    <2>1. d.kids \in Seq(Nat) /\ Len(d.kids) = 1 BY DEF AskedOK, Composite
    <2>2. 0 \notin Range(d.kids) BY <1>3, <2>1 DEF Range
    <2>3. Means(r, d, k) BY <2>2 DEF Right
    <2>4. c.nums # <<>> /\ c.nums[1] = IF d.nums = <<>> THEN Min(Numbers) ELSE d.nums[1]
      BY <1>1, <1>2 DEF SizeFor
    <2> QED BY <1>2, <1>5, <1>6, <2>3, <2>4 DEF Means
  <1>9. EntryOK(r, e) BY <1>1, <1>7, <1>8 DEF EntryOK, c
  <1> QED BY <1>9 DEF e

LEMMA CacheKeeps ==
  ASSUME NEW r, NEW ts, TemplatesOK(r, ts), NEW e, EntryOK(r, e), Len(ts) < MaxTemplates
  PROVE  TemplatesOK(r, Append(ts, e))
  <1> DEFINE us == Append(ts, e)
  <1>1. IsSeq(ts) /\ Len(ts) \in Nat /\ MaxTemplates \in Nat BY RegistryAssumption DEF TemplatesOK, IsSeq
  <1>2. /\ IsSeq(us) /\ Len(us) = Len(ts) + 1
        /\ \A k \in 1 .. Len(ts) : us[k] = ts[k]
        /\ us[Len(ts) + 1] = e
    BY <1>1, AppendIs
  <1> HIDE DEF us
  <1>3. Len(us) <= MaxTemplates BY <1>1, <1>2
  <1>4. \A k \in 1 .. Len(us) : k \in 1 .. Len(ts) \/ k = Len(ts) + 1 BY <1>1, <1>2
  <1>5. \A k \in 1 .. Len(us) : EntryOK(r, us[k]) BY <1>2, <1>4 DEF TemplatesOK
  <1>6. TemplatesOK(r, us) BY <1>2, <1>3, <1>5 DEF TemplatesOK
  <1> QED BY <1>6 DEF us

LEMMA FinishTemplateKeeps == ASSUME IInv, FinishTemplate PROVE IInv'
  <1>1. RegOK(reg) /\ Len(reg) \in Nat BY InReg
  <1>2. build # NoBuild BY DEF FinishTemplate, NoBuild
  <1>3. Building(reg, build) /\ build.form \in {"struct", "union", "enum"} /\ build.todo = <<>>
    BY <1>2 DEF IInv, BuildOK, FinishTemplate
  <1>4. PICK g : g = IF build.done = <<>> /\ build.form # "enum" THEN [reg |-> reg, got |-> 0]
                     ELSE GetOrCreate(reg, BuiltDesc)
    OBVIOUS
  <1>5. PICK d : d = build.asked OBVIOUS
  <1>6. d.kind \in Composite /\ d.kind # "distinct" /\ build.n = SizeFor(d) BY <1>3, <1>5 DEF Building, Composite
  <1>7. /\ reg' = g.reg /\ Note(d, g.got) /\ crashed' = crashed /\ build' = NoBuild
        /\ templates' = IF d.kind = "template" /\ g.got # 0 /\ Len(templates) < MaxTemplates
                        THEN Append(templates, [origin |-> d.names[1], arg |-> d.kids[1],
                                                n |-> SizeFor(d), result |-> g.got])
                        ELSE templates
    BY <1>4, <1>5, <1>6 DEF FinishTemplate
  <1>8. CASE build.done = <<>> /\ build.form # "enum"
    <2>1. g.reg = reg /\ g.got = 0 BY <1>4, <1>8
    <2>2. Grown(reg, g.reg) BY <1>1, <2>1, GrownSame
    <2>3. TemplatesOK(g.reg, templates') BY <1>7, <2>1 DEF IInv
    <2>4. g.got \in 0 .. Len(g.reg) BY <1>1, <2>1
    <2> QED BY <1>1, <1>6, <1>7, <2>1, <2>2, <2>3, <2>4, FinishKeeps
  <1>9. CASE ~ (build.done = <<>> /\ build.form # "enum")
    <2>1. PICK m : m = BuiltDesc OBVIOUS
    <2>2. Fits(reg, m) /\ m.kind = build.form
          /\ (build.form # "enum" => m.kids = KidsOf(build.done) /\ m.names = NamesOf(build.done))
          /\ (build.form = "enum" => m.kids = <<>>)
      <3>1. CASE build.form = "enum"
        <4>1. m.kind = "enum" /\ m.kids = <<>> BY <2>1, <3>1 DEF BuiltDesc, EnumType, Desc
        <4>2. Range(<<>>) = {} /\ <<>> \in Seq(Nat) BY DEF Range
        <4> QED BY <3>1, <4>1, <4>2 DEF Fits
      <3>2. CASE build.form # "enum"
        <4>1. build.form \in {"soa", "struct", "union"} /\ build.form # "soa" BY <1>3, <3>2
        <4>2. 0 \notin Range(KidsOf(build.done)) BY <1>3, <4>1, NoNullInTemplate
        <4> QED BY <1>3, <2>1, <3>2, <4>1, <4>2, BuiltIs
      <3> QED BY <3>1, <3>2
    <2>3. Answers(reg, m, g) BY <1>1, <1>4, <1>9, <2>1, <2>2, GetAnswers
    <2>4. RegOK(g.reg) /\ Grown(reg, g.reg) /\ g.got \in 0 .. Len(g.reg) BY <2>3 DEF Answers
    <2>5. Building(g.reg, build)
      <3>1. BuildOK(g.reg, build) BY <1>1, <2>4, BuildStays DEF IInv
      <3> QED BY <1>2, <3>1 DEF BuildOK
    <2>6. ASSUME g.got # 0 PROVE AskedOK(g.reg, d) /\ Right(g.reg, d, g.got) /\ g.got \in 1 .. Len(g.reg)
      <3>1. Alike(g.reg[g.got], m) BY <2>3, <2>6 DEF Answers
      <3>2. g.got \in 1 .. Len(g.reg) BY <2>4, <2>6 DEF RegOK, IsSeq
      <3>3. Right(g.reg, build.asked, g.got)
        <4>1. CASE build.form = "enum" BY <2>2, <2>4, <2>5, <3>1, <3>2, <4>1, EnumMeans DEF Alike
        <4>2. CASE build.form # "enum" BY <1>3, <2>2, <2>4, <2>5, <3>1, <3>2, <4>2, BuiltMeans DEF Alike
        <4> QED BY <4>1, <4>2
      <3>4. AskedOK(g.reg, build.asked) BY <2>5 DEF Building
      <3> QED BY <1>5, <3>2, <3>3, <3>4
    <2>7. TemplatesOK(g.reg, templates) BY <1>1, <2>4, TemplatesStay DEF IInv
    <2>8. TemplatesOK(g.reg, templates')
      <3>1. CASE d.kind = "template" /\ g.got # 0 /\ Len(templates) < MaxTemplates
        <4> DEFINE e == [origin |-> d.names[1], arg |-> d.kids[1], n |-> SizeFor(d), result |-> g.got]
        <4>1. EntryOK(g.reg, e) BY <2>4, <2>6, <3>1, EntryIs
        <4>2. templates' = Append(templates, e) BY <1>7, <3>1
        <4> HIDE DEF e
        <4> QED BY <2>7, <3>1, <4>1, <4>2, CacheKeeps
      <3>2. CASE ~ (d.kind = "template" /\ g.got # 0 /\ Len(templates) < MaxTemplates)
        BY <1>7, <2>7, <3>2
      <3> QED BY <3>1, <3>2
    <2> QED BY <1>6, <1>7, <2>4, <2>6, <2>8, FinishKeeps
  <1> QED BY <1>8, <1>9

LEMMA ApplyCachedKeeps == ASSUME IInv, ApplyCached PROVE IInv'
  <1>1. PICK origin \in DOMAIN Templates, arg \in Handles, n \in Numbers :
          /\ CachedAt(origin, arg, n) # {}
          /\ Note(Instantiation(origin, arg, n), templates[Min(CachedAt(origin, arg, n))].result)
    BY DEF ApplyCached
  <1>2. IsSeq(templates) /\ \A k \in 1 .. Len(templates) : EntryOK(reg, templates[k]) BY DEF IInv, TemplatesOK
  <1>3. DOMAIN templates = 1 .. Len(templates) /\ Len(templates) \in Nat BY <1>2 DEF IsSeq
  <1>4. CachedAt(origin, arg, n) \in SUBSET Nat /\ CachedAt(origin, arg, n) \subseteq 1 .. Len(templates)
    BY <1>3 DEF CachedAt
  <1>5. PICK k : k = Min(CachedAt(origin, arg, n)) OBVIOUS
  <1>6. k \in CachedAt(origin, arg, n) BY <1>1, <1>4, <1>5, MinIs
  <1>7. PICK e : e = templates[k] OBVIOUS
  <1>8. e.origin = origin /\ e.arg = arg /\ e.n = n BY <1>6, <1>7 DEF CachedAt
  <1>9. EntryOK(reg, e) BY <1>2, <1>4, <1>6, <1>7
  <1>10. PICK d : d = Instantiation(origin, arg, n) OBVIOUS
  <1>11. d.kind = "template" BY <1>10 DEF Instantiation, Desc
  <1>12. e.result \in 1 .. Len(reg) /\ AskedOK(reg, d) /\ Right(reg, d, e.result) BY <1>8, <1>9, <1>10 DEF EntryOK
  <1>13. uses' = Append(uses, [asked |-> IF e.result = 0 THEN Unresolved ELSE d, got |-> e.result])
    BY <1>1, <1>5, <1>7, <1>10 DEF Note
  <1>14. e.result \in 0 .. Len(reg) BY <1>12, InReg
  <1>15. UsesOK(reg, uses') BY <1>11, <1>12, <1>13, <1>14, NoteKeeps DEF IInv
  <1> QED BY <1>15 DEF IInv, ApplyCached

-----------------------------------------------------------------------------
(* Procedures and bundles                                                  *)

LEMMA ProcKids ==
  ASSUME NEW n \in Nat, NEW a \in 0 .. n, NEW b \in 0 .. n
  PROVE  /\ SeqOrNone(a) \o SeqOrNone(b) \in Seq(Nat)
         /\ Range(SeqOrNone(a) \o SeqOrNone(b)) \subseteq 1 .. n
  <1>1. ASSUME NEW c \in 0 .. n PROVE SeqOrNone(c) \in Seq(1 .. n)
    <2>1. CASE c = 0 BY <2>1 DEF SeqOrNone
    <2>2. CASE c # 0
      <3>1. c \in 1 .. n BY <2>2
      <3>2. <<c>> \in Seq(1 .. n) BY <3>1
      <3> QED BY <2>2, <3>2 DEF SeqOrNone
    <2> QED BY <2>1, <2>2
  <1>2. PICK s : s = SeqOrNone(a) \o SeqOrNone(b) OBVIOUS
  <1>3. s \in Seq(1 .. n) BY <1>1, <1>2
  <1>4. s \in Seq(Nat) /\ \A k \in DOMAIN s : s[k] \in 1 .. n BY <1>3
  <1> QED BY <1>2, <1>4 DEF Range

\* m is looked up in a registry r that may have grown by a slice, for d.
LEMMA ProcKeeps ==
  ASSUME IInv, NEW r, RegOK(r), Grown(reg, r), NEW m, Fits(r, m), m.kind = "proc",
         NEW u \in BOOLEAN, u => m.attrs # <<>>,
         NEW d, d.kind = "proc", d.kids = m.kids, d.nums = m.nums, d.names = m.names,
         d.attrs # <<>> => u /\ d.attrs = m.attrs,
         Gives(d, GetOrCreateProc(r, m, u))
  PROVE  IInv'
  <1>1. PICK g : g = GetOrCreateProc(r, m, u) OBVIOUS
  <1>2. Answers(r, m, g) /\ (u /\ g.got # 0 => g.reg[g.got].attrs = m.attrs) BY <1>1, GetProcAnswers
  <1>3. RegOK(reg) /\ Len(reg) \in Nat /\ Len(r) \in Nat /\ Len(g.reg) \in Nat
    BY <1>2, InReg DEF Answers, RegOK, IsSeq
  <1>4. Grown(reg, g.reg) BY <1>2, <1>3, GrownTwice DEF Answers
  <1>5. Answers(reg, m, g) BY <1>2, <1>4 DEF Answers, Fresh
  <1>6. ASSUME g.got # 0 PROVE AskedOK(g.reg, d) /\ Right(g.reg, d, g.got)
    <2>1. Alike(g.reg[g.got], d) BY <1>2, <1>6 DEF Answers, Alike
    <2>2. d.attrs # <<>> => g.reg[g.got].attrs = d.attrs BY <1>2, <1>6
    <2>3. d.kind \notin Composite BY DEF Composite
    <2>4. Means(g.reg, d, g.got) BY <2>1, <2>2, <2>3, AlikeMeans
    <2>5. d.kids \in Seq(Nat) /\ Range(d.kids) \subseteq 1 .. Len(r) /\ Len(r) <= Len(g.reg)
      BY <1>2 DEF Fits, Answers, Grown
    <2>6. Range(d.kids) \subseteq 0 .. Len(g.reg) BY <1>3, <2>5
    <2> QED BY <2>4, <2>5, <2>6 DEF AskedOK, Right, Composite
  <1>7. Gives(d, g) BY <1>1
  <1> QED BY <1>5, <1>6, <1>7, GivesKeeps

LEMMA ResolveProcTypeKeeps == ASSUME IInv, ResolveProcType PROVE IInv'
  <1>1. PICK p \in Handles, ret \in Handles, variadic \in {0, 1}, cc \in {0, 1}, named \in {<<>>, <<"r">>} :
          LET s == IF variadic = 1 /\ p # 0 THEN Wrapped(reg, p, "slice", 0)
                   ELSE [reg |-> reg, got |-> p]
              list  == IF named = <<>> \/ ret = 0 THEN 0 ELSE 1
              attrs == IF ret = 0 THEN <<>> ELSE named
              d == ProcType(SeqOrNone(s.got), SeqOrNone(ret), variadic, cc, list, attrs)
          IN  /\ cc = 1 => variadic = 0 /\ named = <<>>
              /\ Gives(Shape(d), GetOrCreateProc(s.reg, d, FALSE))
    BY Zenon DEF ResolveProcType
  <1>2. PICK s : s = IF variadic = 1 /\ p # 0 THEN Wrapped(reg, p, "slice", 0)
                     ELSE [reg |-> reg, got |-> p]
    OBVIOUS
  <1>3. PICK m : m = ProcType(SeqOrNone(s.got), SeqOrNone(ret), variadic, cc,
                              IF named = <<>> \/ ret = 0 THEN 0 ELSE 1,
                              IF ret = 0 THEN <<>> ELSE named)
    OBVIOUS
  <1>4. Gives(Shape(m), GetOrCreateProc(s.reg, m, FALSE)) BY <1>1, <1>2, <1>3
  <1>5. RegOK(reg) /\ Len(reg) \in Nat BY InReg
  <1>6. p \in 0 .. Len(reg) /\ ret \in 0 .. Len(reg) BY HandlesIn
  <1>7. RegOK(s.reg) /\ Grown(reg, s.reg) /\ s.got \in 0 .. Len(s.reg)
    <2>1. CASE variadic = 1 /\ p # 0
      <3>1. s = Wrapped(reg, p, "slice", 0) /\ p \in 1 .. Len(reg) BY <1>2, <1>5, <1>6, <2>1
      <3> QED BY <1>5, <3>1, WrappedIs
    <2>2. CASE ~ (variadic = 1 /\ p # 0)
      <3>1. s = [reg |-> reg, got |-> p] BY <1>2, <2>2
      <3> QED BY <1>5, <1>6, <3>1, GrownSame
    <2> QED BY <2>1, <2>2
  <1>8. m.kind = "proc" /\ m.kids = SeqOrNone(s.got) \o SeqOrNone(ret) BY <1>3 DEF ProcType, Desc
  <1>9. ret \in 0 .. Len(s.reg) /\ Len(s.reg) \in Nat
    <2>1. Len(s.reg) \in Nat /\ Len(reg) <= Len(s.reg) BY <1>7 DEF RegOK, IsSeq, Grown
    <2> QED BY <1>5, <1>6, <2>1
  <1>10. Fits(s.reg, m) BY <1>7, <1>8, <1>9, ProcKids DEF Fits
  <1>11. PICK d : d = Shape(m) OBVIOUS
  <1>12. d.kind = m.kind /\ d.kids = m.kids /\ d.nums = m.nums /\ d.names = m.names /\ d.attrs = <<>>
    BY <1>11 DEF Shape, Desc
  <1>13. Gives(d, GetOrCreateProc(s.reg, m, FALSE)) BY <1>4, <1>11
  <1> QED BY <1>7, <1>8, <1>10, <1>12, <1>13, ProcKeeps

LEMMA DeclareProcKeeps == ASSUME IInv, DeclareProc PROVE IInv'
  <1>1. PICK p \in Handles, ret \in Handles, default \in {<<>>, <<"d">>, <<"e">>} :
          LET attrs == IF p = 0 THEN <<>> ELSE default
              d == ProcType(SeqOrNone(p), SeqOrNone(ret), 0, 0, 0, attrs)
          IN  Gives(d, GetOrCreateProc(reg, d, attrs # <<>>))
    BY DEF DeclareProc
  <1>2. PICK attrs : attrs = IF p = 0 THEN <<>> ELSE default OBVIOUS
  <1>3. PICK d : d = ProcType(SeqOrNone(p), SeqOrNone(ret), 0, 0, 0, attrs) OBVIOUS
  <1>4. PICK u \in BOOLEAN : u = (attrs # <<>>) OBVIOUS
  <1>5. Gives(d, GetOrCreateProc(reg, d, u)) BY <1>1, <1>2, <1>3, <1>4
  <1>6. d.kind = "proc" /\ d.kids = SeqOrNone(p) \o SeqOrNone(ret) /\ d.attrs = attrs
    BY <1>3 DEF ProcType, Desc
  <1>7. RegOK(reg) /\ Len(reg) \in Nat BY InReg
  <1>8. p \in 0 .. Len(reg) /\ ret \in 0 .. Len(reg) BY HandlesIn
  <1>9. Fits(reg, d) BY <1>6, <1>7, <1>8, ProcKids DEF Fits
  <1>10. Grown(reg, reg) BY <1>7, GrownSame
  <1> QED BY <1>4, <1>5, <1>6, <1>7, <1>9, <1>10, ProcKeeps

LEMMA DeclareBundleKeeps == ASSUME IInv, DeclareBundle PROVE IInv'
  <1>1. PICK k \in Handles \ {0}, s \in Symbols : Request(OverloadBundleType(k, s)) BY DEF DeclareBundle
  <1>2. OverloadBundleType(k, s).kids = <<k>> /\ OverloadBundleType(k, s).kind \in OneKid
    BY DEF OverloadBundleType, OneKid, Desc
  <1> QED BY <1>1, <1>2, HandlesIn, OneKidKeeps

-----------------------------------------------------------------------------
(* The theorems                                                            *)

LEMMA InitInv == Init => IInv
  <1> SUFFICES ASSUME Init PROVE IInv OBVIOUS
  <1>1. RegOK(reg) /\ Len(Start) <= Len(reg)
    BY StartIs, RegistryAssumption DEF Init
  <1>2. IsSeq(<<>>) /\ Len(<<>>) = 0 /\ 1 .. 0 = {} BY DEF IsSeq
  <1>3. UsesOK(reg, uses) BY <1>2 DEF Init, UsesOK
  <1>4. TemplatesOK(reg, templates) BY <1>2, RegistryAssumption DEF Init, TemplatesOK
  <1> QED BY <1>1, <1>3, <1>4 DEF Init, IInv, BuildOK

LEMMA NextInv == IInv /\ [Next]_vars => IInv'
  <1> SUFFICES ASSUME IInv, [Next]_vars PROVE IInv' OBVIOUS
  <1>1. CASE UNCHANGED vars BY <1>1 DEF vars, IInv
  <1>2. CASE SoaOfOther BY <1>2, NoTypeKeeps DEF SoaOfOther
  <1>3. CASE ApplyUnknown BY <1>3, NoTypeKeeps DEF ApplyUnknown
  <1>4. CASE Next
    BY <1>2, <1>3, <1>4, ResolversKeep, StructsKeep, BeginSoaKeeps, BeginSoaStructKeeps,
       BuildFieldKeeps, FinishSoaKeeps, ApplyCachedKeeps, ApplyNewKeeps, InferNewKeeps,
       FinishTemplateKeeps, ResolveProcTypeKeeps, DeclareProcKeeps, DeclareBundleKeeps
       DEF Next
  <1> QED BY <1>1, <1>4

\* The inductive invariant holds in every state.
LEMMA Invariant == Spec => []IInv
  BY InitInv, NextInv, PTL DEF Spec

\* The registry never grows past MAX_TYPES, and descriptors, uses and cached
\* templates refer only to descriptors made earlier (get_or_create_* and
\* type_descriptor_alloc), for any number of type expressions.
THEOREM RegistryTypes == Spec => []TypeOK
  <1>1. IInv => TypeOK
    <2> SUFFICES ASSUME IInv PROVE TypeOK OBVIOUS
    <2>1. Len(Start) <= Len(reg) /\ Len(reg) <= MaxTypes /\ crashed \in BOOLEAN BY DEF IInv, RegOK
    <2>2. DOMAIN reg = 1 .. Len(reg) BY DEF IInv, RegOK, IsSeq
    <2>3. \A k \in DOMAIN reg : Range(reg[k].kids) \subseteq 1 .. k - 1 BY <2>2 DEF IInv, RegOK
    <2>4. DOMAIN uses = 1 .. Len(uses) BY DEF IInv, UsesOK, IsSeq
    <2>5. \A k \in DOMAIN uses : uses[k].got \in 0 .. Len(reg) BY <2>4 DEF IInv, UsesOK, UseOK
    <2>6. DOMAIN templates = 1 .. Len(templates) /\ Len(templates) <= MaxTemplates
      BY DEF IInv, TemplatesOK, IsSeq
    <2>7. \A k \in DOMAIN templates : templates[k].result \in 1 .. Len(reg)
      BY <2>6 DEF IInv, TemplatesOK, EntryOK
    <2> QED BY <2>1, <2>3, <2>5, <2>6, <2>7 DEF TypeOK
  <1> QED BY <1>1, Invariant, PTL

\* No type has two descriptors, whatever the order of the calls, except the
\* basic types that the registry is created with twice: a get_or_create_* finds
\* what an earlier call created.  Structs, enums, distinct types and procedures
\* forced to be unique are new every time.
THEOREM RegistryInterned == Spec => []Interned
  <1>1. IInv => Interned
    <2> SUFFICES ASSUME IInv PROVE Interned OBVIOUS
    <2>1. DOMAIN reg = 1 .. Len(reg) BY DEF IInv, RegOK, IsSeq
    <2> QED BY <2>1 DEF IInv, RegOK, MayRepeat, Interned
  <1> QED BY <1>1, Invariant, PTL

\* The descriptor that a type expression was resolved to describes it, now and
\* at every later time: also for #soa types and templates, whose fields are
\* wrapped one by one, and for templates answered from poly_struct_cache.
THEOREM RegistryMeans == Spec => []MeansWhatWasAsked
  <1>1. IInv => MeansWhatWasAsked
    <2> SUFFICES ASSUME IInv, NEW k \in DOMAIN uses, uses[k].got # 0,
                        0 \notin Range(uses[k].asked.kids), Len(reg) < MaxTypes
                 PROVE  Means(reg, uses[k].asked, uses[k].got)
      BY DEF MeansWhatWasAsked
    <2>1. DOMAIN uses = 1 .. Len(uses) BY DEF IInv, UsesOK, IsSeq
    <2>2. UseOK(reg, uses[k]) BY <2>1 DEF IInv, UsesOK
    <2> QED BY <2>2 DEF UseOK, Right
  <1> QED BY <1>1, Invariant, PTL

\* Two distinct types never are one descriptor and neither is its own base
\* type, so sem_check_assignment refuses to assign one to the other.
THEOREM DistinctApart == Spec => []DistinctKeptApart
  <1>1. IInv => DistinctKeptApart
    <2> SUFFICES ASSUME IInv, NEW k \in DOMAIN uses, uses[k].asked.kind = "distinct", uses[k].got # 0
                 PROVE  /\ AssignmentRefused(uses[k].asked.kids[1], uses[k].got)
                        /\ \A l \in DOMAIN uses :
                             (l # k /\ uses[l].asked = uses[k].asked /\ uses[l].got # 0) =>
                                AssignmentRefused(uses[l].got, uses[k].got)
      BY DEF DistinctKeptApart
    <2>1. DOMAIN uses = 1 .. Len(uses) BY DEF IInv, UsesOK, IsSeq
    <2>2. RegOK(reg) /\ Len(reg) \in Nat BY InReg
    <2>3. PICK d : d = uses[k].asked OBVIOUS
    <2>4. PICK g : g = uses[k].got OBVIOUS
    <2>5. g \in 1 .. Len(reg) /\ AskedOK(reg, d) /\ Right(reg, d, g)
      BY <2>1, <2>2, <2>3, <2>4 DEF IInv, UsesOK, UseOK
    <2>6. d.kind = "distinct" /\ Len(d.kids) = 1 /\ d.kids[1] # 0 /\ d.kids \in Seq(Nat)
      BY <2>3, <2>5 DEF AskedOK
    <2>7. 0 \notin Range(d.kids) BY <2>6 DEF Range
    <2>8. Means(reg, d, g) BY <2>5, <2>6, <2>7 DEF Right, Composite
    <2>9. Shape(reg[g]) = Shape(d) BY <2>6, <2>8 DEF Means
    <2>10. reg[g].kind = "distinct" /\ reg[g].kids = d.kids BY <2>6, <2>9 DEF Shape, Desc
    <2>11. d.kids[1] < g BY <2>2, <2>5, <2>6, <2>10, KidsOfReg
    <2>12. AssignmentRefused(d.kids[1], g)
      <3>1. d.kids[1] \in Nat /\ g \in Nat BY <2>5, <2>6
      <3> QED BY <2>5, <2>6, <2>10, <2>11, <3>1 DEF AssignmentRefused, TypesAssignable
    <2>13. ASSUME NEW l \in DOMAIN uses, l # k, uses[l].asked = uses[k].asked, uses[l].got # 0
           PROVE  AssignmentRefused(uses[l].got, g)
      <3>1. uses[l].got # g BY <2>1, <2>4, <2>13 DEF IInv, UsesOK
      <3> QED BY <2>5, <2>10, <2>13, <3>1 DEF AssignmentRefused, TypesAssignable
    <2> QED BY <2>3, <2>4, <2>12, <2>13
  <1> QED BY <1>1, Invariant, PTL

=============================================================================
