---------------------------- MODULE TypeRegistry ----------------------------
(***************************************************************************)
(* The registry of type descriptors (type_descriptors.c) and the resolution *)
(* of type expressions into it (sem_type_resolver.c).                       *)
(*                                                                         *)
(* A TypeDescriptor pointer is its index in the registry; 0 is NULL.  Types *)
(* are compared by pointer when a program is analysed and by type_id, the   *)
(* hash of a canonical name, when it runs: the registry must give equal     *)
(* types one descriptor and different types two.                            *)
(*                                                                         *)
(* The program is a sequence of type expressions, resolved one by one.  The *)
(* children of an expression are type names and expressions resolved        *)
(* earlier, so a nested expression is resolved innermost first, as the      *)
(* recursion of sem_resolve_type_expr does it.                              *)
(***************************************************************************)
EXTENDS Integers, Sequences, FiniteSets, FiniteSetsExt, SequencesExt

CONSTANTS
    Basics,        \* the basic types in order: [name, width, float, listed];
                   \* listed are those in basic_types[], found by name
    MaxTypes,      \* MAX_TYPES (1024)
    MaxTemplates,  \* POLY_STRUCT_CACHE_MAX (256)
    MaxUses,       \* bound: type expressions in a program
    Named,         \* the basic types that names and expressions of a program
                   \* have (indices of Start)
    Numbers,       \* array counts, lanes, dimensions, widths, range limits
    Labels,        \* names of fields
    Symbols,       \* procedures that overload bundles list
    Templates      \* [name -> [form, fields: Seq([name, wrap])]]: struct($T, $N)

ASSUME RegistryAssumption ==
    /\ MaxTypes \in Nat /\ MaxTemplates \in Nat /\ MaxUses \in Nat
    /\ Numbers \subseteq Nat
    /\ Basics \in Seq([name : STRING, width : Nat, float : BOOLEAN, listed : BOOLEAN])
    /\ \A i, j \in DOMAIN Basics :
          i # j /\ Basics[i].name = Basics[j].name => Basics[i].listed # Basics[j].listed
    /\ \A name \in {"int", "rawptr", "string", "u8"} :
          \E i \in DOMAIN Basics : Basics[i].name = name /\ Basics[i].listed
    /\ \E i \in DOMAIN Basics : Basics[i].name = "i64" /\ ~Basics[i].listed
    /\ Len(Basics) + 5 <= MaxTypes  \* the five of register_builtin_context_types
    /\ Named \subseteq 1 .. Len(Basics)
    /\ \A t \in DOMAIN Templates :
          /\ Templates[t].form \in {"struct", "union", "enum"}
          /\ Templates[t].fields \in Seq([name : Labels, wrap : {"plain", "slice", "array"}])
          /\ Templates[t].form = "enum" => Templates[t].fields = <<>>

VARIABLES
    reg,       \* TypeDescriptors.types[0 .. count-1]
    templates, \* poly_struct_cache: sequence of [origin, arg, n, result]
    build,     \* the loop over the fields of a #soa type or a template
    uses,      \* what was resolved: sequence of [asked, got]
    crashed    \* a NULL descriptor was dereferenced

vars == <<reg, templates, build, uses, crashed>>

-----------------------------------------------------------------------------
(* Descriptors *)

\* What get_or_create_* compares (kind, children, numbers, names), and in
\* attrs what a descriptor holds that no lookup compares: default_values and
\* named_return_names of a procedure, the symbols of a bundle, enumerators,
\* is_using and #align of fields.
Desc(kind, kids, nums, names, attrs) ==
    [kind |-> kind, kids |-> kids, nums |-> nums, names |-> names, attrs |-> attrs]

Shape(d) == Desc(d.kind, d.kids, d.nums, d.names, <<>>)

\* The arguments of each get_or_create_*, as the descriptor it looks for.
PointerType(k)      == Desc("pointer", <<k>>, <<>>, <<>>, <<>>)
ArrayType(k, n)     == Desc("array", <<k>>, <<n>>, <<>>, <<>>)
SliceType(k)        == Desc("slice", <<k>>, <<>>, <<>>, <<>>)
DynamicArrayType(k) == Desc("dynamic_array", <<k>>, <<>>, <<>>, <<>>)
MapType(k, v)       == Desc("map", <<k, v>>, <<>>, <<>>, <<>>)
BitFieldType(k, f, w) == Desc("bit_field", <<k>>, <<w>>, <<f>>, <<>>)
BitSetType(k, bits) == Desc("bit_set", <<k>>, <<bits>>, <<>>, <<>>)
EnumType(values)    == Desc("enum", <<>>, <<>>, <<>>, values)
RangeType(inclusive) == Desc("range", <<>>, <<inclusive>>, <<>>, <<>>)
MaybeType(k)        == Desc("maybe", <<k>>, <<>>, <<>>, <<>>)
MultiPointerType(k) == Desc("multi_pointer", <<k>>, <<>>, <<>>, <<>>)
DistinctType(k)     == Desc("distinct", <<k>>, <<>>, <<>>, <<>>)
VectorType(k, lanes) == Desc("vector", <<k>>, <<lanes>>, <<>>, <<>>)
MatrixType(k, rows, columns, rowMajor) ==
    Desc("matrix", <<k>>, <<rows, columns, rowMajor>>, <<>>, <<>>)
TupleType(ks)       == Desc("tuple", ks, <<>>, <<>>, <<>>)
StructType(names, ks, attrs) == Desc("struct", ks, <<>>, names, attrs)
UnionType(names, ks)         == Desc("union", ks, <<>>, names, <<>>)
SoaType(names, ks, attrs)    == Desc("soa", ks, <<>>, names, attrs)
OverloadBundleType(k, symbol) == Desc("bundle", <<k>>, <<>>, <<>>, <<symbol>>)

\* nums: number of parameters, of returns, variadic, calling convention,
\* and whether the returns are written as a list (return_type is NULL then).
ProcType(params, returns, variadic, cc, list, attrs) ==
    Desc("proc", params \o returns,
         <<Len(params), Len(returns), variadic, cc, list>>, <<>>, attrs)

\* A mistake in ShownNumbers: counts are left out of the canonical name.
HidesNumbers(d) == <<>>

\* type_write_canonical_name: the calling convention and the form of the
\* return clause of a procedure are not written, nor a tag no enum ever has.
ShownNumbers(d) == IF d.kind = "proc" THEN SubSeq(d.nums, 1, 3) ELSE d.nums

CanonicalNames(r) ==
    LET canon[i \in 1 .. Len(r)] ==
            <<r[i].kind, ShownNumbers(r[i]), r[i].names,
              [k \in DOMAIN r[i].kids |-> canon[r[i].kids[k]]]>>
    IN  canon

CanonicalName(r, d) == CanonicalNames(Append(r, d))[Len(r) + 1]

\* type_compute_hash; the hash is taken to be free of collisions.
WithId(r, d) ==
    [kind |-> d.kind, kids |-> d.kids, nums |-> d.nums, names |-> d.names,
     attrs |-> d.attrs, type_id |-> CanonicalName(r, d)]

NoId == <<>>  \* type_id 0

\* A descriptor is written at the end of the array.
Add(r, d) == Append(r, WithId(r, d))

-----------------------------------------------------------------------------
(* get_or_create_*: look for a descriptor alike, else append one *)

\* A mistake in Fresh: distinct types are looked up like the others.
SharesDistinct == {"struct", "enum"}

\* register_struct_type and create_distinct_type never look, and an enum is
\* looked up by a tag that the grammar gives to none.
Fresh == {"struct", "distinct", "enum"}

\* A mistake in Alike: counts are not compared.
IgnoresNumbers(t, d) == t.kind = d.kind /\ t.kids = d.kids /\ t.names = d.names

Alike(t, d) ==
    /\ t.kind = d.kind
    /\ t.kids = d.kids
    /\ t.nums = d.nums
    /\ t.names = d.names

\* A mistake in FoundIn: the search stops short of the descriptor made last.
MissesLast(r, d) == IF d.kind \in Fresh THEN {} ELSE {i \in 1 .. Len(r) - 1 : Alike(r[i], d)}

FoundIn(r, d) == IF d.kind \in Fresh THEN {} ELSE {i \in 1 .. Len(r) : Alike(r[i], d)}

\* A mistake in Create: the registry is taken to be full one too late.
AllocatesPast(r, d) ==
    IF Len(r) > MaxTypes
    THEN [reg |-> r, got |-> 0]
    ELSE [reg |-> Add(r, d), got |-> Len(r) + 1]

\* type_descriptor_alloc
Create(r, d) ==
    IF Len(r) >= MaxTypes
    THEN [reg |-> r, got |-> 0]
    ELSE [reg |-> Add(r, d), got |-> Len(r) + 1]

GetOrCreate(r, d) ==
    IF FoundIn(r, d) # {}
    THEN [reg |-> r, got |-> Min(FoundIn(r, d))]
    ELSE Create(r, d)

\* get_or_create_proc_type: force_unique skips the lookup
GetOrCreateProc(r, d, force_unique) ==
    IF force_unique THEN Create(r, d) ELSE GetOrCreate(r, d)

-----------------------------------------------------------------------------
(* The registry before any program *)

BasicDesc(b) ==
    Desc("basic", <<>>, <<b.width, IF b.float THEN 1 ELSE 0>>, <<b.name>>, <<>>)

\* get_basic_type_by_name searches basic_types[] only.
BasicNamed(name) == CHOOSE i \in DOMAIN Basics : Basics[i].name = name /\ Basics[i].listed

\* registry->i64_type, made before the table of names is: it is not listed.
HiddenI64 == CHOOSE i \in DOMAIN Basics : Basics[i].name = "i64" /\ ~Basics[i].listed

\* bool, i8, i32, i64, f32 and f64 are made twice, once for the analyser's own
\* use (i1_type ... f64_type) and once for the table of names.
CreateRegistry == [i \in DOMAIN Basics |-> WithId(<<>>, BasicDesc(Basics[i]))]

\* register_builtin_context_types; the last descriptor gets no type_id.
BuiltinTypes(r) ==
    LET n   == Len(r)
        ptr == BasicNamed("rawptr")
        int == BasicNamed("int")
        r1  == Add(r, StructType(<<"procedure", "data">>, <<ptr, ptr>>, <<>>))
        r2  == Add(r1, StructType(<<"allocator", "temp_allocator", "user_ptr", "user_index">>,
                                  <<n + 1, n + 1, ptr, int>>, <<>>))
        r3  == Add(r2, StructType(<<"file", "line", "column">>,
                                  <<BasicNamed("string"), int, int>>, <<>>))
        r4  == Add(r3, StructType(<<"size", "align", "id", "kind", "elem_count", "elem_size",
                                    "elem_type_id", "rows", "cols", "layout", "lane_count">>,
                                  [i \in 1 .. 11 |-> HiddenI64], <<>>))
    IN  Append(r4, [WithId(r4, PointerType(n + 4)) EXCEPT !.type_id = NoId])

Start == BuiltinTypes(CreateRegistry)

NoBuild == [form |-> "none"]

Init ==
    /\ reg = Start
    /\ templates = <<>>
    /\ build = NoBuild
    /\ uses = <<>>
    /\ crashed = FALSE

-----------------------------------------------------------------------------
(* Resolving one type expression *)

\* What the resolver may return for a child: a type by name or an expression
\* resolved before, NULL when that one failed.
Handles == Named \cup {uses[i].got : i \in DOMAIN uses}

Ready == ~crashed /\ build = NoBuild /\ Len(uses) < MaxUses

\* NULL tells nothing of the expression it came from.
Unresolved == Desc("none", <<>>, <<>>, <<>>, <<>>)

Note(d, got) ==
    uses' = Append(uses, [asked |-> IF got = 0 THEN Unresolved ELSE d, got |-> got])

NoType ==
    /\ Note(Unresolved, 0)
    /\ UNCHANGED <<reg, templates, build, crashed>>

Gives(d, result) ==
    /\ reg' = result.reg
    /\ Note(d, result.got)
    /\ UNCHANGED <<templates, build, crashed>>

\* A resolver returns NULL when a child it needs is NULL.
Request(d) ==
    IF 0 \in Range(d.kids) THEN NoType ELSE Gives(d, GetOrCreate(reg, d))

ResolvePointer      == Ready /\ \E k \in Handles : Request(PointerType(k))
ResolveSlice        == Ready /\ \E k \in Handles : Request(SliceType(k))
ResolveMultiPointer == Ready /\ \E k \in Handles : Request(MultiPointerType(k))
ResolveDynamicArray == Ready /\ \E k \in Handles : Request(DynamicArrayType(k))
ResolveMaybe        == Ready /\ \E k \in Handles : Request(MaybeType(k))
ResolveDistinct     == Ready /\ \E k \in Handles : Request(DistinctType(k))

ResolveArray ==
    /\ Ready
    /\ \E k \in Handles, n \in Numbers : Request(ArrayType(k, n))

ResolveMap ==
    /\ Ready
    /\ \E k, v \in Handles : Request(MapType(k, v))

ResolveTuple ==
    /\ Ready
    /\ \E k, v \in Handles : Request(TupleType(<<k, v>>))

ResolveVector ==
    /\ Ready
    /\ \E k \in Handles, n \in Numbers :
          IF n = 0 THEN NoType ELSE Request(VectorType(k, n))

ResolveMatrix ==
    /\ Ready
    /\ \E k \in Handles, n \in Numbers, rowMajor \in {0, 1} :
          IF n = 0 THEN NoType ELSE Request(MatrixType(k, n, 1, rowMajor))

\* RangeType has no children; ranges are expressions, evaluated by
\* sem_evaluate_range_expr.
ResolveRange ==
    /\ Ready
    /\ \E inclusive \in {0, 1} : Request(RangeType(inclusive))

ResolveBitField ==
    /\ Ready
    /\ \E k \in Handles, f \in Labels, w \in Numbers :
          IF w = 0 THEN NoType ELSE Request(BitFieldType(k, f, w))

\* The bits of bit_set[T]: the width of an integer, 64 for an enum.
IsInteger(i) == reg[i].kind = "basic" /\ reg[i].nums[2] = 0

ElementBits(i) == IF reg[i].kind = "enum" THEN 64 ELSE reg[i].nums[1]

ResolveBitSet ==
    /\ Ready
    /\ \E k \in Handles :
          IF k # 0 /\ (reg[k].kind = "enum" \/ IsInteger(k))
          THEN Request(BitSetType(k, ElementBits(k)))
          ELSE NoType

\* The two limits are taken from a stack of nodes, so the one written last
\* comes first; the difference wraps and is then cut to an int, at least 1.
RangeBits(low, high, inclusive) ==
    LET first == high
        last  == low
        bits  == IF inclusive THEN last - first + 1 ELSE last - first
    IN  IF bits < 1 THEN 1 ELSE bits

\* bit_set[low..high]; every range the runs use fits the first backing type.
ResolveBitSetRange ==
    /\ Ready
    /\ \E low, high \in Numbers, inclusive \in BOOLEAN :
          /\ low <= high
          /\ RangeBits(low, high, inclusive) <= 8
          /\ Request(BitSetType(BasicNamed("u8"), RangeBits(low, high, inclusive)))

\* EnumType is never given a tag; the enumerators are written afterwards.
ResolveEnum ==
    /\ Ready
    /\ \E f \in Labels : Request(EnumType(<<f>>))

-----------------------------------------------------------------------------
(* Types with fields *)

\* One field, or two.
Fields == {<<[name |-> f, kid |-> k, using |-> u]>> :
              f \in Labels, k \in Handles, u \in BOOLEAN}
          \cup {<<[name |-> f, kid |-> k, using |-> FALSE],
                  [name |-> g, kid |-> l, using |-> FALSE]>> :
              f, g \in Labels, k, l \in Handles}

\* A field whose type does not resolve is skipped without a message.
Known(f) == IF f.kid = 0 THEN <<>> ELSE <<f>>
KnownFields(fs) == Known(fs[1]) \o (IF Len(fs) = 1 THEN <<>> ELSE Known(fs[2]))

NamesOf(fs) == [i \in DOMAIN fs |-> fs[i].name]
KidsOf(fs)  == [i \in DOMAIN fs |-> fs[i].kid]
UsingOf(fs) == [i \in DOMAIN fs |-> fs[i].using]

DistinctNames(fs) == \A i, j \in DOMAIN fs : fs[i].name = fs[j].name => i = j

\* The type made of the fields that are left, for the type that was asked for
WithFields(fs, asked, made) ==
    IF KnownFields(fs) = <<>> THEN NoType ELSE Gives(asked, GetOrCreate(reg, made))

ResolveStruct ==
    /\ Ready
    /\ \E fs \in Fields :
          /\ DistinctNames(fs)
          /\ LET known == KnownFields(fs)
             IN  WithFields(fs, StructType(NamesOf(fs), KidsOf(fs), UsingOf(known)),
                                StructType(NamesOf(known), KidsOf(known), UsingOf(known)))

ResolveUnion ==
    /\ Ready
    /\ \E fs \in Fields :
          /\ DistinctNames(fs)
          /\ \A i \in DOMAIN fs : ~fs[i].using
          /\ LET known == KnownFields(fs)
             IN  WithFields(fs, UnionType(NamesOf(fs), KidsOf(fs)),
                                UnionType(NamesOf(known), KidsOf(known)))

\* Wrapping the type of a field: T, []T or [n]T.
Wrapped(r, kid, wrap, n) ==
    CASE wrap = "plain" -> [reg |-> r, got |-> kid]
      [] wrap = "slice" -> GetOrCreate(r, SliceType(kid))
      [] wrap = "array" -> GetOrCreate(r, ArrayType(kid, n))

\* sem_resolve_soa_type on a struct S: #soa S with slices, #soa[n] S with
\* arrays.  A slice or array that could not be created is kept as NULL.
BeginSoa ==
    /\ Ready
    /\ \E k \in Handles \ {0}, n \in Numbers, wrap \in {"slice", "array"} :
          /\ reg[k].kind = "struct"
          /\ wrap = "slice" => n = Min(Numbers)
          /\ wrap = "array" => n # 0
          /\ build' = [form |-> "soa", todo |-> [i \in DOMAIN reg[k].kids |->
                          [name |-> reg[k].names[i], kid |-> reg[k].kids[i], wrap |-> wrap]],
                       done |-> <<>>, n |-> n, attrs |-> reg[k].attrs, keepNull |-> TRUE,
                       asked |-> Desc("soa", <<k>>, <<n>>, <<wrap>>, <<>>)]
    /\ UNCHANGED <<reg, templates, uses, crashed>>

\* sem_resolve_struct_type with the #soa directive on the struct itself: a
\* field without a slice is skipped.
BeginSoaStruct ==
    /\ Ready
    /\ \E f \in Labels, k \in Handles \ {0} :
          build' = [form |-> "soa", todo |-> <<[name |-> f, kid |-> k, wrap |-> "slice"]>>,
                    done |-> <<>>, n |-> 0, attrs |-> <<FALSE>>, keepNull |-> FALSE,
                    asked |-> Desc("soa_struct", <<k>>, <<>>, <<f>>, <<>>)]
    /\ UNCHANGED <<reg, templates, uses, crashed>>

\* #soa of anything else is an error.
SoaOfOther ==
    /\ Ready
    /\ \E k \in Handles :
          /\ k # 0 => reg[k].kind # "struct"
          /\ NoType

BuildField ==
    /\ ~crashed
    /\ build # NoBuild
    /\ build.todo # <<>>
    /\ LET f    == Head(build.todo)
           r    == Wrapped(reg, f.kid, f.wrap, build.n)
           skip == r.got = 0 /\ ~build.keepNull
       IN  /\ reg' = r.reg
           /\ build' = [build EXCEPT !.todo = Tail(@),
                          !.done = IF skip THEN @
                                   ELSE Append(@, [name |-> f.name, kid |-> r.got])]
    /\ UNCHANGED <<templates, uses, crashed>>

BuiltDesc ==
    LET names == NamesOf(build.done)
        kids  == KidsOf(build.done)
    IN  CASE build.form = "soa"    -> SoaType(names, kids, build.attrs)
          [] build.form = "struct" -> StructType(names, kids, build.attrs)
          [] build.form = "union"  -> UnionType(names, kids)
          [] build.form = "enum"   -> EnumType(<<>>)

\* get_or_create_soa_type reads the llvm_type of every field.
FinishSoa ==
    /\ ~crashed
    /\ build.form = "soa"
    /\ build.todo = <<>>
    /\ build' = NoBuild
    /\ IF 0 \in Range(BuiltDesc.kids)
       THEN crashed' = TRUE /\ UNCHANGED <<reg, uses>>
       ELSE LET r == IF build.done = <<>> THEN [reg |-> reg, got |-> 0]
                     ELSE GetOrCreate(reg, BuiltDesc)
            IN  /\ reg' = r.reg
                /\ Note(build.asked, r.got)
                /\ UNCHANGED crashed
    /\ UNCHANGED templates

-----------------------------------------------------------------------------
(* Templates: Box(int), and Box{...} that infers its argument *)

\* The first entry for the same declaration and the same arguments.
CachedAt(origin, arg, n) ==
    {i \in DOMAIN templates : /\ templates[i].origin = origin
                              /\ templates[i].arg = arg
                              /\ templates[i].n = n}

Instantiation(origin, arg, n) == Desc("template", <<arg>>, <<n>>, <<origin>>, <<>>)

\* sem_resolve_type_application answers from poly_struct_cache
ApplyCached ==
    /\ Ready
    /\ \E origin \in DOMAIN Templates, arg \in Handles, n \in Numbers :
          /\ CachedAt(origin, arg, n) # {}
          /\ Note(Instantiation(origin, arg, n),
                  templates[Min(CachedAt(origin, arg, n))].result)
    /\ UNCHANGED <<reg, templates, build, crashed>>

\* ... returns NULL for an argument that does not resolve
ApplyUnknown ==
    /\ Ready
    /\ NoType

Instantiate(origin, arg, n, asked) ==
    build' = [form |-> Templates[origin].form,
              todo |-> [i \in DOMAIN Templates[origin].fields |->
                          [name |-> Templates[origin].fields[i].name, kid |-> arg,
                           wrap |-> Templates[origin].fields[i].wrap]],
              done |-> <<>>, n |-> n, attrs |-> <<>>, keepNull |-> FALSE, asked |-> asked]

\* ... or resolves the declaration with the parameters bound
ApplyNew ==
    /\ Ready
    /\ \E origin \in DOMAIN Templates, arg \in Handles \ {0}, n \in Numbers :
          /\ CachedAt(origin, arg, n) = {}
          /\ Instantiate(origin, arg, n, Instantiation(origin, arg, n))
    /\ UNCHANGED <<reg, templates, uses, crashed>>

\* sem_infer_poly_struct_type: a literal without arguments skips the cache
InferNew ==
    /\ Ready
    /\ \E origin \in DOMAIN Templates, arg \in Handles \ {0} :
          /\ Templates[origin].form = "struct"
          /\ Instantiate(origin, arg, Min(Numbers), Desc("literal", <<arg>>, <<>>, <<origin>>, <<>>))
    /\ UNCHANGED <<reg, templates, uses, crashed>>

\* The resolver of the declaration ends; a result is cached while there is room.
FinishTemplate ==
    /\ ~crashed
    /\ build.form \in {"struct", "union", "enum"}
    /\ build.todo = <<>>
    /\ build' = NoBuild
    /\ LET empty == build.done = <<>> /\ build.form # "enum"
           r     == IF empty THEN [reg |-> reg, got |-> 0] ELSE GetOrCreate(reg, BuiltDesc)
           d     == build.asked
           entry == [origin |-> d.names[1], arg |-> d.kids[1], n |-> build.n, result |-> r.got]
       IN  /\ reg' = r.reg
           /\ Note(d, r.got)
           /\ templates' = IF d.kind = "template" /\ r.got # 0 /\ Len(templates) < MaxTemplates
                           THEN Append(templates, entry) ELSE templates
    /\ UNCHANGED crashed

-----------------------------------------------------------------------------
(* Procedures and bundles *)

SeqOrNone(k) == IF k = 0 THEN <<>> ELSE <<k>>

\* sem_resolve_proc_sig_type: a type that does not resolve is left out; a
\* variadic parameter ..T is a slice; named returns are passed, not forced.
ResolveProcType ==
    /\ Ready
    /\ \E p, ret \in Handles, variadic \in {0, 1}, cc \in {0, 1}, named \in {<<>>, <<"r">>} :
          LET s == IF variadic = 1 /\ p # 0 THEN Wrapped(reg, p, "slice", 0)
                   ELSE [reg |-> reg, got |-> p]
              list  == IF named = <<>> \/ ret = 0 THEN 0 ELSE 1
              attrs == IF ret = 0 THEN <<>> ELSE named
              d == ProcType(SeqOrNone(s.got), SeqOrNone(ret), variadic, cc, list, attrs)
          IN  /\ cc = 1 => variadic = 0 /\ named = <<>>
              /\ Gives(Shape(d), GetOrCreateProc(s.reg, d, FALSE))

\* sem_resolve_procedure_signature of a procedure literal: defaults or named
\* returns force a descriptor of its own, into which the defaults are written.
DeclareProc ==
    /\ Ready
    /\ \E p, ret \in Handles, default \in {<<>>, <<"d">>, <<"e">>} :
          LET attrs == IF p = 0 THEN <<>> ELSE default
              d == ProcType(SeqOrNone(p), SeqOrNone(ret), 0, 0, 0, attrs)
          IN  Gives(d, GetOrCreateProc(reg, d, attrs # <<>>))

\* get_or_create_overload_bundle_type for procedures resolved before
DeclareBundle ==
    /\ Ready
    /\ \E k \in Handles \ {0}, s \in Symbols :
          /\ reg[k].kind = "proc"
          /\ Request(OverloadBundleType(k, s))

-----------------------------------------------------------------------------

Next ==
    \/ ResolvePointer \/ ResolveSlice \/ ResolveMultiPointer
    \/ ResolveDynamicArray \/ ResolveMaybe \/ ResolveDistinct
    \/ ResolveArray \/ ResolveMap \/ ResolveTuple \/ ResolveVector
    \/ ResolveMatrix \/ ResolveRange \/ ResolveBitField
    \/ ResolveBitSet \/ ResolveBitSetRange \/ ResolveEnum
    \/ ResolveStruct \/ ResolveUnion
    \/ BeginSoa \/ BeginSoaStruct \/ SoaOfOther \/ BuildField \/ FinishSoa
    \/ ApplyCached \/ ApplyUnknown \/ ApplyNew \/ InferNew \/ FinishTemplate
    \/ ResolveProcType \/ DeclareProc \/ DeclareBundle

Spec == Init /\ [][Next]_vars

-----------------------------------------------------------------------------
(* What the types are used for *)

\* sem_types_assignable and sem_check_assignment, for an expression that is
\* neither a literal nor an auto_cast: is the assignment refused?
TypesAssignable(src, dst) == src = dst

AssignmentRefused(target, src) ==
    /\ target # 0 /\ src # 0
    /\ reg[target].kind = "distinct" \/ reg[src].kind = "distinct"
    /\ ~TypesAssignable(src, target)

\* sem_evaluate_postfix_op_assertion: the member that u.(T) selects, 0 if none
AssertedMember(u, t) ==
    LET equal == {f \in DOMAIN reg[u].kids :
                     reg[reg[u].kids[f]].type_id = reg[t].type_id}
    IN  IF equal = {} THEN 0 ELSE Min(equal)

-----------------------------------------------------------------------------
(* Properties *)

\* The registry and the uses refer only to descriptors made earlier, and the
\* registry never grows past MAX_TYPES.
TypeOK ==
    /\ Len(Start) <= Len(reg) /\ Len(reg) <= MaxTypes
    /\ \A i \in DOMAIN reg : Range(reg[i].kids) \subseteq 1 .. i - 1
    /\ \A i \in DOMAIN uses : uses[i].got \in 0 .. Len(reg)
    /\ Len(templates) <= MaxTemplates
    /\ \A i \in DOMAIN templates : templates[i].result \in 1 .. Len(reg)
    /\ crashed \in BOOLEAN

\* The two descriptors of one basic type
Copies(i, j) ==
    /\ i <= Len(Basics) /\ j <= Len(Basics)
    /\ Basics[i].name = Basics[j].name /\ Basics[i].listed # Basics[j].listed

\* No type has two descriptors but the basic types that are registered twice:
\* get_or_create_* finds what an earlier call, made for whatever reason, has
\* created.  The exceptions are the kinds that are meant to be new every time,
\* and procedures forced to be unique.  (A type over one copy of a basic type
\* is another type than one over the other copy.)
Interned ==
    \A j \in DOMAIN reg :
        (reg[j].kind \in Fresh \/ (reg[j].kind = "proc" /\ reg[j].attrs # <<>>))
            \/ \A i \in 1 .. j - 1 : Alike(reg[i], reg[j]) => Copies(i, j)

\* In registry r, is w the type that a field of type k is wrapped into?
IsWrapped(r, w, k, wrap, n) ==
    CASE wrap = "plain" -> w = k
      [] wrap = "slice" -> r[w].kind = "slice" /\ r[w].kids = <<k>>
      [] wrap = "array" -> r[w].kind = "array" /\ r[w].kids = <<k>> /\ r[w].nums = <<n>>

\* In registry r, does descriptor i describe what d asks for?
Means(r, d, i) ==
    CASE d.kind = "soa" ->
           LET s == r[d.kids[1]]
           IN  /\ r[i].kind = "soa" /\ r[i].names = s.names
               /\ Len(r[i].kids) = Len(s.kids)
               /\ \A f \in DOMAIN s.kids :
                     IsWrapped(r, r[i].kids[f], s.kids[f], d.names[1], d.nums[1])
      [] d.kind = "soa_struct" ->
           /\ r[i].kind = "soa" /\ r[i].names = d.names
           /\ Len(r[i].kids) = 1
           /\ IsWrapped(r, r[i].kids[1], d.kids[1], "slice", 0)
      [] d.kind \in {"template", "literal"} ->
           LET t == Templates[d.names[1]]
               n == IF d.nums = <<>> THEN Min(Numbers) ELSE d.nums[1]
           IN  /\ r[i].kind = t.form
               /\ Len(r[i].kids) = Len(t.fields)
               /\ \A f \in DOMAIN t.fields :
                     /\ r[i].names[f] = t.fields[f].name
                     /\ IsWrapped(r, r[i].kids[f], d.kids[1], t.fields[f].wrap, n)
      [] OTHER ->
           /\ Shape(r[i]) = Shape(d)
           /\ (d.kind = "proc" /\ d.attrs # <<>>) => r[i].attrs = d.attrs

\* A descriptor that an expression was resolved to describes that expression,
\* at every later time: children, counts, field names and the types wrapped
\* around the fields of #soa types and templates are those asked for, and a
\* procedure declared with default values keeps its own.  (In a full registry
\* the fields that need a new type are dropped.)
MeansWhatWasAsked ==
    \A i \in DOMAIN uses :
        (/\ uses[i].got # 0
         /\ 0 \notin Range(uses[i].asked.kids)
         /\ Len(reg) < MaxTypes) => Means(reg, uses[i].asked, uses[i].got)

\* The types whose canonical name says all there is to say.
Structural ==
    LET pure[i \in DOMAIN reg] ==
            /\ reg[i].kind \notin Fresh \cup {"proc", "bundle", "soa"}
            /\ \A k \in Range(reg[i].kids) : pure[k]
    IN  {i \in DOMAIN reg : pure[i]}

\* One descriptor, or two that differ only in which copy of a basic type they
\* are, at some depth, built from
SameType ==
    LET same[p \in (DOMAIN reg) \X (DOMAIN reg)] ==
            LET x == reg[p[1]]
                y == reg[p[2]]
            IN  \/ p[1] = p[2]
                \/ Copies(p[1], p[2])
                \/ /\ x.kind = y.kind /\ x.nums = y.nums /\ x.names = y.names
                   /\ Len(x.kids) = Len(y.kids) /\ x.kids # y.kids
                   /\ \A k \in DOMAIN x.kids : same[<<x.kids[k], y.kids[k]>>]
    IN  same

\* u.(T) selects a member of the union that has type T and no other: type_id,
\* by which members are compared, tells structural types apart at any depth,
\* and does not tell the copies of a basic type apart.
AssertionFindsMember ==
    \A u \in DOMAIN reg : reg[u].kind = "union" =>
        \A t \in Structural :
            LET f == AssertedMember(u, t)
            IN  IF \E k \in Range(reg[u].kids) : SameType[<<k, t>>]
                THEN f # 0 /\ SameType[<<reg[u].kids[f], t>>]
                ELSE f = 0

\* A value of a distinct type is never assigned to its base type or to
\* another distinct type of the same base.
DistinctKeptApart ==
    \A i \in DOMAIN uses :
        (uses[i].asked.kind = "distinct" /\ uses[i].got # 0) =>
            /\ AssignmentRefused(uses[i].asked.kids[1], uses[i].got)
            /\ \A j \in DOMAIN uses :
                 (j # i /\ uses[j].asked = uses[i].asked /\ uses[j].got # 0) =>
                    AssignmentRefused(uses[j].got, uses[i].got)

\* A procedure declared without default values has none: descriptors with
\* defaults are forced to be unique so as not to be shared with procedures
\* of the same signature (semantic_analyser.c, comment on force_unique).
DefaultsNotShared ==
    \A i \in DOMAIN uses :
        (uses[i].asked.kind = "proc" /\ uses[i].asked.attrs = <<>> /\ uses[i].got # 0) =>
            reg[uses[i].got].attrs \notin {<<"d">>, <<"e">>}

=============================================================================
