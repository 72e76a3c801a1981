-------------------------- MODULE MCImportCodegen --------------------------
(***************************************************************************)
(* Programs for ImportCodegen: chains and diamonds of imports whose        *)
(* procedures, variables and constants refer to each other across          *)
(* packages.                                                               *)
(***************************************************************************)
EXTENDS ImportCodegen, TLC

CONSTANTS m, a, b, rt, in, M, A, B, RT, INTR, X, f, g

Imp(op, path)  == [op |-> op, path |-> path, alias |-> X]
Use(pkg, id)   == [pkg |-> pkg, id |-> id]
Decl1(op, id, r) == IF op = "var" THEN [op |-> op, id |-> id, ref |-> r]
                                  ELSE [op |-> op, id |-> id, priv |-> FALSE, ref |-> r]
Source(name, ig, ds) == [clause |-> name, ignore |-> ig, parses |-> TRUE, decls |-> ds]

\* m imports a and perhaps b, a imports b; f of b, f of a refers to it, g of
\* m refers to either; `sh' is a declaration of m that may hide an import.
Chains ==
  {(m :> Source(M, FALSE, im \o sh \o <<Decl1("proc", g, rm)>>))
     @@ (a :> Source(A, ig, <<Imp(oa, b), Decl1("proc", g, ra)>>))
     @@ (b :> Source(B, FALSE, <<Decl1(kb, f, NoRef)>>))
     @@ (rt :> Source(RT, FALSE, dr)) @@ (in :> Source(INTR, FALSE, <<>>)) :
       im \in {<<Imp(o, a)>> : o \in ImportOps} \cup {<<Imp("import", a), Imp(o, b)>> : o \in ImportOps},
       sh \in {<<>>, <<Decl1("proc", f, NoRef)>>, <<Decl1("var", f, Use(A, g))>>},
       rm \in {NoRef, Use(NoName, f), Use(A, g), Use(B, f), Use(X, f), Use(RT, f)},
       ig \in BOOLEAN,
       oa \in {"import", "using"},
       ra \in {Use(B, f), Use(NoName, g)},
       kb \in {"proc", "var", "const"},
       dr \in {<<>>, <<Decl1("proc", f, NoRef)>>}}

\* A build-ignored main program still gets its imports' code generated.
IgnoredMainFile ==
  {[p EXCEPT ![m].ignore = TRUE] : p \in {q \in Chains : q[m].decls[1].op = "import" /\ ~ q[a].ignore}}

MCFiles == {m, a, b, rt, in}
MCNames == {M, A, B, RT, INTR, X}
MCIds   == {f, g}
MCPrograms == Chains \cup IgnoredMainFile
=============================================================================
