-------------------------- MODULE MCPackageImports --------------------------
(***************************************************************************)
(* Small programs for PackageImports: the main program, two packages a and *)
(* b that may import each other (or the main program), and the preludes.   *)
(***************************************************************************)
EXTENDS PackageImports, TLC

CONSTANTS m, a, b, rt, in,            \* files
          M, A, B, RT, INTR, X,         \* package names and an alias
          f, g                        \* identifiers

Imp(op, path)  == [op |-> op, path |-> path, alias |-> X]
Use(pkg, id)   == [pkg |-> pkg, id |-> id]
Proc(id, p, r) == [op |-> "proc", id |-> id, priv |-> p, ref |-> r]
Const(id, r)   == [op |-> "const", id |-> id, priv |-> FALSE, ref |-> r]
Var(id, r)     == [op |-> "var", id |-> id, ref |-> r]
Group(id, cs)  == [op |-> "group", id |-> id, priv |-> FALSE, cands |-> cs]
Source(name, ig, ok, ds) == [clause |-> name, ignore |-> ig, parses |-> ok, decls |-> ds]
Plain(name, ds) == Source(name, FALSE, TRUE, ds)

Program(dm, da, db, dr) ==
  (m :> Plain(M, dm)) @@ (a :> Plain(A, da)) @@ (b :> Plain(B, db))
    @@ (rt :> Plain(RT, dr)) @@ (in :> Plain(INTR, <<>>))

\* Who imports whom, and how: cycles, diamonds, self-imports, missing paths.
ImportsOf(paths) == {Imp(op, p) : op \in ImportOps, p \in paths}
Graphs ==
  {Program(dm \o <<Proc(g, FALSE, NoRef)>>, da \o <<Proc(f, pa, NoRef)>>, db \o <<Proc(f, FALSE, NoRef)>>, dr) :
     dm \in {<<i>> : i \in ImportsOf({a, Missing})} \cup {<<i, j>> : i \in ImportsOf({a}), j \in ImportsOf({b})},
     da \in {<<>>} \cup {<<i>> : i \in ImportsOf({b}) \cup {Imp("import", a), Imp("using", m)}},
     db \in {<<>>} \cup {<<i>> : i \in ImportsOf({a}) \cup {Imp("import", Missing)}},
     pa \in BOOLEAN,
     dr \in {<<>>, <<Imp("import", b)>>}}

\* What is declared, shadowed, grouped and referred to, under and over a
\* using import.
Declarations ==
  {Program(<<Imp(op, a)>> \o own \o <<Proc(g, FALSE, r)>>, da, <<Proc(f, pb, NoRef)>>, dr) :
     op \in ImportOps,
     own \in {<<>>, <<Proc(f, FALSE, NoRef)>>, <<Const(f, NoRef)>>, <<Var(f, NoRef)>>},
     r \in {NoRef, Use(NoName, f), Use(A, f), Use(X, f), Use(B, f), Use(RT, f)},
     da \in {<<Proc(f, TRUE, NoRef)>>, <<Var(f, NoRef)>>, <<Proc(f, FALSE, Use(NoName, g)), Proc(g, TRUE, NoRef)>>,
             <<Imp("using", b)>>, <<Imp("using", b), Var(f, NoRef)>>, <<Imp("using", b), Group(g, {f})>>,
             <<Group(g, {f}), Imp("using", b), Proc(f, FALSE, NoRef)>>, <<Group(f, {g})>>},
     pb \in BOOLEAN,
     dr \in {<<>>, <<Proc(f, FALSE, NoRef)>>, <<Group(g, {f}), Imp("import", b), Proc(f, FALSE, NoRef)>>}}

\* Build-ignored files and files that do not parse.
Blemished ==
  LET base == {Program(<<Imp(op, a), Imp("import", b), Proc(g, FALSE, r)>>, <<Imp(op, b), Proc(f, FALSE, NoRef)>>,
                       <<Proc(f, FALSE, NoRef)>>, <<>>) :
                 op \in ImportOps, r \in {NoRef, Use(A, f), Use(B, f), Use(X, f)}}
  IN  {[p EXCEPT ![x].ignore = TRUE] : p \in base, x \in {m, a, b, rt}}
        \cup {[p EXCEPT ![x].parses = FALSE] : p \in base, x \in {a, b, rt, in}}

MCFiles == {m, a, b, rt, in}
MCNames == {M, A, B, RT, INTR, X}
MCIds   == {f, g}
MCPrograms == Graphs \cup Declarations \cup Blemished
=============================================================================
