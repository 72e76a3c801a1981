---------------------------- MODULE PackageMerge ----------------------------
(***************************************************************************)
(* What compiling a directory promises: the files of a directory are one   *)
(* package.  In one step the directory either fails or becomes the list of *)
(* its top-level nodes, in the order of the files and of their text, with  *)
(* the first package clause only; it becomes a package only when every     *)
(* file parses and all package clauses agree.                              *)
(***************************************************************************)
EXTENDS Naturals, Sequences

CONSTANTS
  Names,   \* names a package clause can give
  Plain,   \* a top-level node that is not a package clause
  Dirs     \* directories: sequences of [parses, kids] records

VARIABLES
  dir,     \* the directory being compiled
  answer   \* "none" so far, "failed", or the nodes of the package

\* A node is named by its file and its place there.
NodesOf(d)      == UNION {{<<f, k>> : k \in DOMAIN d[f].kids} : f \in DOMAIN d}
IsClause(d, n)  == d[n[1]].kids[n[2]] \in Names
Before(n, p)    == n[1] < p[1] \/ (n[1] = p[1] /\ n[2] < p[2])
LaterClause(d, n) == IsClause(d, n) /\ \E p \in NodesOf(d) : IsClause(d, p) /\ Before(p, n)
Kept(d)         == {n \in NodesOf(d) : ~ LaterClause(d, n)}

Acceptable(d) ==
  /\ \A f \in DOMAIN d : d[f].parses
  /\ \A n, p \in NodesOf(d) : IsClause(d, n) /\ IsClause(d, p) => d[n[1]].kids[n[2]] = d[p[1]].kids[p[2]]

\* s lists exactly the nodes in S, in order.
Lists(s, S) ==
  /\ {s[k] : k \in DOMAIN s} = S
  /\ \A j, k \in DOMAIN s : j < k => Before(s[j], s[k])

Init == dir \in Dirs /\ answer = <<"none">>
Fail == answer = <<"none">> /\ answer' = <<"failed">> /\ UNCHANGED dir
Accept ==
  /\ answer = <<"none">> /\ Acceptable(dir)
  /\ answer'[1] = "package" /\ Lists(answer'[2], Kept(dir)) /\ Len(answer') = 2
  /\ UNCHANGED dir
Next == Fail \/ Accept
Safety == Init /\ [][Next]_<<dir, answer>>
Spec == Safety /\ <>(answer # <<"none">>)
=============================================================================
