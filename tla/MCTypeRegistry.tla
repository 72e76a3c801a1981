--------------------------- MODULE MCTypeRegistry ---------------------------
(* Small programs of type expressions, over the basic types and both       *)
(* descriptors of one of them.                                             *)
EXTENDS TypeRegistry

B(name, width, float, listed) == [name |-> name, width |-> width, float |-> float, listed |-> listed]

\* In the code's order, i64 twice
MCBasics == <<B("i64", 64, FALSE, FALSE), B("rawptr", 64, FALSE, TRUE), B("int", 64, FALSE, TRUE),
              B("i64", 64, FALSE, TRUE), B("u8", 8, FALSE, TRUE), B("string", 128, FALSE, TRUE)>>

\* The copy the analyser uses and the one the name i64 has
MCNamed == {1, 4}

\* Bound: only the last expression of a program is directly over the hidden
\* copy.  The copies differ only in their places, so either may come last.
OverHidden == {k \in DOMAIN uses : 1 \in Range(uses[k].asked.kids)}
HiddenLast == OverHidden = {}

MCTemplates == [Box  |-> [form |-> "struct", fields |-> <<[name |-> "a", wrap |-> "slice"]>>],
                Opt  |-> [form |-> "union",  fields |-> <<[name |-> "a", wrap |-> "plain"],
                                                          [name |-> "b", wrap |-> "array"]>>],
                Kind |-> [form |-> "enum",   fields |-> <<>>]]
=============================================================================
