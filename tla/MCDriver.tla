------------------------------ MODULE MCDriver ------------------------------
(* Two compilers at once, that share file names or do not.                 *)
EXTENDS Driver, TLC

CONSTANTS p, q, earlier

Job(cmd, path, isDir, out, keep) == [cmd |-> cmd, path |-> path, isDir |-> isDir, out |-> out, keep |-> keep]
File(cmd, path, keep) == Job(cmd, path, FALSE, <<>>, keep)
Dir(cmd, path) == Job(cmd, path, TRUE, <<>>, FALSE)

\* Every command.  Files of one name in two directories share the files of
\* `run' under /tmp; a.odin and the directory a/ have results of their own; a
\* file without an extension in a directory whose name has a dot, -o naming
\* another's executable or .ll file.
Jobs ==
  {File(c, <<"a", ".", "odin">>, k) : c \in {"build", "run"}, k \in BOOLEAN}
    \cup {File("run", <<"src", "/", "a", ".", "odin">>, FALSE), File("check", <<"a", ".", "odin">>, FALSE),
          File("run", <<"b", ".", "odin">>, FALSE), File("build", <<"b", ".", "odin">>, TRUE),
          File("build", <<"v", ".", "1", "/", "main">>, FALSE), File("build", <<"v", ".", "1", "/", "tool">>, FALSE),
          Dir("build", <<"a">>), Dir("build", <<"a", "/", "/">>), Dir("run", <<"src", "/", "a", "/">>),
          Job("build", <<"b", ".", "odin">>, FALSE, <<"a">>, FALSE),
          Job("build", <<"b", ".", "odin">>, FALSE, <<"a", ".", "ll">>, FALSE)}
MCProcs    == {p, q}
MCCommands == {[x \in MCProcs |-> IF x = p THEN a ELSE b] : a \in Jobs, b \in Jobs}
Pairs      == Permutations(MCProcs)
=============================================================================
