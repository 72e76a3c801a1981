----------------------------- MODULE MCDirParse -----------------------------
(* Directories of up to MaxFiles files with up to MaxKids nodes each.      *)
EXTENDS DirParse

CONSTANTS P, Q, MaxFiles, MaxKids

MCNames == {P, Q}
UpTo(n, S) == UNION {[1 .. k -> S] : k \in 1 .. n}
MCFile  == [parses : {TRUE}, kids : UpTo(MaxKids, MCNames \cup {Plain})]
             \cup {[parses |-> FALSE, kids |-> <<Plain>>]}
MCDirs  == UpTo(MaxFiles, MCFile)
=============================================================================
