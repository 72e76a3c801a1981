------------------------------ MODULE DirParse ------------------------------
(***************************************************************************)
(* Compiling a directory as one package: the thread pool of main.c (one    *)
(* parser and one thread per file, joined in order), the sequential loop   *)
(* of parse_imported_directory, and merge_program_asts, which moves the    *)
(* children of every file into one tree and may fail half way.             *)
(***************************************************************************)
EXTENDS Naturals, Sequences

CONSTANTS Names, Plain, Dirs

FileType == [parses : BOOLEAN, kids : Seq(Names \cup {Plain})]

ASSUME DirParseAssumption ==
  /\ Plain \notin Names
  /\ Dirs \subseteq Seq(FileType) \ {<<>>}

VARIABLES
  dir,      \* the .odin files of the directory, in readdir order
  mode,     \* "program": main.c, with threads; "import": parse_imported_directory
  pc,       \* where the main thread is
  i,        \* its loop variable over the files
  j,        \* merge_program_asts: the child of file i it is at
  thread,   \* threads[], and whether the thread has ended
  result,   \* jobs[f].result / parsed_files[f] # NULL
  parseOk,  \* parse_ok
  merged,   \* merged_ext->list, as <<file, child>> pairs
  seen,     \* seen_pkg_name, as a set of at most one name
  attached, \* files whose ExternalDeclarations still lists its children
  frees,    \* how often each node was freed
  jobsFreed \* free(jobs) was called

vars == <<dir, mode, pc, i, j, thread, result, parseOk, merged, seen, attached, frees, jobsFreed>>

Files   == 1 .. Len(dir)
Kids(f) == dir[f].kids
Nodes   == UNION {{<<f, k>> : k \in DOMAIN Kids(f)} : f \in Files}

Init ==
  /\ dir \in Dirs
  /\ mode \in {"program", "import"}
  /\ pc = IF mode = "program" THEN "create" ELSE "parse"
  /\ i = 1 /\ j = 1
  /\ thread = [f \in Files |-> "none"] /\ result = [f \in Files |-> FALSE]
  /\ parseOk = TRUE
  /\ merged = <<>> /\ seen = {}
  /\ attached = Files
  /\ frees = [n \in Nodes |-> 0]
  /\ jobsFreed = FALSE

RunsPastEnd(here, after) ==
  IF i <= Len(dir) THEN i' = i + 1 /\ pc' = here ELSE i' = 1 /\ pc' = after
\* The main thread's loop moves to the next file, or on to `after'.
NextFile(here, after) ==
  IF i < Len(dir) THEN i' = i + 1 /\ pc' = here ELSE i' = 1 /\ pc' = after

\* The creation loop.  Without a parser (or when pthread_create fails, whose
\* result is not looked at) there is no thread and no result.
CreateJob ==
  /\ pc = "create"
  /\ \E started \in BOOLEAN : thread' = IF started THEN [thread EXCEPT ![i] = "running"] ELSE thread
  /\ NextFile("create", "join")
  /\ UNCHANGED <<dir, mode, j, result, parseOk, merged, seen, attached, frees, jobsFreed>>

\* parse_job_thread: parse_source_file, and the thread ends.
ParseJob(f) ==
  /\ thread[f] = "running" /\ pc # "crashed"
  /\ thread' = [thread EXCEPT ![f] = "exited"]
  /\ result' = [result EXCEPT ![f] = dir[f].parses]
  /\ UNCHANGED <<dir, mode, pc, i, j, parseOk, merged, seen, attached, frees, jobsFreed>>

DoesNotWait ==
  /\ pc = "join" /\ thread[i] # "none"
  /\ parseOk' = (parseOk /\ result[i])
  /\ NextFile("join", IF parseOk' THEN "merge" ELSE "cleanup")
  /\ UNCHANGED <<dir, mode, j, thread, result, merged, seen, attached, frees, jobsFreed>>
\* pthread_join waits for the thread to end.
Join ==
  /\ pc = "join" /\ thread[i] = "exited"
  /\ parseOk' = (parseOk /\ result[i])
  /\ NextFile("join", IF parseOk' THEN "merge" ELSE "cleanup")
  /\ UNCHANGED <<dir, mode, j, thread, result, merged, seen, attached, frees, jobsFreed>>

\* pthread_join of a pthread_t that was never written (zero, from calloc) is
\* undefined: it returns an error, or the process dies.
JoinNothing ==
  /\ pc = "join" /\ thread[i] = "none"
  /\ parseOk' = FALSE
  /\ NextFile("join", "cleanup") \/ (pc' = "crashed" /\ i' = i)
  /\ UNCHANGED <<dir, mode, j, thread, result, merged, seen, attached, frees, jobsFreed>>

\* The loop of parse_imported_directory stops at the first failure.
ParseNext ==
  /\ pc = "parse"
  /\ result' = [result EXCEPT ![i] = dir[i].parses]
  /\ parseOk' = dir[i].parses
  /\ IF parseOk' THEN NextFile("parse", "merge") ELSE pc' = "cleanup" /\ i' = i
  /\ UNCHANGED <<dir, mode, j, thread, merged, seen, attached, frees, jobsFreed>>

-----------------------------------------------------------------------------
(* merge_program_asts                                                      *)

AtKid    == pc = "merge" /\ j <= Len(Kids(i))
Kid      == Kids(i)[j]
MoveKid  == merged' = Append(merged, <<i, j>>)

\* An import, a declaration, a directive: moved.
MergeDecl ==
  /\ AtKid /\ Kid = Plain
  /\ MoveKid /\ j' = j + 1
  /\ UNCHANGED <<dir, mode, pc, i, thread, result, parseOk, seen, attached, frees, jobsFreed>>

\* The first package clause is moved, and its name remembered.
MergeFirstClause ==
  /\ AtKid /\ Kid \in Names /\ seen = {}
  /\ MoveKid /\ j' = j + 1
  /\ seen' = {Kid}
  /\ UNCHANGED <<dir, mode, pc, i, thread, result, parseOk, attached, frees, jobsFreed>>

SkipsAnyClause ==
  /\ AtKid /\ Kid \in Names /\ seen # {}
  /\ j' = j + 1
  /\ UNCHANGED <<dir, mode, pc, i, thread, result, parseOk, merged, seen, attached, frees, jobsFreed>>
\* A further clause of the same name is skipped; nothing owns it any more.
MergeSameClause ==
  /\ AtKid /\ Kid \in seen
  /\ j' = j + 1
  /\ UNCHANGED <<dir, mode, pc, i, thread, result, parseOk, merged, seen, attached, frees, jobsFreed>>

FreeNodes(S) == frees' = [n \in Nodes |-> frees[n] + IF n \in S THEN 1 ELSE 0]

LeaksMerged ==
  /\ AtKid /\ Kid \in Names /\ seen # {} /\ Kid \notin seen
  /\ pc' = "cleanup"
  /\ UNCHANGED <<dir, mode, i, j, thread, result, parseOk, merged, seen, attached, frees, jobsFreed>>
\* A clause of another name: the merged tree is freed and the merge fails.
\* The children of file i moved so far are still listed by file i as well.
MergeMismatch ==
  /\ AtKid /\ Kid \in Names /\ seen # {} /\ Kid \notin seen
  /\ FreeNodes({merged[k] : k \in DOMAIN merged})
  /\ pc' = "cleanup"
  /\ UNCHANGED <<dir, mode, i, j, thread, result, parseOk, merged, seen, attached, jobsFreed>>

StaysAttached ==
  /\ pc = "merge" /\ j > Len(Kids(i))
  /\ j' = 1
  /\ NextFile("merge", "release")
  /\ UNCHANGED <<dir, mode, thread, result, parseOk, merged, seen, attached, frees, jobsFreed>>
\* Detach the children from the file.
MergeEndOfFile ==
  /\ pc = "merge" /\ j > Len(Kids(i))
  /\ attached' = attached \ {i} /\ j' = 1
  /\ NextFile("merge", "release")
  /\ UNCHANGED <<dir, mode, thread, result, parseOk, merged, seen, frees, jobsFreed>>

-----------------------------------------------------------------------------
\* parsed_file_free of every file that has been parsed: the nodes it lists.
Listed == {n \in Nodes : n[1] \in attached /\ result[n[1]]}

\* The exit path after a parse or merge failure.
Cleanup ==
  /\ pc = "cleanup"
  /\ FreeNodes(Listed)
  /\ pc' = "failed" /\ jobsFreed' = TRUE
  /\ UNCHANGED <<dir, mode, i, j, thread, result, parseOk, merged, seen, attached>>

\* Success: the merged tree owns the children, the parsed files are freed.
Release ==
  /\ pc = "release"
  /\ FreeNodes(Listed)
  /\ pc' = "ok" /\ jobsFreed' = TRUE
  /\ UNCHANGED <<dir, mode, i, j, thread, result, parseOk, merged, seen, attached>>

MainThread ==
  \/ CreateJob \/ Join \/ JoinNothing \/ ParseNext
  \/ MergeDecl \/ MergeFirstClause \/ MergeSameClause \/ MergeMismatch \/ MergeEndOfFile
  \/ Cleanup \/ Release

Next == MainThread \/ \E f \in Files : ParseJob(f)

\* The threads are scheduled by the operating system.
Spec ==
  /\ Init /\ [][Next]_vars
  /\ WF_vars(MainThread)
  /\ WF_vars(\E f \in Files : ParseJob(f))

-----------------------------------------------------------------------------
(* Properties.                                                             *)

\* Types of the loops' state; the loop variable never runs past the files.
TypeOK ==
  /\ dir \in Seq(FileType) /\ dir # <<>>
  /\ mode \in {"program", "import"}
  /\ pc \in {"create", "join", "parse", "merge", "cleanup", "release", "ok", "failed", "crashed"}
  /\ i \in Files /\ j \in Nat
  /\ thread \in [Files -> {"none", "running", "exited"}]
  /\ result \in [Files -> BOOLEAN]
  /\ parseOk \in BOOLEAN
  /\ merged \in Seq(Nodes)
  /\ seen \in SUBSET Names
  /\ attached \in SUBSET Files
  /\ frees \in [Nodes -> Nat]
  /\ jobsFreed \in BOOLEAN

\* From the merge or the cleanup on no parse thread runs any more, so none
\* writes to jobs[] after it was freed, and no result changes under the
\* merge, also when an earlier file failed or a thread was never created.
NoThreadOutlivesJobs ==
  pc \in {"merge", "cleanup", "release", "ok", "failed"} =>
    \A f \in Files : thread[f] # "running"

Before(n, p) == n[1] < p[1] \/ (n[1] = p[1] /\ n[2] < p[2])
IsClause(n)  == Kids(n[1])[n[2]] \in Names
LaterClause(n) == IsClause(n) /\ \E p \in Nodes : IsClause(p) /\ Before(p, n)

\* A failed compilation frees each node of each parsed file, the ones already
\* moved to the merged tree too, except clauses skipped in detached files.
FailureFreesAll ==
  pc = "failed" =>
    \A n \in Nodes : result[n[1]] /\ frees[n] = 0 => n[1] \notin attached /\ LaterClause(n)

ClauseFirst == \A n \in Nodes : IsClause(n) => n[2] = 1

\* No node is freed twice when every file starts with its only package
\* clause: the merge fails before it has moved anything of that file.
FreedOnceWhenClauseFirst ==
  ClauseFirst => \A n \in Nodes : frees[n] <= 1

Package == INSTANCE PackageMerge WITH
  answer <- CASE pc = "ok" -> <<"package", merged>>
              [] pc \in {"failed", "crashed"} -> <<"failed">>
              [] OTHER -> <<"none">>

\* Threads, sequential loop and merge implement the one-step directory
\* package, and always answer.
IsOnePackage == Package!Spec

=============================================================================
