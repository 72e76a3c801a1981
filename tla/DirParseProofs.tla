--------------------------- MODULE DirParseProofs ---------------------------
(***************************************************************************)
(* Theorems about DirParse, for every directory: the parse threads have    *)
(* ended before their results are merged or freed, a failed merge frees    *)
(* every node and, if clauses come first, frees it once, and what the      *)
(* threads, the loops and the merge make together is PackageMerge.         *)
(***************************************************************************)
EXTENDS DirParse, TLAPS

-----------------------------------------------------------------------------
(* The inductive invariant                                                 *)

\* The merge has begun: it, or what follows it without a parse failure.
Merging == parseOk /\ pc \in {"merge", "cleanup", "failed"}
Merged  == pc \in {"release", "ok"}

\* The nodes the merge has gone past.
Walked == {n \in Nodes : Merged \/ (Merging /\ Before(n, <<i, j>>))}

\* Where the main thread is in creating, joining and parsing, and what it
\* knows of the threads then.
ParseInv ==
  /\ mode = "import" => \A f \in Files : thread[f] = "none"
  /\ pc \in {"create", "join", "crashed"} => mode = "program"
  /\ pc = "parse" => mode = "import"
  /\ pc \in {"create", "parse", "merge", "release", "ok"} => parseOk
  /\ pc = "create" => \A f \in Files : f >= i => thread[f] = "none"
  /\ pc = "join" => \A f \in Files : f < i => thread[f] # "running"
  /\ \A f \in Files : thread[f] = "exited" => result[f] = dir[f].parses
  /\ \A f \in Files : result[f] => dir[f].parses
  /\ pc \in {"join", "parse"} /\ parseOk => \A f \in Files : f < i => result[f]
  /\ pc \in {"join", "parse"} /\ parseOk => \A f \in Files : f < i => thread[f] # "running"
  /\ Merging \/ Merged => \A f \in Files : result[f]

\* The merged tree lists what was walked past, but for later clauses, in order;
\* seen holds the one name of the clauses among it.
MergeInv ==
  /\ {merged[k] : k \in DOMAIN merged} = {n \in Walked : ~ LaterClause(n)}
  /\ \A k, l \in DOMAIN merged : k < l => Before(merged[k], merged[l])
  /\ seen = {Kids(n[1])[n[2]] : n \in {p \in Walked : IsClause(p)}}
  /\ \A x, y \in seen : x = y

\* A file lists its children until the merge has gone past its end; the merge
\* fails at a clause.
AttachInv ==
  /\ pc # "merge" /\ ~ Merging => j = 1
  /\ j >= 1
  /\ attached = {f \in Files : ~ Merged /\ (Merging => f >= i)}
  /\ pc \in {"cleanup", "failed"} /\ parseOk => <<i, j>> \in Nodes /\ IsClause(<<i, j>>)

\* What has been freed: by a merge that failed, then by the exit path.
FreeInv ==
  \A n \in Nodes :
    frees[n] = (IF pc \in {"cleanup", "failed"} /\ (\E k \in DOMAIN merged : merged[k] = n) THEN 1 ELSE 0)
             + (IF pc = "failed" /\ n \in Listed THEN 1 ELSE 0)

IInv == TypeOK /\ NoThreadOutlivesJobs /\ ParseInv /\ MergeInv /\ AttachInv /\ FreeInv

-----------------------------------------------------------------------------
(* Nodes and the order of the walk                                         *)

LEMMA NodeForm ==
  ASSUME NEW n
  PROVE  n \in Nodes <=> /\ n = <<n[1], n[2]>>
                         /\ n[1] \in Files /\ n[2] \in DOMAIN Kids(n[1])
  BY DEF Nodes

\* Files and nodes are numbered from 1.
LEMMA NodeTypes ==
  ASSUME TypeOK
  PROVE  /\ Len(dir) \in Nat /\ Len(dir) >= 1
         /\ \A f \in Files : f \in Nat /\ f >= 1 /\ f <= Len(dir)
         /\ \A f \in Nat : f >= 1 /\ f <= Len(dir) => f \in Files
         /\ \A f \in Files : /\ Kids(f) \in Seq(Names \cup {Plain}) /\ Len(Kids(f)) \in Nat
                             /\ DOMAIN Kids(f) = 1 .. Len(Kids(f))
         /\ i \in Nat /\ i >= 1 /\ i <= Len(dir) /\ j \in Nat
  <1>1. Len(dir) \in Nat /\ Len(dir) >= 1 BY DEF TypeOK
  <1>2. \A f \in Files : dir[f] \in FileType BY DEF TypeOK, Files
  <1>3. \A f \in Files : /\ Kids(f) \in Seq(Names \cup {Plain}) /\ Len(Kids(f)) \in Nat
                         /\ DOMAIN Kids(f) = 1 .. Len(Kids(f))
    <2> SUFFICES ASSUME NEW f \in Files
                 PROVE  /\ Kids(f) \in Seq(Names \cup {Plain}) /\ Len(Kids(f)) \in Nat
                        /\ DOMAIN Kids(f) = 1 .. Len(Kids(f))
      OBVIOUS
    <2>1. Kids(f) \in Seq(Names \cup {Plain}) BY <1>2 DEF FileType, Kids
    <2> QED BY <2>1
  <1> QED BY <1>1, <1>3 DEF TypeOK, Files

LEMMA ParsesType == ASSUME TypeOK PROVE \A f \in Files : dir[f].parses \in BOOLEAN
  <1>1. \A f \in Files : dir[f] \in FileType BY DEF TypeOK, Files
  <1> QED BY <1>1 DEF FileType

\* The directory never changes, and so nothing that is said of it.
LEMMA SameDir ==
  ASSUME dir' = dir
  PROVE  /\ Files' = Files /\ Nodes' = Nodes
         /\ \A f : Kids(f)' = Kids(f)
         /\ \A n : IsClause(n)' = IsClause(n)
         /\ \A n : LaterClause(n)' = LaterClause(n)
  BY DEF Files, Nodes, Kids, IsClause, LaterClause

\* The order of the walk is strict and total on nodes.
LEMMA Order ==
  ASSUME TypeOK, NEW n \in Nodes, NEW p \in Nodes
  PROVE  /\ n = p \/ Before(n, p) \/ Before(p, n)
         /\ ~ (Before(n, p) /\ Before(p, n))
         /\ ~ Before(n, n)
  BY NodeForm, NodeTypes DEF Before

LEMMA Transitive ==
  ASSUME TypeOK, NEW n \in Nodes, NEW p \in Nodes, NEW q \in Nodes, Before(n, p), Before(p, q)
  PROVE  Before(n, q)
  BY NodeForm, NodeTypes DEF Before

\* The merge is at a node, and has walked past those before it.
LEMMA AtNode ==
  ASSUME TypeOK, ParseInv, AttachInv, AtKid
  PROVE  /\ <<i, j>> \in Nodes
         /\ Walked = {n \in Nodes : Before(n, <<i, j>>)}
         /\ <<i, j>> \notin Walked
  <1>1. <<i, j>> \in Nodes BY NodeForm, NodeTypes DEF AtKid, AttachInv, TypeOK
  <1>2. Walked = {n \in Nodes : Before(n, <<i, j>>)}
    BY DEF Walked, Merged, Merging, AtKid, ParseInv
  <1> QED BY <1>1, <1>2, Order

\* A step over a node, moved or skipped
LEMMA WalkKid ==
  ASSUME TypeOK, ParseInv, AttachInv, AtKid, j' = j + 1, UNCHANGED <<dir, pc, i, parseOk>>
  PROVE  Walked' = Walked \cup {<<i, j>>}
  <1>1. \A n \in Nodes : Before(n, <<i, j + 1>>) <=> Before(n, <<i, j>>) \/ n = <<i, j>>
    BY NodeForm, NodeTypes DEF Before
  <1>2. Walked' = {n \in Nodes : Before(n, <<i, j + 1>>)}
    BY SameDir DEF Walked, Merged, Merging, AtKid, ParseInv, Before
  <1> QED BY <1>1, <1>2, AtNode

\* The end of a file, the last one too
LEMMA WalkEnd ==
  ASSUME TypeOK, ParseInv, AttachInv, MergeEndOfFile
  PROVE  Walked' = Walked
  <1>1. Walked = {n \in Nodes : Before(n, <<i, j>>)}
    BY DEF Walked, Merged, Merging, MergeEndOfFile, ParseInv
  <1>2. CASE i < Len(dir)
    <2>1. \A n \in Nodes : Before(n, <<i + 1, 1>>) <=> Before(n, <<i, j>>)
      BY NodeForm, NodeTypes DEF Before, MergeEndOfFile
    <2>2. Walked' = {n \in Nodes : Before(n, <<i + 1, 1>>)}
      BY <1>2, SameDir DEF Walked, Merged, Merging, MergeEndOfFile, NextFile, ParseInv, Before
    <2> QED BY <1>1, <2>1, <2>2
  <1>3. CASE ~ (i < Len(dir))
    <2>1. \A n \in Nodes : Before(n, <<i, j>>)
      BY <1>3, NodeForm, NodeTypes DEF Before, MergeEndOfFile
    <2>2. Walked' = Nodes
      BY <1>3, SameDir DEF Walked, Merged, MergeEndOfFile, NextFile
    <2> QED BY <1>1, <2>1, <2>2
  <1> QED BY <1>2, <1>3

\* Until the merge has begun nothing is walked past, as at its very beginning.
LEMMA NotWalked ==
  ASSUME TypeOK, dir' = dir
  PROVE  /\ ~ Merging /\ ~ Merged => Walked = {}
         /\ ~ Merged' /\ (~ Merging' \/ (i' = 1 /\ j' = 1)) => Walked' = {}
  <1>1. \A n \in Nodes : ~ Before(n, <<1, 1>>) BY NodeForm, NodeTypes DEF Before
  <1> QED BY <1>1, SameDir DEF Walked, Before

-----------------------------------------------------------------------------
(* Types                                                                   *)

LEMMA NextFileType ==
  ASSUME TypeOK, NEW here, NEW after, NextFile(here, after)
  PROVE  i' \in Files /\ pc' \in {here, after}
  BY NodeTypes DEF NextFile

LEMMA FreeType == ASSUME TypeOK, NEW S, FreeNodes(S) PROVE frees' \in [Nodes -> Nat]
  BY DEF TypeOK, FreeNodes

LEMMA TypeStep == ASSUME IInv, Next PROVE TypeOK'
  <1> USE DEF IInv
  <1>0. dir' = dir
    BY DEF Next, MainThread, CreateJob, Join, JoinNothing, ParseNext, MergeDecl, MergeFirstClause,
           MergeSameClause, MergeMismatch, MergeEndOfFile, Cleanup, Release, ParseJob
  <1>1. Files' = Files /\ Nodes' = Nodes BY <1>0, SameDir
  <1>2. CASE CreateJob
    BY <1>0, <1>1, <1>2, NextFileType DEF CreateJob, TypeOK
  <1>3. CASE Join
    <2>1. parseOk' \in BOOLEAN BY <1>3 DEF Join
    <2> QED BY <1>0, <1>1, <1>3, <2>1, NextFileType DEF Join, TypeOK
  <1>4. CASE JoinNothing
    BY <1>0, <1>1, <1>4, NextFileType DEF JoinNothing, TypeOK
  <1>5. CASE ParseNext
    <2>1. dir[i].parses \in BOOLEAN BY ParsesType DEF TypeOK
    <2> QED BY <1>0, <1>1, <1>5, <2>1, NextFileType DEF ParseNext, TypeOK
  <1>6. CASE MergeDecl \/ MergeFirstClause \/ MergeSameClause
    <2>1. <<i, j>> \in Nodes BY <1>6, AtNode DEF MergeDecl, MergeFirstClause, MergeSameClause
    <2>2. merged' = merged \/ merged' = Append(merged, <<i, j>>)
      BY <1>6 DEF MergeDecl, MergeFirstClause, MergeSameClause, MoveKid
    <2> merged \in Seq(Nodes) BY DEF TypeOK
    <2>3. merged' \in Seq(Nodes) BY <2>1, <2>2
    <2>4. seen' \in SUBSET Names BY <1>6 DEF MergeDecl, MergeFirstClause, MergeSameClause, TypeOK
    <2> QED BY <1>0, <1>1, <1>6, <2>3, <2>4 DEF MergeDecl, MergeFirstClause, MergeSameClause, TypeOK
  <1>7. CASE MergeMismatch BY <1>0, <1>1, <1>7, FreeType DEF MergeMismatch, TypeOK
  <1>8. CASE MergeEndOfFile BY <1>0, <1>1, <1>8, NextFileType DEF MergeEndOfFile, TypeOK
  <1>9. CASE Cleanup \/ Release BY <1>0, <1>1, <1>9, FreeType DEF Cleanup, Release, TypeOK
  <1>10. ASSUME NEW f \in Files, ParseJob(f) PROVE TypeOK'
    <2>1. dir[f].parses \in BOOLEAN BY ParsesType
    <2> QED BY <1>0, <1>1, <1>10, <2>1 DEF ParseJob, TypeOK
  <1> QED BY <1>2, <1>3, <1>4, <1>5, <1>6, <1>7, <1>8, <1>9, <1>10 DEF Next, MainThread

-----------------------------------------------------------------------------
(* The threads                                                             *)

LEMMA ParseStep == ASSUME IInv, Next PROVE ParseInv' /\ NoThreadOutlivesJobs'
  <1> USE DEF IInv, ParseInv, NoThreadOutlivesJobs, Merging, Merged
  <1>0. dir' = dir /\ mode' = mode
    BY DEF Next, MainThread, CreateJob, Join, JoinNothing, ParseNext, MergeDecl, MergeFirstClause,
           MergeSameClause, MergeMismatch, MergeEndOfFile, Cleanup, Release, ParseJob
  <1>1. Files' = Files BY <1>0, SameDir
  <1>2. CASE CreateJob
    BY <1>0, <1>1, <1>2, NodeTypes DEF CreateJob, TypeOK, NextFile
  <1>3. CASE Join
    <2>1. CASE i < Len(dir)
      BY <1>0, <1>1, <1>3, <2>1, NodeTypes DEF Join, TypeOK, NextFile
    <2>2. CASE ~ (i < Len(dir))
      BY <1>0, <1>1, <1>3, <2>2, NodeTypes DEF Join, TypeOK, NextFile
    <2>. QED BY <2>1, <2>2
  <1>4. CASE JoinNothing
    BY <1>0, <1>1, <1>4, NodeTypes DEF JoinNothing, TypeOK, NextFile
  <1>5. CASE ParseNext
    BY <1>0, <1>1, <1>5, NodeTypes, ParsesType DEF ParseNext, TypeOK, NextFile
  <1>6. CASE MergeDecl \/ MergeFirstClause \/ MergeSameClause \/ MergeMismatch
    BY <1>0, <1>1, <1>6 DEF MergeDecl, MergeFirstClause, MergeSameClause, MergeMismatch, AtKid
  <1>8. CASE MergeEndOfFile BY <1>0, <1>1, <1>8 DEF MergeEndOfFile, NextFile
  <1>9. CASE Cleanup \/ Release BY <1>0, <1>1, <1>9 DEF Cleanup, Release
  <1>10. ASSUME NEW f \in Files, ParseJob(f) PROVE ParseInv' /\ NoThreadOutlivesJobs'
    BY <1>0, <1>1, <1>10, NodeTypes DEF ParseJob, TypeOK
  <1> QED BY <1>2, <1>3, <1>4, <1>5, <1>6, <1>8, <1>9, <1>10 DEF Next, MainThread

-----------------------------------------------------------------------------
(* The merged tree                                                         *)

LEMMA MergeSame ==
  ASSUME MergeInv, dir' = dir, Walked' = Walked, merged' = merged, seen' = seen
  PROVE  MergeInv'
  BY SameDir DEF MergeInv, Before

\* Steps before the merge, up to its first
LEMMA MergeNotYet ==
  ASSUME IInv, dir' = dir, ~ Merging, ~ Merged, ~ Merged', ~ Merging' \/ (i' = 1 /\ j' = 1),
         merged' = merged, seen' = seen
  PROVE  MergeInv'
  BY NotWalked, MergeSame DEF IInv

\* Whether a clause the merge comes to is the first is what seen tells.
LEMMA SeenTells ==
  ASSUME IInv, AtKid
  PROVE  /\ IsClause(<<i, j>>) <=> Kid \in Names
         /\ LaterClause(<<i, j>>) <=> Kid \in Names /\ seen # {}
  <1>1. IsClause(<<i, j>>) <=> Kid \in Names BY DEF IsClause, Kid
  <1>2. seen # {} <=> \E p \in Walked : IsClause(p) BY DEF IInv, MergeInv
  <1>3. Walked = {n \in Nodes : Before(n, <<i, j>>)} BY AtNode DEF IInv
  <1> QED BY <1>1, <1>2, <1>3 DEF LaterClause

\* Moving the next node keeps the list in order and complete.
LEMMA Moved ==
  ASSUME IInv, AtKid, MoveKid, dir' = dir, Walked' = Walked \cup {<<i, j>>}, ~ LaterClause(<<i, j>>)
  PROVE  /\ {merged[k] : k \in DOMAIN merged}' = {n \in Walked : ~ LaterClause(n)}'
         /\ (\A k, l \in DOMAIN merged : k < l => Before(merged[k], merged[l]))'
  <1> DEFINE m == <<i, j>>
  <1>1. merged \in Seq(Nodes) BY DEF IInv, TypeOK
  <1>2. m \in Nodes /\ Walked = {n \in Nodes : Before(n, m)} BY AtNode DEF IInv
  <1>3. /\ DOMAIN merged' = DOMAIN merged \cup {Len(merged) + 1}
        /\ \A k \in DOMAIN merged : k < Len(merged) + 1 /\ k \in Nat /\ merged'[k] = merged[k]
        /\ merged'[Len(merged) + 1] = m
        /\ Len(merged) \in Nat
    <2> HIDE DEF m
    <2>1. merged' = Append(merged, m) BY DEF MoveKid, m
    <2> QED BY <1>1, <1>2, <2>1
  <1>4. {merged[k] : k \in DOMAIN merged} = {n \in Walked : ~ LaterClause(n)} BY DEF IInv, MergeInv
  <1>5. {merged'[k] : k \in DOMAIN merged'} = {merged[k] : k \in DOMAIN merged} \cup {m}
    <2> HIDE DEF m
    <2> QED BY <1>3
  <1>6. \A n : LaterClause(n)' = LaterClause(n) BY SameDir
  <1>7. {merged'[k] : k \in DOMAIN merged'} = {n \in Walked' : ~ LaterClause(n)'}
    <2> HIDE DEF m
    <2>1. Walked' = Walked \cup {m} /\ ~ LaterClause(m) BY DEF m
    <2> QED BY <1>4, <1>5, <1>6, <2>1
  <1>8. \A k \in DOMAIN merged : Before(merged[k], m) BY <1>2, <1>4
  <1>9. \A k, l \in DOMAIN merged' : k < l => Before(merged'[k], merged'[l])
    <2> SUFFICES ASSUME NEW k \in DOMAIN merged', NEW l \in DOMAIN merged', k < l
                 PROVE  Before(merged'[k], merged'[l])
      OBVIOUS
    <2> HIDE DEF m
    <2>1. CASE l \in DOMAIN merged
      <3>1. k \in DOMAIN merged BY <1>3, <2>1
      <3> QED BY <1>3, <2>1, <3>1 DEF IInv, MergeInv
    <2>2. CASE l = Len(merged) + 1
      <3>1. k \in DOMAIN merged BY <1>3, <2>2
      <3> QED BY <1>3, <1>8, <2>2, <3>1
    <2> QED BY <1>3, <2>1, <2>2
  <1> QED BY <1>7, <1>9 DEF Before

LEMMA MergeStep == ASSUME IInv, Next PROVE MergeInv'
  <1> USE DEF Merging, Merged
  <1>0. dir' = dir
    BY DEF Next, MainThread, CreateJob, Join, JoinNothing, ParseNext, MergeDecl, MergeFirstClause,
           MergeSameClause, MergeMismatch, MergeEndOfFile, Cleanup, Release, ParseJob
  <1>1. CASE CreateJob BY <1>0, <1>1, MergeNotYet DEF CreateJob, NextFile
  <1>2. CASE Join BY <1>0, <1>2, MergeNotYet DEF Join, NextFile, IInv, AttachInv
  <1>3. CASE JoinNothing BY <1>0, <1>3, MergeNotYet DEF JoinNothing, NextFile
  <1>4. CASE ParseNext BY <1>0, <1>4, MergeNotYet DEF ParseNext, NextFile, IInv, AttachInv
  <1>5. CASE MergeDecl
    <2>1. Walked' = Walked \cup {<<i, j>>} BY <1>5, WalkKid DEF IInv, MergeDecl
    <2>2. ~ IsClause(<<i, j>>) /\ ~ LaterClause(<<i, j>>)
      BY <1>5, SeenTells, DirParseAssumption DEF MergeDecl
    <2>3. AtKid /\ MoveKid /\ seen' = seen BY <1>5 DEF MergeDecl
    <2>4. {n \in Walked' : IsClause(n)'} = {n \in Walked : IsClause(n)} BY <1>0, <2>1, <2>2, SameDir
    <2> QED BY <1>0, <2>1, <2>2, <2>3, <2>4, Moved, SameDir DEF IInv, MergeInv
  <1>6. CASE MergeFirstClause
    <2>1. Walked' = Walked \cup {<<i, j>>} BY <1>6, WalkKid DEF IInv, MergeFirstClause
    <2>2. IsClause(<<i, j>>) /\ ~ LaterClause(<<i, j>>) BY <1>6, SeenTells DEF MergeFirstClause
    <2>3. AtKid /\ MoveKid /\ seen' = {Kid} BY <1>6 DEF MergeFirstClause
    <2>4. \A n \in Walked : ~ IsClause(n) BY <1>6 DEF MergeFirstClause, IInv, MergeInv
    <2>5. {n \in Walked' : IsClause(n)'} = {<<i, j>>} BY <1>0, <2>1, <2>2, <2>4, SameDir
    <2> DEFINE Clauses == {p \in Walked' : IsClause(p)'}
    <2>6. {Kids(n[1])[n[2]] : n \in Clauses} = {Kid}
      <3>1. Clauses = {<<i, j>>} BY <2>5
      <3> HIDE DEF Clauses
      <3>2. \A n \in Clauses : Kids(n[1])[n[2]] = Kid BY <3>1 DEF Kid
      <3>3. <<i, j>> \in Clauses BY <3>1
      <3> QED BY <3>2, <3>3
    <2>7. (seen = {Kids(n[1])[n[2]] : n \in {p \in Walked : IsClause(p)}})' BY <1>0, <2>3, <2>6, SameDir
    <2> QED BY <1>0, <2>1, <2>2, <2>3, <2>7, Moved DEF MergeInv
  <1>7. CASE MergeSameClause
    <2>1. Walked' = Walked \cup {<<i, j>>} BY <1>7, WalkKid DEF IInv, MergeSameClause
    <2>2. AtKid /\ Kid \in seen /\ Kid \in Names BY <1>7 DEF MergeSameClause, IInv, TypeOK
    <2>3. LaterClause(<<i, j>>) BY <2>2, SeenTells
    <2>4. {n \in Walked' : ~ LaterClause(n)'} = {n \in Walked : ~ LaterClause(n)}
      BY <1>0, <2>1, <2>3, SameDir
    <2>5. {n \in Walked' : IsClause(n)'} = {n \in Walked : IsClause(n)} \cup {<<i, j>>}
      BY <1>0, <2>1, <2>3, SameDir DEF LaterClause
    <2>6. Kids(<<i, j>>[1])[<<i, j>>[2]] \in seen BY <2>2 DEF Kid
    <2>7. seen = {Kids(n[1])[n[2]] : n \in {p \in Walked' : IsClause(p)'}}
      BY <2>5, <2>6 DEF IInv, MergeInv
    <2>8. merged' = merged /\ seen' = seen BY <1>7 DEF MergeSameClause
    <2>9. (seen = {Kids(n[1])[n[2]] : n \in {p \in Walked : IsClause(p)}})' BY <1>0, <2>7, <2>8, SameDir
    <2>10. ({merged[k] : k \in DOMAIN merged} = {n \in Walked : ~ LaterClause(n)})'
      BY <2>4, <2>8 DEF IInv, MergeInv
    <2>11. (\A k, l \in DOMAIN merged : k < l => Before(merged[k], merged[l]))'
      BY <2>8 DEF IInv, MergeInv, Before
    <2> QED BY <2>8, <2>9, <2>10, <2>11 DEF IInv, MergeInv
  <1>8. CASE MergeMismatch
    <2>1. Walked' = Walked BY <1>0, <1>8, SameDir DEF MergeMismatch, Walked, AtKid, IInv, ParseInv, Before
    <2> QED BY <1>0, <1>8, <2>1, MergeSame DEF MergeMismatch, IInv
  <1>9. CASE MergeEndOfFile
    BY <1>0, <1>9, WalkEnd, MergeSame DEF MergeEndOfFile, IInv
  <1>10. CASE Cleanup \/ Release
    <2>1. Walked' = Walked BY <1>0, <1>10, SameDir DEF Cleanup, Release, Walked, Before
    <2> QED BY <1>0, <1>10, <2>1, MergeSame DEF Cleanup, Release, IInv
  <1>11. ASSUME NEW f \in Files, ParseJob(f) PROVE MergeInv'
    <2>1. Walked' = Walked BY <1>0, <1>11, SameDir DEF ParseJob, Walked, Before
    <2> QED BY <1>0, <1>11, <2>1, MergeSame DEF ParseJob, IInv
  <1> QED BY <1>1, <1>2, <1>3, <1>4, <1>5, <1>6, <1>7, <1>8, <1>9, <1>10, <1>11 DEF Next, MainThread

-----------------------------------------------------------------------------
(* Ownership                                                               *)

LEMMA AttachStep == ASSUME IInv, Next PROVE AttachInv'
  <1> USE DEF IInv, AttachInv, Merging, Merged
  <1>0. dir' = dir
    BY DEF Next, MainThread, CreateJob, Join, JoinNothing, ParseNext, MergeDecl, MergeFirstClause,
           MergeSameClause, MergeMismatch, MergeEndOfFile, Cleanup, Release, ParseJob
  <1>1. Files' = Files /\ Nodes' = Nodes /\ \A n : IsClause(n)' = IsClause(n) BY <1>0, SameDir
  <1>2. CASE CreateJob BY <1>1, <1>2, NodeTypes DEF CreateJob, NextFile
  <1>3. CASE Join BY <1>1, <1>3, NodeTypes DEF Join, NextFile
  <1>4. CASE JoinNothing BY <1>1, <1>4, NodeTypes DEF JoinNothing, NextFile
  <1>5. CASE ParseNext BY <1>1, <1>5, NodeTypes DEF ParseNext, NextFile, ParseInv
  <1>6. CASE MergeDecl \/ MergeFirstClause \/ MergeSameClause
    BY <1>1, <1>6, NodeTypes DEF MergeDecl, MergeFirstClause, MergeSameClause, AtKid
  <1>7. CASE MergeMismatch
    <2>1. <<i, j>> \in Nodes /\ IsClause(<<i, j>>) BY <1>7, AtNode, SeenTells DEF MergeMismatch
    <2> QED BY <1>1, <1>7, <2>1 DEF MergeMismatch, AtKid, ParseInv
  <1>8. CASE MergeEndOfFile
    BY <1>1, <1>8, NodeTypes DEF MergeEndOfFile, NextFile, ParseInv
  <1>9. CASE Cleanup \/ Release BY <1>1, <1>9 DEF Cleanup, Release
  <1>10. ASSUME NEW f \in Files, ParseJob(f) PROVE AttachInv' BY <1>1, <1>10 DEF ParseJob
  <1> QED BY <1>2, <1>3, <1>4, <1>5, <1>6, <1>7, <1>8, <1>9, <1>10 DEF Next, MainThread

\* A parse that failed has merged nothing.
LEMMA NothingMerged == ASSUME IInv, ~ Merging, ~ Merged PROVE \A n : ~ \E k \in DOMAIN merged : merged[k] = n
  <1>1. Walked = {} BY DEF Walked
  <1>2. {merged[k] : k \in DOMAIN merged} = {} BY <1>1 DEF IInv, MergeInv
  <1> QED BY <1>2

LEMMA FreeStep == ASSUME IInv, Next PROVE FreeInv'
  <1> USE DEF IInv, FreeInv
  <1>0. dir' = dir
    BY DEF Next, MainThread, CreateJob, Join, JoinNothing, ParseNext, MergeDecl, MergeFirstClause,
           MergeSameClause, MergeMismatch, MergeEndOfFile, Cleanup, Release, ParseJob
  <1>1. Nodes' = Nodes BY <1>0, SameDir
  <1>2. CASE CreateJob BY <1>1, <1>2 DEF CreateJob, NextFile
  <1>3. CASE Join \/ JoinNothing \/ ParseNext
    <2>1. \A n : ~ \E k \in DOMAIN merged : merged[k] = n
      BY <1>3, NothingMerged DEF Join, JoinNothing, ParseNext, Merging, Merged
    <2> QED BY <1>1, <1>3, <2>1 DEF Join, JoinNothing, ParseNext, NextFile
  <1>4. CASE MergeDecl \/ MergeFirstClause \/ MergeSameClause
    BY <1>1, <1>4 DEF MergeDecl, MergeFirstClause, MergeSameClause, AtKid
  <1>5. CASE MergeMismatch BY <1>1, <1>5 DEF MergeMismatch, AtKid, FreeNodes
  <1>6. CASE MergeEndOfFile BY <1>1, <1>6 DEF MergeEndOfFile, NextFile
  <1>7. CASE Cleanup
    <2>1. Listed' = Listed BY <1>1, <1>7 DEF Cleanup, Listed
    <2> QED BY <1>1, <1>7, <2>1 DEF Cleanup, FreeNodes
  <1>8. CASE Release
    <2>1. Listed = {} BY <1>8 DEF Release, Listed, AttachInv, Merged
    <2> QED BY <1>1, <1>8, <2>1 DEF Release, FreeNodes
  <1>9. ASSUME NEW f \in Files, ParseJob(f) PROVE FreeInv'
    <2>1. pc \notin {"cleanup", "failed"} BY <1>9 DEF ParseJob, NoThreadOutlivesJobs
    <2> QED BY <1>1, <1>9, <2>1 DEF ParseJob
  <1> QED BY <1>2, <1>3, <1>4, <1>5, <1>6, <1>7, <1>8, <1>9 DEF Next, MainThread

-----------------------------------------------------------------------------
(* Theorems                                                                *)

LEMMA InitInv == ASSUME Init PROVE IInv
  <1>1. dir \in Seq(FileType) /\ dir # <<>> BY DirParseAssumption DEF Init
  <1>2. TypeOK
    <2>1. 1 \in Files BY <1>1 DEF Files
    <2>2. merged \in Seq(Nodes) BY DEF Init
    <2>3. pc \in {"create", "parse"} BY DEF Init
    <2> QED BY <1>1, <2>1, <2>2, <2>3 DEF Init, TypeOK
  <1>3. Walked = {} BY DEF Init, Walked, Merging, Merged
  <1>4. MergeInv BY <1>3 DEF Init, MergeInv
  <1>5. ParseInv /\ NoThreadOutlivesJobs BY NodeTypes, <1>2 DEF Init, ParseInv, NoThreadOutlivesJobs, Merging, Merged
  <1>6. AttachInv BY DEF Init, AttachInv, Merging, Merged
  <1>7. FreeInv BY DEF Init, FreeInv
  <1> QED BY <1>2, <1>4, <1>5, <1>6, <1>7 DEF IInv

LEMMA Stutter == ASSUME IInv, UNCHANGED vars PROVE IInv'
  <1> USE DEF IInv, vars
  <1>0. Files' = Files /\ Nodes' = Nodes /\ \A n : IsClause(n)' = IsClause(n) BY SameDir
  <1>1. TypeOK' BY <1>0 DEF TypeOK
  <1>2. ParseInv' /\ NoThreadOutlivesJobs' BY <1>0 DEF ParseInv, NoThreadOutlivesJobs, Merging, Merged
  <1>3. Walked' = Walked BY <1>0 DEF Walked, Merging, Merged, Before
  <1>4. MergeInv' BY <1>3, MergeSame
  <1>5. AttachInv' BY <1>0 DEF AttachInv, Merging, Merged
  <1>6. FreeInv' BY <1>0 DEF FreeInv, Listed
  <1> QED BY <1>1, <1>2, <1>4, <1>5, <1>6

LEMMA InvStep == IInv /\ [Next]_vars => IInv'
  BY TypeStep, ParseStep, MergeStep, AttachStep, FreeStep, Stutter DEF IInv

LEMMA Inv == Spec => []IInv
  <1>1. Init => IInv BY InitInv
  <1> QED BY <1>1, InvStep, PTL DEF Spec

\* No node is in the merged list twice; none is freed more than twice, and one
\* that is freed twice is of the file in which the merge has failed, before the
\* mismatching clause.
NodesOnce ==
  /\ \A k, l \in DOMAIN merged : k # l => merged[k] # merged[l]
  /\ \A n \in Nodes :
       /\ frees[n] <= 2
       /\ frees[n] = 2 => pc = "failed" /\ parseOk /\ n[1] = i /\ n[2] < j

\* The variables of the main thread, the threads and the merge keep their
\* types, and what may go wrong with the trees is bounded: the merge lists a
\* node once, and only children of the file it fails in are freed twice (once
\* with the merged list, once with the file they are still listed in).
THEOREM ParseTypes == Spec => [](TypeOK /\ NodesOnce)
  <1>1. ASSUME IInv PROVE NodesOnce
    <2>1. ASSUME NEW k \in DOMAIN merged, NEW l \in DOMAIN merged, k # l PROVE merged[k] # merged[l]
      <3>1. merged \in Seq(Nodes) /\ k \in Nat /\ l \in Nat BY <1>1 DEF IInv, TypeOK
      <3>2. merged[k] \in Nodes /\ merged[l] \in Nodes BY <3>1
      <3>3. k < l \/ l < k BY <2>1, <3>1
      <3>4. Before(merged[k], merged[l]) \/ Before(merged[l], merged[k]) BY <1>1, <3>3 DEF IInv, MergeInv
      <3>5. ~ Before(merged[k], merged[k]) BY <1>1, <3>2, Order DEF IInv
      <3> QED BY <3>4, <3>5
    <2>2. ASSUME NEW n \in Nodes
          PROVE  /\ frees[n] <= 2
                 /\ frees[n] = 2 => pc = "failed" /\ parseOk /\ n[1] = i /\ n[2] < j
      <3>1. CASE pc = "failed" /\ n \in Listed /\ (\E k \in DOMAIN merged : merged[k] = n)
        <4>1. n \in Walked /\ n[1] \in attached BY <1>1, <3>1 DEF IInv, MergeInv, Listed
        <4>2. Merging /\ Before(n, <<i, j>>) /\ n[1] >= i
          BY <1>1, <3>1, <4>1 DEF Walked, Merged, IInv, AttachInv
        <4>3. n[1] = i /\ n[2] < j /\ parseOk
          BY <1>1, <4>2, NodeForm, NodeTypes DEF Before, IInv, Merging
        <4> QED BY <1>1, <3>1, <4>3 DEF IInv, FreeInv
      <3>2. CASE ~ (pc = "failed" /\ n \in Listed /\ (\E k \in DOMAIN merged : merged[k] = n))
        BY <1>1, <3>2 DEF IInv, FreeInv
      <3> QED BY <3>1, <3>2
    <2> QED BY <2>1, <2>2 DEF NodesOnce
  <1>2. IInv => TypeOK /\ NodesOnce BY <1>1 DEF IInv
  <1> QED BY <1>2, Inv, PTL

\* No parse thread runs once the results are merged or freed, for any number of
\* files, in every interleaving, and when threads could not be created.
THEOREM ThreadsEndFirst == Spec => []NoThreadOutlivesJobs
  <1>1. IInv => NoThreadOutlivesJobs BY DEF IInv
  <1> QED BY <1>1, Inv, PTL

\* After a failure every node of every parsed file has been freed, but for
\* package clauses skipped in files already merged.
THEOREM FailureFrees == Spec => []FailureFreesAll
  <1>1. ASSUME IInv PROVE FailureFreesAll
    <2> SUFFICES ASSUME pc = "failed", NEW n \in Nodes, result[n[1]], frees[n] = 0
                 PROVE  n[1] \notin attached /\ LaterClause(n)
      BY DEF FailureFreesAll
    <2>1. n \notin Listed /\ ~ \E k \in DOMAIN merged : merged[k] = n BY <1>1 DEF IInv, FreeInv
    <2>2. n[1] \notin attached BY <2>1 DEF Listed
    <2>3. n[1] \in Files BY NodeForm
    <2>4. Merging /\ ~ (n[1] >= i) BY <1>1, <2>2, <2>3 DEF IInv, AttachInv, Merged
    <2>5. n \in Walked BY <1>1, <2>3, <2>4, NodeTypes DEF Walked, Before, IInv
    <2> QED BY <1>1, <2>1, <2>2, <2>5 DEF IInv, MergeInv
  <1> QED BY <1>1, Inv, PTL

\* When package clauses come first in their files no node is freed twice: the
\* file the merge fails in has not been moved from yet.
THEOREM FreedOnce == Spec => []FreedOnceWhenClauseFirst
  <1>1. ASSUME IInv PROVE FreedOnceWhenClauseFirst
    <2> SUFFICES ASSUME ClauseFirst, NEW n \in Nodes PROVE frees[n] <= 1
      BY DEF FreedOnceWhenClauseFirst
    <2>1. CASE pc = "failed" /\ n \in Listed /\ (\E k \in DOMAIN merged : merged[k] = n)
      <3>1. n \in Walked /\ n[1] \in attached BY <1>1, <2>1 DEF IInv, MergeInv, Listed
      <3>2. Merging /\ Before(n, <<i, j>>) /\ n[1] >= i
        BY <1>1, <2>1, <3>1 DEF Walked, Merged, IInv, AttachInv
      <3>3. j = 1 BY <1>1, <2>1, <3>2 DEF ClauseFirst, IInv, AttachInv, Merging
      <3> QED BY <1>1, <3>2, <3>3, NodeForm, NodeTypes DEF Before, IInv
    <2>2. CASE ~ (pc = "failed" /\ n \in Listed /\ (\E k \in DOMAIN merged : merged[k] = n))
      BY <1>1, <2>2 DEF IInv, FreeInv
    <2> QED BY <2>1, <2>2
  <1> QED BY <1>1, Inv, PTL
-----------------------------------------------------------------------------
(* The refinement                                                          *)

Answer ==
  CASE pc = "ok" -> <<"package", merged>>
    [] pc \in {"failed", "crashed"} -> <<"failed">>
    [] OTHER -> <<"none">>

LEMMA AnswerIs ==
  /\ pc = "ok" => Answer = <<"package", merged>>
  /\ pc \in {"failed", "crashed"} => Answer = <<"failed">>
  /\ pc \notin {"ok", "failed", "crashed"} => Answer = <<"none">>
  BY DEF Answer

\* Both modules mean the same by a node, a clause and a later clause.
LEMMA SameWords ==
  ASSUME TypeOK
  PROVE  /\ Package!NodesOf(dir) = Nodes
         /\ \A n : Package!IsClause(dir, n) <=> IsClause(n)
         /\ \A n : Package!LaterClause(dir, n) <=> LaterClause(n)
         /\ \A n, p : Package!Before(n, p) <=> Before(n, p)
  <1>1. DOMAIN dir = Files BY DEF TypeOK, Files
  <1>2. Package!NodesOf(dir) = Nodes BY <1>1 DEF Nodes, Kids, Package!NodesOf
  <1> QED BY <1>2 DEF Package!IsClause, IsClause, Kids, Package!LaterClause, LaterClause, Package!Before, Before

\* What is released is the package the directory is to become.
LEMMA ReleasedIsPackage ==
  ASSUME IInv, pc = "release"
  PROVE  Package!Acceptable(dir) /\ Package!Lists(merged, Package!Kept(dir))
  <1> USE DEF IInv
  <1>1. Walked = Nodes BY DEF Walked, Merged
  <1>2. \A f \in DOMAIN dir : dir[f].parses BY DEF TypeOK, Files, ParseInv, Merged
  <1>3. ASSUME NEW n \in Nodes, NEW p \in Nodes, IsClause(n), IsClause(p)
        PROVE  Kids(n[1])[n[2]] = Kids(p[1])[p[2]]
    BY <1>1, <1>3 DEF MergeInv
  <1>4. Package!Acceptable(dir) BY <1>2, <1>3, SameWords DEF Package!Acceptable, Kids
  <1>5. Package!Kept(dir) = {n \in Nodes : ~ LaterClause(n)} BY SameWords DEF Package!Kept
  <1>6. {merged[k] : k \in DOMAIN merged} = Package!Kept(dir) BY <1>1, <1>5 DEF MergeInv
  <1>7. \A k, l \in DOMAIN merged : k < l => Package!Before(merged[k], merged[l]) BY SameWords DEF MergeInv
  <1> QED BY <1>4, <1>6, <1>7 DEF Package!Lists

LEMMA Simulation == IInv /\ [Next]_vars => [Package!Next]_<<dir, Answer>>
  <1> SUFFICES ASSUME IInv, [Next]_vars PROVE [Package!Next]_<<dir, Answer>> OBVIOUS
  <1>0. dir' = dir
    BY DEF vars, Next, MainThread, CreateJob, Join, JoinNothing, ParseNext, MergeDecl, MergeFirstClause,
           MergeSameClause, MergeMismatch, MergeEndOfFile, Cleanup, Release, ParseJob
  <1>1. CASE Release
    <2>1. Answer = <<"none">> BY <1>1, AnswerIs DEF Release
    <2>2. Answer' = <<"package", merged>> BY <1>1 DEF Release, Answer
    <2>3. Package!Accept
      BY <1>0, <1>1, <2>1, <2>2, ReleasedIsPackage DEF Package!Accept, Answer, Release
    <2> QED BY <2>3 DEF Package!Next
  <1>2. CASE Cleanup \/ (JoinNothing /\ pc' = "crashed")
    <2>1. pc \in {"cleanup", "join"} /\ pc' \in {"failed", "crashed"} BY <1>2 DEF Cleanup, JoinNothing
    <2>2. Package!Fail BY <1>0, <2>1 DEF Package!Fail
    <2> QED BY <2>2 DEF Package!Next
  <1>3. CASE CreateJob \/ Join \/ (JoinNothing /\ pc' # "crashed") \/ ParseNext \/ MergeDecl
             \/ MergeFirstClause \/ MergeSameClause \/ MergeMismatch \/ MergeEndOfFile
    <2>1. pc \notin {"ok", "failed", "crashed"} /\ pc' \notin {"ok", "failed", "crashed"}
      BY <1>3 DEF CreateJob, Join, JoinNothing, ParseNext, MergeDecl, MergeFirstClause,
           MergeSameClause, MergeMismatch, MergeEndOfFile, NextFile, AtKid
    <2>2. Answer' = Answer BY <2>1 DEF Answer
    <2> QED BY <1>0, <2>2
  <1>4. CASE UNCHANGED vars \/ \E f \in Files : ParseJob(f)
    <2>1. pc' = pc /\ merged' = merged BY <1>4 DEF vars, ParseJob
    <2> QED BY <1>0, <2>1 DEF Answer
  <1> QED BY <1>1, <1>2, <1>3, <1>4 DEF Next, MainThread

\* Threads, sequential loop and merge implement, step by step, a directory that
\* becomes one package or fails: no file is lost or taken twice, the nodes keep
\* their order, and a package is made only of files that parse and agree.
THEOREM MergesAsOnePackage == Spec => Package!Safety
  <1>1. Init => Package!Init BY DEF Init, Package!Init
  <1> QED BY <1>1, Inv, Simulation, PTL DEF Spec, Package!Safety, Answer
=============================================================================
