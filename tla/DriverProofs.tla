----------------------------- MODULE DriverProofs -----------------------------
(***************************************************************************)
(* Proofs about Driver, for any number of compilers and any command lines. *)
(***************************************************************************)
EXTENDS Driver, WellFoundedInduction, TLAPS

-----------------------------------------------------------------------------
(* File names.                                                             *)

\* A set of numbers below a bound has a greatest one.
LEMMA GreatestBelow ==
  ASSUME NEW n \in Nat, NEW S \in SUBSET (0 .. n), S # {}
  PROVE  \E m \in S : \A k \in S : k <= m
  <1>1. PICK T : T = {n - k : k \in S} OBVIOUS
  <1>2. T \subseteq Nat /\ T # {}
    <2>1. \A k \in S : n - k \in Nat OBVIOUS
    <2> QED BY <1>1, <2>1
  <1>3. PICK m \in T : \A k \in T : ~ (<<k, m>> \in OpToRel(<, Nat))
    BY <1>2, NatLessThanWellFounded, WFMin, Zenon
  <1>4. \A k \in T : ~ (k < m) BY <1>2, <1>3 DEF OpToRel
  <1>5. PICK x \in S : m = n - x BY <1>1
  <1>6. ASSUME NEW k \in S PROVE k <= x
    <2>1. n - k \in T BY <1>1
    <2>2. ~ (n - k < n - x) BY <2>1, <1>4, <1>5
    <2> QED BY <2>2
  <1> QED BY <1>6

\* A place in the sequence, or 0.
LEMMA LastOfRange ==
  ASSUME NEW W, NEW s \in Seq(W), NEW t
  PROVE  LastOf(s, t) \in 0 .. Len(s)
  <1> DEFINE At == {k \in DOMAIN s : s[k] = t}
  <1>1. CASE At = {} BY <1>1 DEF LastOf
  <1>2. CASE At # {}
    <2>1. At \in SUBSET (0 .. Len(s)) /\ Len(s) \in Nat OBVIOUS
    <2>2. PICK m \in At : \A k \in At : k <= m
      <3> HIDE DEF At
      <3> QED BY <1>2, <2>1, GreatestBelow
    <2>3. \A x \in m + 1 .. Len(s) : s[x] # t BY <2>2
    <2>4. (\E k \in DOMAIN s : s[k] = t) BY <1>2
    <2>5. LastOf(s, t) = CHOOSE k \in DOMAIN s : s[k] = t /\ \A x \in k + 1 .. Len(s) : s[x] # t
      BY <2>4 DEF LastOf
    <2>6. LastOf(s, t) \in DOMAIN s BY <2>2, <2>3, <2>5
    <2> QED BY <2>6
  <1> QED BY <1>1, <1>2

\* What is cut out of a sequence is one.
LEMMA CutSeq ==
  ASSUME NEW W, NEW s \in Seq(W), NEW m \in Nat, m >= 1, NEW n \in Nat, n <= Len(s)
  PROVE  SubSeq(s, m, n) \in Seq(W)
  <1>1. CASE m > n + 1
    BY <1>1
  <1>2. CASE m <= n + 1 BY <1>2
  <1> QED BY <1>1, <1>2

LEMMA StrippedSeq ==
  ASSUME NEW W, NEW s \in Seq(W), s # <<>>
  PROVE  Stripped(s) \in Seq(W)
  <1> DEFINE Ends == {k \in 1 .. Len(s) : k = 1 \/ s[k] # "/"}
  <1>1. Len(s) \in Nat /\ Ends \in SUBSET (0 .. Len(s)) /\ 1 \in Ends OBVIOUS
  <1>2. PICK m \in Ends : \A k \in Ends : k <= m
    <2> HIDE DEF Ends
    <2> QED BY <1>1, GreatestBelow
  <1>3. PICK e : e = CHOOSE k \in Ends : \A x \in Ends : x <= k OBVIOUS
  <1>4. e \in Ends BY <1>2, <1>3
  <1>5. SubSeq(s, 1, e) \in Seq(W) BY <1>4, CutSeq
  <1> QED BY <1>3, <1>5 DEF Stripped

Words == STRING \cup {"/", "tmp", "odinc_", ".", "ll"}

\* Sequences of more, and of one to four, words.
LEMMA WiderSeq == ASSUME NEW S, NEW W, S \subseteq W, NEW s \in Seq(S) PROVE s \in Seq(W)
  OBVIOUS
LEMMA ShortSeqs ==
  ASSUME NEW W, NEW a \in W, NEW b \in W, NEW c \in W
  PROVE  <<a>> \in Seq(W) /\ <<a, b>> \in Seq(W) /\ <<a, b, a, c>> \in Seq(W)
  OBVIOUS

\* A command line names a file, or a directory that exists.
LEMMA ExeNameSeq ==
  ASSUME NEW j \in JobType, j.isDir => j.path # <<>>
  PROVE  ExeName(j) \in Seq(Words)
  <1>1. j.path \in Seq(Words) /\ j.out \in Seq(Words) /\ j.isDir \in BOOLEAN
    <2>1. j.path \in Seq(STRING) /\ j.out \in Seq(STRING) /\ j.isDir \in BOOLEAN BY DEF JobType
    <2>2. STRING \subseteq Words BY DEF Words
    <2> QED BY <2>1, <2>2, WiderSeq
  <1>2. ASSUME NEW s \in Seq(Words) PROVE AfterSlash(s) \in Seq(Words)
    <2>1. LastOf(s, "/") \in 0 .. Len(s) /\ Len(s) \in Nat BY LastOfRange
    <2>2. LastOf(s, "/") + 1 \in Nat /\ LastOf(s, "/") + 1 >= 1 BY <2>1
    <2> QED BY <2>1, <2>2, CutSeq DEF AfterSlash
  <1>3. OutputBase(j) \in Seq(Words)
    <2>1. CASE j.isDir
      <3>1. Stripped(j.path) \in Seq(Words) BY <1>1, <2>1, StrippedSeq
      <3>2. AfterSlash(Stripped(j.path)) \in Seq(Words) BY <3>1, <1>2
      <3>3. <<"/">> \in Seq(Words) BY ShortSeqs DEF Words
      <3>4. Stripped(j.path) \o <<"/">> \in Seq(Words) BY <3>1, <3>3
      <3>5. Stripped(j.path) \o <<"/">> \o AfterSlash(Stripped(j.path)) \in Seq(Words) BY <3>2, <3>4
      <3> QED BY <2>1, <3>5 DEF OutputBase
    <2>2. CASE ~ j.isDir BY <1>1, <2>2 DEF OutputBase
    <2> QED BY <2>1, <2>2
  <1>4. ASSUME NEW s \in Seq(Words) PROVE WithoutOdin(s) \in Seq(Words)
    <2>1. Len(s) > 2 => SubSeq(s, 1, Len(s) - 2) \in Seq(Words) BY CutSeq
    <2> QED BY <2>1 DEF WithoutOdin
  <1>5. RunName(j) \in Seq(Words)
    <2>1. WithoutOdin(AfterSlash(OutputBase(j))) \in Seq(Words) BY <1>2, <1>3, <1>4
    <2>2. <<"/", "tmp", "/", "odinc_">> \in Seq(Words) BY ShortSeqs DEF Words
    <2> QED BY <2>1, <2>2 DEF RunName
  <1>6. UptoLastDot(OutputBase(j)) \in Seq(Words)
    <2>1. PICK s \in Seq(Words) : s = OutputBase(j) BY <1>3
    <2>2. LastOf(s, ".") \in 0 .. Len(s) /\ Len(s) \in Nat BY LastOfRange
    <2>3. LastOf(s, ".") # 0 => SubSeq(s, 1, LastOf(s, ".") - 1) \in Seq(Words) BY <2>2, CutSeq
    <2> QED BY <2>1, <2>3 DEF UptoLastDot
  <1> QED BY <1>1, <1>5, <1>6 DEF ExeName

\* The .ll file is not the executable.
LEMMA TwoNames ==
  ASSUME NEW j \in JobType, j.isDir => j.path # <<>>
  PROVE  ExeName(j) # LlName(j)
  <1>1. PICK s \in Seq(Words) : s = ExeName(j) BY ExeNameSeq
  <1>2. Len(s \o <<".", "ll">>) = Len(s) + 2 BY <1>1
  <1>3. Len(s) + 2 # Len(s) OBVIOUS
  <1> QED BY <1>1, <1>2, <1>3 DEF LlName

-----------------------------------------------------------------------------
(* The inductive invariant.                                                *)

Named(p) == exe[p] = ExeName(jobs[p]) /\ ll[p] = LlName(jobs[p])

\* A new file of p that is still to be removed, or that is its result.
IrOf(p)  == jobs[p].keep \/ pc[p] \in {"link", "run", "removeExe", "tidy"}
ExeOf(p) == (jobs[p].cmd = "build" /\ built[p]) \/ pc[p] \in {"run", "removeExe"}

Labels == {"parse", "analyse", "generate", "write", "link", "run", "removeExe", "tidy", "status", "exit"}

TypeInv ==
  /\ jobs \in Commands
  /\ pc \in [Procs -> Labels]
  /\ exe = [p \in Procs |-> exe[p]] /\ ll = [p \in Procs |-> ll[p]]
  /\ ran = [p \in Procs |-> ran[p]]
  /\ missed \in [Procs -> BOOLEAN] /\ built \in [Procs -> BOOLEAN]
  /\ \A f \in before : f.by = Earlier

StageOf(p) ==
  /\ pc[p] \in {"generate", "write", "link", "run", "removeExe", "tidy"} => jobs[p].cmd # "check"
  /\ pc[p] \in {"generate", "write", "link", "run", "removeExe", "tidy", "status"} => Named(p)
  /\ pc[p] \in {"run", "removeExe"} => jobs[p].cmd = "run"
  /\ built[p] => Named(p) /\ pc[p] \in {"run", "removeExe", "tidy", "status", "exit"}
StageInv == \A p \in Procs : StageOf(p)

\* Every new file is one that some compiler has still to remove, or leaves.
OwnFile(f, p) ==
  Named(p) /\ ((f.path = LlName(jobs[p]) /\ IrOf(p)) \/ (f.path = ExeName(jobs[p]) /\ ExeOf(p)))
FilesInv == \A f \in disk \ before : \E p \in Procs : OwnFile(f, p)

\* A group that shares no name with the others: its .ll files hold its programs
\* from the writing on, its executables from the linking on, and before that
\* they are old files.
Part(p, G) ==
  /\ pc[p] \in {"link", "run", "removeExe", "tidy"} =>
       \A f \in disk : f.path = LlName(jobs[p]) => f.by \in Programs(G)
  /\ pc[p] = "run" => \A f \in disk : f.path = ExeName(jobs[p]) => f.by \in Programs(G)
  /\ ran[p] \subseteq Programs(G)
Content(G) ==
  /\ \A f \in disk, p \in G : f.path \in Files(p) => f.by \in Programs(G) \/ f \in before
  /\ \A p \in G : Part(p, G)
GroupInv == \A G \in SUBSET Procs : Separate(G) => Content(G)

BuiltOf(p) ==
  Separate({p}) /\ built[p] /\ jobs[p].cmd = "build" => \E f \in disk : f.path = ExeName(jobs[p])
BuiltInv == \A p \in Procs : BuiltOf(p)

IInv == TypeInv /\ StageInv /\ FilesInv /\ GroupInv /\ BuiltInv

-----------------------------------------------------------------------------
(* What every step has in common.                                          *)

LEMMA JobFacts ==
  ASSUME TypeInv, NEW p \in Procs
  PROVE  ExeName(jobs[p]) # LlName(jobs[p]) /\ jobs[p] \in JobType
  <1>1. jobs[p] \in JobType /\ (jobs[p].isDir => jobs[p].path # <<>>)
    BY CommandsAssumption DEF TypeInv
  <1> QED BY <1>1, TwoNames

\* The names that are shared are decided by the command lines.
LEMMA SameGroups ==
  ASSUME UNCHANGED jobs, NEW G \in SUBSET Procs
  PROVE  Separate(G)' <=> Separate(G)
  BY DEF Separate, Files

\* A step of p that goes to l, and leaves the names.
StepTo(p, l) == Goto(p, l) /\ UNCHANGED <<jobs, before, exe, ll>>

LEMMA OthersKeep ==
  ASSUME IInv, NEW p \in Procs, NEW l \in Labels, StepTo(p, l)
  PROVE  /\ pc' \in [Procs -> Labels] /\ pc'[p] = l
         /\ \A q \in Procs : q # p => pc'[q] = pc[q]
         /\ \A q \in Procs : Named(q)' <=> Named(q)
  <1>1. /\ pc' \in [Procs -> Labels] /\ pc'[p] = l
        /\ \A q \in Procs : q # p => pc'[q] = pc[q]
    BY DEF IInv, TypeInv, Goto, StepTo
  <1> QED BY <1>1 DEF Named, StepTo

\* New files: a step of p that writes or removes files keeps FilesInv if every
\* file p has written is its own and p gives up only files that are gone.
LEMMA FilesStep ==
  ASSUME IInv, NEW p \in Procs, NEW l \in Labels, StepTo(p, l),
         \A q \in Procs : q # p => built'[q] = built[q],
         \A f \in disk' : f \in disk \/ OwnFile(f, p)',
         IrOf(p) => IrOf(p)' \/ \A f \in disk' : f.path # LlName(jobs[p]),
         ExeOf(p) => ExeOf(p)' \/ \A f \in disk' : f.path # ExeName(jobs[p])
  PROVE  FilesInv'
  <1>1. /\ \A q \in Procs : q # p => pc'[q] = pc[q]
        /\ \A q \in Procs : Named(q)' <=> Named(q)
    BY OthersKeep
  <1>2. jobs' = jobs /\ before' = before BY DEF StepTo
  <1>3. ASSUME NEW f \in disk' \ before' PROVE \E q \in Procs : OwnFile(f, q)'
    <2>1. CASE OwnFile(f, p)' BY <2>1
    <2>2. CASE f \in disk
      <3>1. PICK q \in Procs : OwnFile(f, q) BY <1>2, <1>3, <2>2 DEF IInv, FilesInv
      <3>2. CASE q # p
        <4>1. OwnFile(f, q)' BY <1>1, <1>2, <3>1, <3>2 DEF OwnFile, IrOf, ExeOf
        <4> QED BY <4>1
      <3>3. CASE q = p
        <4>1. OwnFile(f, p)' BY <1>1, <1>2, <1>3, <3>1, <3>3 DEF OwnFile
        <4> QED BY <4>1
      <3> QED BY <3>2, <3>3
    <2> QED BY <1>3, <2>1, <2>2
  <1> QED BY <1>3 DEF FilesInv

\* A step of p changes nothing for a group p is not in.
LEMMA GroupStep ==
  ASSUME NEW p \in Procs, NEW G \in SUBSET Procs, Separate(G), Content(G),
         UNCHANGED <<jobs, before>>,
         Programs(G) \subseteq Programs(G)',
         \A q \in Procs : q # p => pc'[q] = pc[q] /\ ran'[q] = ran[q],
         \A f \in disk' : f \in disk \/ f.path \in Files(p),
         p \in G => \A f \in disk' : f \in disk \/ f.by \in Programs(G)',
         p \in G => Part(p, G)'
  PROVE  Content(G)'
  <1>1. PICK P : P = Programs(G)' OBVIOUS
  <1>2. ASSUME NEW f \in disk', f \notin disk, NEW q \in G, f.path \in Files(q) PROVE f.by \in P
    <2>1. p \in G BY <1>2 DEF Separate
    <2> QED BY <2>1, <1>1, <1>2
  <1>3. \A q \in G : Files(q)' = Files(q) BY DEF Files
  <1>4. ASSUME NEW f \in disk', NEW q \in G, f.path \in Files(q) PROVE f.by \in P \/ f \in before
    BY <1>1, <1>2, <1>4 DEF Content
  <1>5. ASSUME NEW q \in G, q # p PROVE Part(q, G)'
    <2>1. pc'[q] = pc[q] /\ ran'[q] = ran[q] /\ Part(q, G) /\ jobs' = jobs BY <1>5 DEF Content
    <2>2. ExeName(jobs[q]) \in Files(q) /\ LlName(jobs[q]) \in Files(q) BY DEF Files
    <2>3. \A f \in disk' : f \in disk \/ f.path \notin Files(q) \/ f.by \in P BY <1>2
    <2> QED BY <1>1, <2>1, <2>2, <2>3 DEF Part
  <1>6. \A q \in G : Part(q, G)' BY <1>5
  <1> QED BY <1>1, <1>3, <1>4, <1>6 DEF Content

\* The steps that leave the disk, the results and the histories as they are.
LEMMA QuietStep ==
  ASSUME IInv, NEW p \in Procs, NEW l \in Labels, StepTo(p, l),
         UNCHANGED <<disk, ran, missed, built>>, StageOf(p)',
         l \notin {"link", "run", "removeExe", "tidy"}, pc[p] \notin {"link", "run", "removeExe", "tidy"}
  PROVE  IInv'
  <1>1. /\ pc' \in [Procs -> Labels] /\ pc'[p] = l
        /\ \A q \in Procs : q # p => pc'[q] = pc[q]
        /\ \A q \in Procs : Named(q)' <=> Named(q)
    BY OthersKeep
  <1>2. UNCHANGED <<jobs, before, exe, ll>> BY DEF StepTo
  <1>3. TypeInv' BY <1>1, <1>2 DEF IInv, TypeInv
  <1>4. StageInv'
    <2>1. ASSUME NEW q \in Procs, q # p PROVE StageOf(q)' BY <1>1, <1>2, <2>1 DEF IInv, StageInv, StageOf
    <2> QED BY <2>1 DEF StageInv
  <1>5. (IrOf(p) => IrOf(p)') /\ (ExeOf(p) => ExeOf(p)') BY <1>1, <1>2 DEF IrOf, ExeOf
  <1>6. FilesInv' BY <1>5, FilesStep
  <1>7. GroupInv'
    <2>1. ASSUME NEW G \in SUBSET Procs, Separate(G)' PROVE Content(G)'
      <3>1. Separate(G) /\ Content(G) BY <1>2, <2>1, SameGroups DEF IInv, GroupInv
      <3>2. Programs(G)' = Programs(G) BY DEF Programs
      <3>3. p \in G => Part(p, G)' BY <1>1, <1>2, <3>1, <3>2 DEF Content, Part
      <3> QED BY <1>1, <1>2, <3>1, <3>2, <3>3, GroupStep
    <2> QED BY <2>1 DEF GroupInv
  <1>8. BuiltInv'
    <2>1. ASSUME NEW q \in Procs PROVE BuiltOf(q)'
      <3>1. Separate({q})' <=> Separate({q}) BY <1>2, SameGroups
      <3> QED BY <1>2, <3>1 DEF IInv, BuiltInv, BuiltOf
    <2> QED BY <2>1 DEF BuiltInv
  <1> QED BY <1>3, <1>4, <1>6, <1>7, <1>8 DEF IInv

LEMMA ParseStep == ASSUME IInv, NEW p \in Procs, Parse(p) PROVE IInv'
  <1>1. PICK l \in {"exit", "analyse"} : StepTo(p, l) BY DEF Parse, StepTo
  <1>2. pc'[p] = l /\ (Named(p)' <=> Named(p)) BY <1>1, OthersKeep DEF Labels
  <1>3. pc[p] = "parse" /\ UNCHANGED <<jobs, disk, ran, missed, built>> BY DEF Parse
  <1>4. StageOf(p)' BY <1>2, <1>3 DEF StageOf, IInv, StageInv
  <1> QED BY <1>1, <1>3, <1>4, QuietStep DEF Labels

LEMMA GenerateStep == ASSUME IInv, NEW p \in Procs, Generate(p) PROVE IInv'
  <1>1. PICK l \in {"exit", "write", "status"} : StepTo(p, l) BY DEF Generate, StepTo
  <1>2. pc'[p] = l /\ (Named(p)' <=> Named(p)) BY <1>1, OthersKeep DEF Labels
  <1>3. pc[p] = "generate" /\ UNCHANGED <<jobs, disk, ran, missed, built>> BY DEF Generate
  <1>4. StageOf(p)' BY <1>2, <1>3 DEF StageOf, IInv, StageInv
  <1> QED BY <1>1, <1>3, <1>4, QuietStep DEF Labels

LEMMA StatusStep == ASSUME IInv, NEW p \in Procs, SetStatus(p) PROVE IInv'
  <1>1. StepTo(p, "exit") BY DEF SetStatus, StepTo
  <1>2. pc'[p] = "exit" /\ (Named(p)' <=> Named(p)) BY <1>1, OthersKeep DEF Labels
  <1>3. pc[p] = "status" /\ UNCHANGED <<jobs, disk, ran, missed, built>> BY DEF SetStatus
  <1>4. StageOf(p)' BY <1>2, <1>3 DEF StageOf, IInv, StageInv
  <1> QED BY <1>1, <1>3, <1>4, QuietStep DEF Labels

LEMMA AnalyseStep == ASSUME IInv, NEW p \in Procs, Analyse(p) PROVE IInv'
  <1>0. /\ pc[p] = "analyse" /\ UNCHANGED <<jobs, disk, before, ran, missed, built>>
        /\ exe' = [exe EXCEPT ![p] = ExeName(jobs[p])] /\ ll' = [ll EXCEPT ![p] = LlName(jobs[p])]
    BY DEF Analyse
  <1>1. PICK l \in {"generate", "status"} : Goto(p, l) /\ (l = "generate" => jobs[p].cmd # "check")
    BY DEF Analyse
  <1>2. /\ pc' \in [Procs -> Labels] /\ pc'[p] = l
        /\ \A q \in Procs : q # p => pc'[q] = pc[q]
    BY <1>1 DEF IInv, TypeInv, Goto, Labels
  <1>3. /\ exe' = [q \in Procs |-> exe'[q]] /\ ll' = [q \in Procs |-> ll'[q]]
        /\ exe'[p] = ExeName(jobs[p]) /\ ll'[p] = LlName(jobs[p])
        /\ \A q \in Procs : q # p => exe'[q] = exe[q] /\ ll'[q] = ll[q]
    BY <1>0 DEF IInv, TypeInv
  <1>4. Named(p)' /\ \A q \in Procs : Named(q) => Named(q)' BY <1>0, <1>3 DEF Named
  <1>5. TypeInv' BY <1>0, <1>2, <1>3 DEF IInv, TypeInv
  <1>6. StageInv'
    <2>1. ASSUME NEW q \in Procs PROVE StageOf(q)'
      <3>1. StageOf(q) BY DEF IInv, StageInv
      <3>2. CASE q = p BY <3>1, <3>2, <1>0, <1>1, <1>2, <1>4 DEF StageOf
      <3>3. CASE q # p BY <3>1, <3>3, <1>0, <1>2, <1>4 DEF StageOf
      <3> QED BY <3>2, <3>3
    <2> QED BY <2>1 DEF StageInv
  <1>7. \A q \in Procs : (IrOf(q) => IrOf(q)') /\ (ExeOf(q) => ExeOf(q)') BY <1>0, <1>2 DEF IrOf, ExeOf
  <1>8. FilesInv'
    <2> SUFFICES ASSUME NEW f \in disk \ before PROVE \E q \in Procs : OwnFile(f, q)' BY <1>0 DEF FilesInv
    <2>1. PICK q \in Procs : OwnFile(f, q) BY DEF IInv, FilesInv
    <2>2. OwnFile(f, q)' BY <2>1, <1>0, <1>4, <1>7 DEF OwnFile
    <2> QED BY <2>2
  <1>9. GroupInv'
    <2>1. ASSUME NEW G \in SUBSET Procs, Separate(G)' PROVE Content(G)'
      <3>1. Separate(G) /\ Content(G) BY <1>0, <2>1, SameGroups DEF IInv, GroupInv
      <3>2. Programs(G)' = Programs(G) BY <1>0 DEF Programs
      <3>3. p \in G => Part(p, G)' BY <1>0, <1>1, <1>2, <3>1, <3>2 DEF Content, Part
      <3> QED BY <1>0, <1>2, <3>1, <3>2, <3>3, GroupStep
    <2> QED BY <2>1 DEF GroupInv
  <1>10. BuiltInv'
    <2>1. ASSUME NEW q \in Procs PROVE BuiltOf(q)'
      <3>1. Separate({q})' <=> Separate({q}) BY <1>0, SameGroups
      <3> QED BY <1>0, <3>1 DEF IInv, BuiltInv, BuiltOf
    <2> QED BY <2>1 DEF BuiltInv
  <1> QED BY <1>5, <1>6, <1>8, <1>9, <1>10 DEF IInv

-----------------------------------------------------------------------------
(* The steps on files.                                                     *)

\* A step of p on the files that keeps what is proved of p, of the new files
\* and of p's groups.
LEMMA DiskStep ==
  ASSUME IInv, NEW p \in Procs, NEW l \in Labels, StepTo(p, l),
         ran' = [q \in Procs |-> ran'[q]], \A q \in Procs : q # p => ran'[q] = ran[q],
         missed' \in [Procs -> BOOLEAN], \A q \in Procs : missed[q] => missed'[q],
         built' \in [Procs -> BOOLEAN], \A q \in Procs : q # p => built'[q] = built[q],
         StageOf(p)',
         \A f \in disk' : f \in disk \/ OwnFile(f, p)',
         IrOf(p) => IrOf(p)' \/ \A f \in disk' : f.path # LlName(jobs[p]),
         ExeOf(p) => ExeOf(p)' \/ \A f \in disk' : f.path # ExeName(jobs[p]),
         \A f \in disk : f \in disk' \/ f.path \in Files(p),
         \A G \in SUBSET Procs : Separate(G) /\ p \in G =>
           Part(p, G)' /\ \A f \in disk' : f \in disk \/ f.by \in Programs(G)',
         BuiltOf(p)'
  PROVE  IInv'
  <1>1. /\ pc' \in [Procs -> Labels] /\ pc'[p] = l
        /\ \A q \in Procs : q # p => pc'[q] = pc[q]
        /\ \A q \in Procs : Named(q)' <=> Named(q)
    BY OthersKeep
  <1>2. UNCHANGED <<jobs, before, exe, ll>> BY DEF StepTo
  <1>3. TypeInv' BY <1>1, <1>2 DEF IInv, TypeInv
  <1>4. StageInv'
    <2>1. ASSUME NEW q \in Procs, q # p PROVE StageOf(q)' BY <1>1, <1>2, <2>1 DEF IInv, StageInv, StageOf
    <2> QED BY <2>1 DEF StageInv
  <1>5. FilesInv' BY FilesStep
  <1>6. \A f \in disk' : f \in disk \/ f.path \in Files(p) BY <1>2 DEF OwnFile, Files
  <1>7. GroupInv'
    <2>1. ASSUME NEW G \in SUBSET Procs, Separate(G)' PROVE Content(G)'
      <3>1. Separate(G) /\ Content(G) BY <1>2, <2>1, SameGroups DEF IInv, GroupInv
      <3>2. Programs(G) \subseteq Programs(G)' BY DEF Programs
      <3>3. p \in G => Part(p, G)' /\ \A f \in disk' : f \in disk \/ f.by \in Programs(G)' BY <3>1
      <3> QED BY <1>1, <1>2, <1>6, <3>1, <3>2, <3>3, GroupStep
    <2> QED BY <2>1 DEF GroupInv
  <1>8. BuiltInv'
    <2>1. ASSUME NEW q \in Procs, q # p PROVE BuiltOf(q)'
      <3>1. Separate({q})' <=> Separate({q}) BY <1>2, SameGroups
      <3>2. SUFFICES ASSUME Separate({q}), built[q], jobs[q].cmd = "build"
                     PROVE  \E f \in disk' : f.path = ExeName(jobs[q])
        BY <1>2, <2>1, <3>1 DEF BuiltOf
      <3>3. PICK f \in disk : f.path = ExeName(jobs[q]) BY <3>2 DEF IInv, BuiltInv, BuiltOf
      <3>4. f.path \notin Files(p) BY <2>1, <3>2, <3>3 DEF Separate, Files
      <3> QED BY <3>3, <3>4
    <2> QED BY <2>1 DEF BuiltInv
  <1> QED BY <1>3, <1>4, <1>5, <1>7, <1>8 DEF IInv

LEMMA WriteIrStep == ASSUME IInv, NEW p \in Procs, WriteIr(p) PROVE IInv'
  <1>0. /\ pc[p] = "write" /\ StepTo(p, "link") /\ UNCHANGED <<jobs, before, ran, built>>
        /\ Named(p) /\ jobs[p].cmd # "check" /\ ~ built[p]
    BY DEF WriteIr, StepTo, IInv, StageInv, StageOf
  <1>1. pc'[p] = "link" /\ Named(p)' BY <1>0, OthersKeep DEF Labels
  <1>2. /\ ran' = [q \in Procs |-> ran'[q]]
        /\ missed \in [Procs -> BOOLEAN] /\ built' \in [Procs -> BOOLEAN]
    BY <1>0 DEF IInv, TypeInv
  <1>3. StageOf(p)' /\ BuiltOf(p)' BY <1>0, <1>1 DEF StageOf, BuiltOf
  <1>4. IrOf(p)' /\ (ExeOf(p) => ExeOf(p)') BY <1>0, <1>1 DEF IrOf, ExeOf
  <1>5. CASE disk' = Write(ll[p], p) /\ missed' = missed
    <2>1. \A f \in disk' : \/ f \in disk /\ f.path # LlName(jobs[p])
                           \/ f.path = LlName(jobs[p]) /\ f.by = p
      BY <1>0, <1>5 DEF Write, Named
    <2>2. \A f \in disk' : f \in disk \/ OwnFile(f, p)' BY <1>0, <1>1, <1>4, <2>1 DEF OwnFile
    <2>3. \A f \in disk : f \in disk' \/ f.path \in Files(p) BY <1>0, <1>5 DEF Write, Named, Files
    <2>4. ASSUME NEW G \in SUBSET Procs, Separate(G), p \in G
          PROVE  Part(p, G)' /\ \A f \in disk' : f \in disk \/ f.by \in Programs(G)'
      <3>1. Part(p, G) BY <2>4 DEF IInv, GroupInv, Content
      <3>2. Programs(G)' = Programs(G) /\ p \in Programs(G) BY <1>5, <2>4 DEF Programs
      <3> QED BY <3>1, <3>2, <2>1, <1>0, <1>1 DEF Part
    <2> QED BY <1>0, <1>2, <1>3, <1>4, <1>5, <2>2, <2>3, <2>4, DiskStep DEF Labels
  <1>6. CASE disk' = disk /\ missed' = [missed EXCEPT ![p] = TRUE]
    <2>1. missed' \in [Procs -> BOOLEAN] /\ missed'[p] /\ \A q \in Procs : missed[q] => missed'[q]
      BY <1>2, <1>6
    <2>2. ASSUME NEW G \in SUBSET Procs, Separate(G), p \in G PROVE Part(p, G)'
      <3>1. Content(G) BY <2>2 DEF IInv, GroupInv
      <3>2. Programs(G) \subseteq Programs(G)' /\ Earlier \in Programs(G)' BY <2>1, <2>2 DEF Programs
      <3>3. LlName(jobs[p]) \in Files(p) BY DEF Files
      <3>4. \A f \in disk : f.path = LlName(jobs[p]) => f.by \in Programs(G)'
        BY <2>2, <3>1, <3>2, <3>3 DEF Content, IInv, TypeInv
      <3>5. PICK P : P = Programs(G)' OBVIOUS
      <3> QED BY <2>2, <3>1, <3>2, <3>4, <3>5, <1>0, <1>1, <1>6 DEF Part, Content
    <2> QED BY <1>0, <1>2, <1>3, <1>4, <1>6, <2>1, <2>2, DiskStep DEF Labels
  <1> QED BY <1>5, <1>6 DEF WriteIr

LEMMA LinkStep == ASSUME IInv, NEW p \in Procs, Link(p) PROVE IInv'
  <1>0. /\ pc[p] = "link" /\ UNCHANGED <<jobs, before, exe, ll, ran, missed>>
        /\ Named(p) /\ jobs[p].cmd # "check" /\ jobs[p].cmd \in {"build", "run", "check"} /\ ~ built[p]
        /\ ExeName(jobs[p]) # LlName(jobs[p])
    <2>1. jobs[p] \in JobType /\ ExeName(jobs[p]) # LlName(jobs[p]) BY JobFacts DEF IInv
    <2> QED BY <2>1 DEF Link, IInv, StageInv, StageOf, JobType
  <1>1. /\ ran' = [q \in Procs |-> ran'[q]]
        /\ missed' \in [Procs -> BOOLEAN] /\ built \in [Procs -> BOOLEAN]
    BY <1>0 DEF IInv, TypeInv
  <1>2. CASE disk' \in {disk, Remove(exe[p])} /\ built' = built /\ Goto(p, "tidy")
    <2>1. StepTo(p, "tidy") BY <1>0, <1>2 DEF StepTo
    <2>2. pc'[p] = "tidy" /\ Named(p)' BY <1>0, <2>1, OthersKeep DEF Labels
    <2>3. disk' \subseteq disk BY <1>2 DEF Remove
    <2>4. \A f \in disk : f \in disk' \/ f.path \in Files(p) BY <1>0, <1>2 DEF Remove, Named, Files
    <2>5. StageOf(p)' /\ BuiltOf(p)' BY <1>0, <1>2, <2>2 DEF StageOf, BuiltOf
    <2>6. IrOf(p)' /\ (ExeOf(p) => ExeOf(p)') BY <1>0, <1>2, <2>2 DEF IrOf, ExeOf
    <2>7. ASSUME NEW G \in SUBSET Procs, Separate(G), p \in G PROVE Part(p, G)'
      <3>1. Part(p, G) BY <2>7 DEF IInv, GroupInv, Content
      <3>2. Programs(G)' = Programs(G) BY <1>0 DEF Programs
      <3> QED BY <3>1, <3>2, <2>2, <2>3, <1>0 DEF Part
    <2> QED BY <1>0, <1>1, <1>2, <2>1, <2>3, <2>4, <2>5, <2>6, <2>7, DiskStep DEF Labels
  <1>3. CASE \E f \in Read(ll[p]) :
               disk' = Write(exe[p], f.by) /\ built' = [built EXCEPT ![p] = TRUE] /\ Goto(p, AfterLink(p))
    <2>1. PICK g \in Read(ll[p]) :
            disk' = Write(exe[p], g.by) /\ built' = [built EXCEPT ![p] = TRUE] /\ Goto(p, AfterLink(p))
      BY <1>3
    <2>2. PICK l \in {"run", "tidy"} : StepTo(p, l) /\ (l = "run" <=> jobs[p].cmd = "run")
      BY <1>0, <2>1 DEF StepTo, AfterLink
    <2>3. pc'[p] = l /\ Named(p)' BY <1>0, <2>2, OthersKeep DEF Labels
    <2>4. built' \in [Procs -> BOOLEAN] /\ built'[p] /\ \A q \in Procs : q # p => built'[q] = built[q]
      BY <1>1, <2>1
    <2>5. \A f \in disk' : \/ f \in disk /\ f.path # ExeName(jobs[p])
                           \/ f.path = ExeName(jobs[p]) /\ f.by = g.by
      BY <1>0, <2>1 DEF Write, Named
    <2>6. [path |-> ExeName(jobs[p]), by |-> g.by] \in disk' BY <1>0, <2>1 DEF Write, Named
    <2>7. IrOf(p)' /\ ExeOf(p)' BY <1>0, <2>2, <2>3, <2>4 DEF IrOf, ExeOf
    <2>8. \A f \in disk' : f \in disk \/ OwnFile(f, p)' BY <1>0, <2>3, <2>5, <2>7 DEF OwnFile
    <2>9. \A f \in disk : f \in disk' \/ f.path \in Files(p) BY <1>0, <2>1 DEF Write, Named, Files
    <2>10. StageOf(p)' BY <1>0, <2>2, <2>3, <2>4 DEF StageOf
    <2>11. BuiltOf(p)' BY <1>0, <2>6 DEF BuiltOf
    <2>12. ASSUME NEW G \in SUBSET Procs, Separate(G), p \in G
           PROVE  Part(p, G)' /\ \A f \in disk' : f \in disk \/ f.by \in Programs(G)'
      <3>1. Part(p, G) BY <2>12 DEF IInv, GroupInv, Content
      <3>2. Programs(G)' = Programs(G) BY <1>0 DEF Programs
      <3>3. g.by \in Programs(G) BY <1>0, <3>1 DEF Part, Read, Named
      <3> QED BY <1>0, <2>3, <2>5, <3>1, <3>2, <3>3 DEF Part
    <2> QED BY <1>0, <1>1, <2>2, <2>4, <2>7, <2>8, <2>9, <2>10, <2>11, <2>12, DiskStep DEF Labels
  <1> QED BY <1>2, <1>3 DEF Link

LEMMA RunStep == ASSUME IInv, NEW p \in Procs, RunExe(p) PROVE IInv'
  <1>0. /\ pc[p] = "run" /\ StepTo(p, "removeExe") /\ UNCHANGED <<jobs, disk, before, missed, built>>
        /\ ran' = [ran EXCEPT ![p] = {f.by : f \in Read(exe[p])}]
        /\ Named(p) /\ jobs[p].cmd = "run" /\ (built[p] => pc[p] # "link")
    BY DEF RunExe, StepTo, IInv, StageInv, StageOf
  <1>1. pc'[p] = "removeExe" /\ Named(p)' BY <1>0, OthersKeep DEF Labels
  <1>2. PICK R : R = {f.by : f \in Read(exe[p])} OBVIOUS
  <1>3. ran' = [q \in Procs |-> ran'[q]] /\ ran'[p] = R /\ \A q \in Procs : q # p => ran'[q] = ran[q]
    <2>1. ran' = [ran EXCEPT ![p] = R] BY <1>0, <1>2
    <2> QED BY <2>1 DEF IInv, TypeInv
  <1>4. missed' \in [Procs -> BOOLEAN] /\ built' \in [Procs -> BOOLEAN] BY <1>0 DEF IInv, TypeInv
  <1>5. StageOf(p)' /\ BuiltOf(p)' BY <1>0, <1>1 DEF StageOf, BuiltOf
  <1>6. IrOf(p)' /\ ExeOf(p)' BY <1>1 DEF IrOf, ExeOf
  <1>7. ASSUME NEW G \in SUBSET Procs, Separate(G), p \in G PROVE Part(p, G)'
    <2>1. Part(p, G) BY <1>7 DEF IInv, GroupInv, Content
    <2>2. Programs(G)' = Programs(G) BY <1>0 DEF Programs
    <2>3. \A f \in Read(exe[p]) : f.by \in Programs(G) BY <1>0, <2>1 DEF Part, Read, Named
    <2>4. R \subseteq Programs(G) BY <1>2, <2>3
    <2> QED BY <1>0, <1>1, <1>3, <2>1, <2>2, <2>4 DEF Part
  <1> QED BY <1>0, <1>3, <1>4, <1>5, <1>6, <1>7, DiskStep DEF Labels

LEMMA RemoveStep == ASSUME IInv, NEW p \in Procs, RemoveExe(p) PROVE IInv'
  <1>0. /\ pc[p] = "removeExe" /\ StepTo(p, "tidy") /\ UNCHANGED <<jobs, before, ran, missed, built>>
        /\ disk' = Remove(exe[p]) /\ Named(p) /\ jobs[p].cmd = "run"
    BY DEF RemoveExe, StepTo, IInv, StageInv, StageOf
  <1>1. pc'[p] = "tidy" /\ Named(p)' BY <1>0, OthersKeep DEF Labels
  <1>2. ran' = [q \in Procs |-> ran'[q]] /\ missed' \in [Procs -> BOOLEAN] /\ built' \in [Procs -> BOOLEAN]
    BY <1>0 DEF IInv, TypeInv
  <1>3. StageOf(p)' /\ BuiltOf(p)' BY <1>0, <1>1 DEF StageOf, BuiltOf
  <1>4. \A f \in disk' : f \in disk /\ f.path # ExeName(jobs[p]) BY <1>0 DEF Remove, Named
  <1>5. \A f \in disk : f \in disk' \/ f.path \in Files(p) BY <1>0 DEF Remove, Named, Files
  <1>6. IrOf(p)' BY <1>1 DEF IrOf
  <1>7. ASSUME NEW G \in SUBSET Procs, Separate(G), p \in G PROVE Part(p, G)'
    <2>1. Part(p, G) BY <1>7 DEF IInv, GroupInv, Content
    <2>2. Programs(G)' = Programs(G) BY <1>0 DEF Programs
    <2> QED BY <1>0, <1>1, <1>4, <2>1, <2>2 DEF Part
  <1> QED BY <1>0, <1>2, <1>3, <1>4, <1>5, <1>6, <1>7, DiskStep DEF Labels

LEMMA TidyStep == ASSUME IInv, NEW p \in Procs, Tidy(p) PROVE IInv'
  <1>0. /\ pc[p] = "tidy" /\ StepTo(p, "status") /\ UNCHANGED <<jobs, before, ran, missed, built>>
        /\ Named(p) /\ jobs[p].cmd # "check" /\ ExeName(jobs[p]) # LlName(jobs[p])
        /\ disk' = IF jobs[p].keep THEN disk ELSE Remove(ll[p])
    BY JobFacts DEF Tidy, StepTo, IInv, StageInv, StageOf
  <1>1. pc'[p] = "status" /\ Named(p)' BY <1>0, OthersKeep DEF Labels
  <1>2. ran' = [q \in Procs |-> ran'[q]] /\ missed' \in [Procs -> BOOLEAN] /\ built' \in [Procs -> BOOLEAN]
    BY <1>0 DEF IInv, TypeInv
  <1>3. disk' \subseteq disk /\ \A f \in disk : f \in disk' \/ f.path = LlName(jobs[p])
    BY <1>0 DEF Remove, Named
  <1>4. \A f \in disk : f \in disk' \/ f.path \in Files(p) BY <1>3 DEF Files
  <1>5. StageOf(p)' BY <1>0, <1>1 DEF StageOf
  <1>6. BuiltOf(p)'
    <2>1. Separate({p})' <=> Separate({p}) BY <1>0, SameGroups
    <2> QED BY <1>0, <1>3, <2>1 DEF BuiltOf, IInv, BuiltInv
  <1>7. IrOf(p)' \/ \A f \in disk' : f.path # LlName(jobs[p]) BY <1>0 DEF IrOf, Remove, Named
  <1>8. ExeOf(p) => ExeOf(p)' BY <1>0, <1>1 DEF ExeOf
  <1>9. ASSUME NEW G \in SUBSET Procs, Separate(G), p \in G PROVE Part(p, G)'
    <2>1. Part(p, G) BY <1>9 DEF IInv, GroupInv, Content
    <2>2. Programs(G)' = Programs(G) BY <1>0 DEF Programs
    <2> QED BY <1>0, <1>1, <1>3, <2>1, <2>2 DEF Part
  <1> QED BY <1>0, <1>2, <1>3, <1>4, <1>5, <1>6, <1>7, <1>8, <1>9, DiskStep DEF Labels

-----------------------------------------------------------------------------
(* The theorems.                                                           *)

LEMMA InitIInv == Init => IInv
  <1> SUFFICES ASSUME Init PROVE IInv OBVIOUS
  <1>1. disk = before /\ \A f \in before : f.by = Earlier BY DEF Init
  <1>2. TypeInv BY <1>1 DEF Init, TypeInv, Labels
  <1>3. StageInv BY DEF Init, StageInv, StageOf
  <1>4. FilesInv /\ BuiltInv BY <1>1 DEF Init, FilesInv, BuiltInv, BuiltOf
  <1>5. GroupInv
    <2>1. ASSUME NEW G \in SUBSET Procs PROVE Content(G) BY <1>1 DEF Init, Content, Part
    <2> QED BY <2>1 DEF GroupInv
  <1> QED BY <1>2, <1>3, <1>4, <1>5 DEF IInv

LEMMA Inductive == IInv /\ [Next]_vars => IInv'
  <1> SUFFICES ASSUME IInv, [Next]_vars PROVE IInv' OBVIOUS
  <1>1. CASE UNCHANGED vars
    <2>1. TypeInv' /\ StageInv' BY <1>1 DEF vars, IInv, TypeInv, StageInv, StageOf, Named
    <2>2. FilesInv'
      <3> SUFFICES ASSUME NEW f \in disk \ before PROVE \E q \in Procs : OwnFile(f, q)'
        BY <1>1 DEF vars, FilesInv
      <3>1. PICK q \in Procs : OwnFile(f, q) BY DEF IInv, FilesInv
      <3>2. OwnFile(f, q)' BY <1>1, <3>1 DEF vars, OwnFile, Named, IrOf, ExeOf
      <3> QED BY <3>2
    <2>3. GroupInv'
      <3>1. ASSUME NEW G \in SUBSET Procs, Separate(G)' PROVE Content(G)'
        <4>1. Separate(G) /\ Content(G) BY <1>1, <3>1, SameGroups DEF IInv, GroupInv, vars
        <4>2. Programs(G)' = Programs(G) BY <1>1 DEF vars, Programs
        <4> QED BY <1>1, <4>1, <4>2 DEF vars, Content, Part, Files
      <3> QED BY <3>1 DEF GroupInv
    <2>4. BuiltInv'
      <3>1. ASSUME NEW q \in Procs PROVE BuiltOf(q)'
        <4>1. Separate({q})' <=> Separate({q}) BY <1>1, SameGroups DEF vars
        <4> QED BY <1>1, <4>1 DEF vars, IInv, BuiltInv, BuiltOf
      <3> QED BY <3>1 DEF BuiltInv
    <2> QED BY <2>1, <2>2, <2>3, <2>4 DEF IInv
  <1>2. ASSUME NEW p \in Procs, Step(p) PROVE IInv'
    <2>1. CASE Parse(p) BY <2>1, ParseStep
    <2>2. CASE Analyse(p) BY <2>2, AnalyseStep
    <2>3. CASE Generate(p) BY <2>3, GenerateStep
    <2>4. CASE WriteIr(p) BY <2>4, WriteIrStep
    <2>5. CASE Link(p) BY <2>5, LinkStep
    <2>6. CASE RunExe(p) BY <2>6, RunStep
    <2>7. CASE RemoveExe(p) BY <2>7, RemoveStep
    <2>8. CASE Tidy(p) BY <2>8, TidyStep
    <2>9. CASE SetStatus(p) BY <2>9, StatusStep
    <2> QED BY <1>2, <2>1, <2>2, <2>3, <2>4, <2>5, <2>6, <2>7, <2>8, <2>9 DEF Step
  <1> QED BY <1>1, <1>2 DEF Next

LEMMA Invariant == Spec => []IInv
  BY InitIInv, Inductive, PTL DEF Spec

\* `run' executes only a program of the compilers that share its file names, or
\* one of an earlier time when a .ll file among them could not be written: the
\* compilers whose names are their own run their own programs, however many
\* others run at once, whatever files they find, and however linking fails.
THEOREM RunsOwn == Spec => []RunsOwnProgram
  <1>1. IInv => RunsOwnProgram BY DEF IInv, GroupInv, Content, Part, RunsOwnProgram
  <1> QED BY <1>1, Invariant, PTL

\* When all have exited, no temporary file is left, no compiler has put its
\* program under a name that only others use, and an executable that `build'
\* linked under a name of its own is still there.
THEOREM ResultsLeft == Spec => []LeavesResults
  <1>1. IInv => LeavesResults
    <2> SUFFICES ASSUME IInv, \A p \in Procs : Exited(p)
                 PROVE  /\ \A f \in disk \ before :
                             \E p \in Procs : \/ jobs[p].cmd = "build" /\ built[p] /\ f.path = exe[p]
                                              \/ jobs[p].keep /\ f.path = ll[p]
                        /\ \A G \in SUBSET Procs : Separate(G) =>
                             \A f \in disk \ before, p \in G : f.path \in Files(p) => f.by \in Programs(G)
                        /\ \A p \in Procs : Separate({p}) /\ built[p] /\ jobs[p].cmd = "build" =>
                             Read(exe[p]) # {}
      BY DEF LeavesResults
    <2>1. ASSUME NEW f \in disk \ before
          PROVE  \E p \in Procs : \/ jobs[p].cmd = "build" /\ built[p] /\ f.path = exe[p]
                                  \/ jobs[p].keep /\ f.path = ll[p]
      <3>1. PICK p \in Procs : OwnFile(f, p) BY DEF IInv, FilesInv
      <3>2. pc[p] = "exit" BY DEF Exited
      <3> QED BY <3>1, <3>2 DEF OwnFile, Named, IrOf, ExeOf
    <2>2. ASSUME NEW G \in SUBSET Procs, Separate(G), NEW f \in disk \ before, NEW p \in G, f.path \in Files(p)
          PROVE  f.by \in Programs(G)
      BY <2>2 DEF IInv, GroupInv, Content
    <2>3. ASSUME NEW p \in Procs, Separate({p}), built[p], jobs[p].cmd = "build"
          PROVE  Read(exe[p]) # {}
      BY <2>3 DEF IInv, BuiltInv, BuiltOf, StageInv, StageOf, Named, Read
    <2> QED BY <2>1, <2>2, <2>3
  <1> QED BY <1>1, Invariant, PTL

=============================================================================
