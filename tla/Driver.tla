------------------------------- MODULE Driver -------------------------------
(***************************************************************************)
(* The compiler processes: main() of src/main.c, from the parsed program   *)
(* to the exit status.  Several compilers may run at once; they share the  *)
(* file system, and find in it files that earlier compilers left.  What a  *)
(* stage may do (fail to parse, report errors, fail to write or to link,   *)
(* exit non-zero) is chosen freely.                                        *)
(*                                                                         *)
(* A path is a sequence of tokens: "/", ".", and words; "odin" is a word,  *)
(* so <<"a", ".", "odin">> is a.odin.                                      *)
(***************************************************************************)
EXTENDS Naturals, Sequences

CONSTANTS
  Procs,    \* the compiler processes
  Earlier,  \* stands for the compilers of an earlier time
  Commands  \* the command lines they may be given: functions from Procs

\* output_name (-o) is empty when absent.
JobType == [cmd : {"build", "run", "check"}, path : Seq(STRING), isDir : BOOLEAN,
            out : Seq(STRING), keep : BOOLEAN]

ASSUME EarlierAssumption == Earlier \notin Procs

\* Only a path that exists can be a directory.
ASSUME CommandsAssumption ==
  /\ Commands \subseteq [Procs -> JobType]
  /\ \A c \in Commands : \A p \in Procs : c[p].isDir => c[p].path # <<>>

VARIABLES
  jobs,    \* the command lines
  pc,      \* where each process is in main()
  semOk,   \* sem_ok
  status,  \* exit_code, and the exit status
  exe, ll, \* exe_file, ll_file of each process
  disk,    \* the files: [path, by], `by' the process whose program it holds
  before,  \* history: the files of an earlier time
  ran,     \* history: whose program `run' executed
  missed,  \* history: the IR file could not be opened for writing
  built    \* history: the process has linked its executable

vars == <<jobs, pc, semOk, status, exe, ll, disk, before, ran, missed, built>>

-----------------------------------------------------------------------------
(* Output file names.                                                      *)

LastOf(s, t) == IF \E k \in DOMAIN s : s[k] = t
                  THEN CHOOSE k \in DOMAIN s : s[k] = t /\ \A x \in k + 1 .. Len(s) : s[x] # t
                  ELSE 0
AfterSlash(s) == SubSeq(s, LastOf(s, "/") + 1, Len(s))
Stripped(s) == LET ends == {k \in 1 .. Len(s) : k = 1 \/ s[k] # "/"}
               IN  SubSeq(s, 1, CHOOSE k \in ends : \A x \in ends : x <= k)

\* <dir>/<basename of dir> for a directory, the file itself otherwise.
OutputBase(j) == IF j.isDir THEN Stripped(j.path) \o <<"/">> \o AfterSlash(Stripped(j.path)) ELSE j.path

WithoutOdin(s) == IF Len(s) > 2 /\ s[Len(s)] = "odin" /\ s[Len(s) - 1] = "." THEN SubSeq(s, 1, Len(s) - 2) ELSE s

RunName(j) == <<"/", "tmp", "/", "odinc_">> \o WithoutOdin(AfterSlash(OutputBase(j)))
UptoLastDot(s) == IF LastOf(s, ".") = 0 THEN s ELSE SubSeq(s, 1, LastOf(s, ".") - 1)
ExeName(j) ==
  IF j.cmd = "run" THEN RunName(j)
  ELSE IF j.out # <<>> THEN j.out
  ELSE UptoLastDot(OutputBase(j))
LlName(j) == ExeName(j) \o <<".", "ll">>

Files(p) == {ExeName(jobs[p]), LlName(jobs[p])}

-----------------------------------------------------------------------------
Init ==
  /\ jobs \in Commands
  /\ pc = [p \in Procs |-> "parse"]
  /\ semOk = [p \in Procs |-> FALSE]
  /\ status = [p \in Procs |-> 1]
  /\ exe = [p \in Procs |-> <<>>] /\ ll = [p \in Procs |-> <<>>]
  /\ \E left \in SUBSET UNION {Files(p) : p \in Procs} :
       before = {[path |-> n, by |-> Earlier] : n \in left}
  /\ disk = before
  /\ ran = [p \in Procs |-> {}]
  /\ missed = [p \in Procs |-> FALSE] /\ built = [p \in Procs |-> FALSE]

Goto(p, l) == pc' = [pc EXCEPT ![p] = l]
Read(path) == {f \in disk : f.path = path}
Write(path, q) == {f \in disk : f.path # path} \cup {[path |-> path, by |-> q]}
Remove(path) == {f \in disk : f.path # path}

\* Parsing (and the creation of the contexts) fails: EXIT_FAILURE.
Parse(p) ==
  /\ pc[p] = "parse"
  /\ Goto(p, "exit") \/ Goto(p, "analyse")
  /\ UNCHANGED <<jobs, semOk, status, exe, ll, disk, before, ran, missed, built>>

\* sem_analyse; the errors are printed and the output names computed.
Analyse(p) ==
  /\ pc[p] = "analyse"
  /\ \E ok \in BOOLEAN : /\ semOk' = [semOk EXCEPT ![p] = ok]
                         /\ Goto(p, IF ok /\ jobs[p].cmd # "check" THEN "generate" ELSE "status")
  /\ exe' = [exe EXCEPT ![p] = ExeName(jobs[p])] /\ ll' = [ll EXCEPT ![p] = LlName(jobs[p])]
  /\ UNCHANGED <<jobs, status, disk, before, ran, missed, built>>

\* ir_generate: on errors exit_code is EXIT_FAILURE and the rest is skipped;
\* without a generator context main exits at once.
Generate(p) ==
  /\ pc[p] = "generate"
  /\ Goto(p, "write") \/ Goto(p, "status") \/ Goto(p, "exit")
  /\ UNCHANGED <<jobs, semOk, status, exe, ll, disk, before, ran, missed, built>>

\* write_llvm_ir_to_file: a failure is printed, and linking goes on.  A file
\* that is opened holds this program, or the part of it written so far.
WriteIr(p) ==
  /\ pc[p] = "write"
  /\ \/ disk' = Write(ll[p], p) /\ missed' = missed
     \/ disk' = disk /\ missed' = [missed EXCEPT ![p] = TRUE]
  /\ Goto(p, "link")
  /\ UNCHANGED <<jobs, semOk, status, exe, ll, before, ran, built>>

AfterLink(p) == IF jobs[p].cmd = "run" THEN "run" ELSE "tidy"

RunsUnlinked(p) ==
  /\ pc[p] = "link"
  /\ \/ \E f \in Read(ll[p]) : disk' = Write(exe[p], f.by) /\ built' = [built EXCEPT ![p] = TRUE]
     \/ disk' \in {disk, Remove(exe[p])} /\ built' = built
  /\ Goto(p, AfterLink(p))
  /\ UNCHANGED <<jobs, semOk, status, exe, ll, before, ran, missed>>
\* run_linker: links whatever the .ll file holds now.  A link that fails is
\* only printed; it leaves the executable that was there, or removes it.
Link(p) ==
  /\ pc[p] = "link"
  /\ \/ \E f \in Read(ll[p]) :
          disk' = Write(exe[p], f.by) /\ built' = [built EXCEPT ![p] = TRUE] /\ Goto(p, AfterLink(p))
     \/ disk' \in {disk, Remove(exe[p])} /\ built' = built /\ Goto(p, "tidy")
  /\ UNCHANGED <<jobs, semOk, status, exe, ll, before, ran, missed>>

KeepsExe(p) ==
  /\ pc[p] = "run"
  /\ ran' = [ran EXCEPT ![p] = {f.by : f \in Read(exe[p])}]
  /\ semOk' = [semOk EXCEPT ![p] = TRUE]
  /\ Goto(p, "tidy")
  /\ UNCHANGED <<jobs, status, exe, ll, disk, before, missed, built>>
\* system(exe_file): runs what the file holds now, or fails without it.
RunExe(p) ==
  /\ pc[p] = "run"
  /\ ran' = [ran EXCEPT ![p] = {f.by : f \in Read(exe[p])}]
  /\ \E ok \in IF Read(exe[p]) = {} THEN {FALSE} ELSE BOOLEAN : semOk' = [semOk EXCEPT ![p] = ok]
  /\ Goto(p, "removeExe")
  /\ UNCHANGED <<jobs, status, exe, ll, disk, before, missed, built>>

RemoveExe(p) ==
  /\ pc[p] = "removeExe"
  /\ disk' = Remove(exe[p])
  /\ Goto(p, "tidy")
  /\ UNCHANGED <<jobs, semOk, status, exe, ll, before, ran, missed, built>>

Tidy(p) ==
  /\ pc[p] = "tidy"
  /\ disk' = IF jobs[p].keep THEN disk ELSE Remove(ll[p])
  /\ Goto(p, "status")
  /\ UNCHANGED <<jobs, semOk, status, exe, ll, before, ran, missed, built>>

\* if (sem_ok) exit_code = EXIT_SUCCESS;
SetStatus(p) ==
  /\ pc[p] = "status"
  /\ status' = [status EXCEPT ![p] = IF semOk[p] THEN 0 ELSE @]
  /\ Goto(p, "exit")
  /\ UNCHANGED <<jobs, semOk, exe, ll, disk, before, ran, missed, built>>

Step(p) ==
  \/ Parse(p) \/ Analyse(p) \/ Generate(p) \/ WriteIr(p) \/ Link(p) \/ RunExe(p) \/ RemoveExe(p)
  \/ Tidy(p) \/ SetStatus(p)
Next == \E p \in Procs : Step(p)
Spec == Init /\ [][Next]_vars

-----------------------------------------------------------------------------
(* Properties.                                                             *)

Exited(p) == pc[p] = "exit"

\* A group of compilers that shares no file name with one outside it, and the
\* programs it can produce: its own, and one of an earlier time when an .ll
\* file could not be written and an old one of that name was linked instead.
Separate(G) == \A p \in G, q \in Procs \ G : Files(p) \cap Files(q) = {}
Programs(G) == G \cup IF \E p \in G : missed[p] THEN {Earlier} ELSE {}

\* `run' executes only a program of the compilers that share its file names
\* (its own alone, when none does), however they all interleave between
\* writing, linking, running and removing, and never an executable that it
\* found there, even when linking fails.
RunsOwnProgram ==
  \A G \in SUBSET Procs : Separate(G) => \A p \in G : ran[p] \subseteq Programs(G)

\* When all compilers have exited, the files are old ones, executables that
\* `build' linked and the .ll files of --keep-temps; a new file holds a program
\* of the compilers that share its name; and an executable that `build' linked
\* is there when no other compiler shares its name: removing temporary files
\* takes no result of this compiler or of another one.
LeavesResults ==
  (\A p \in Procs : Exited(p)) =>
    /\ \A f \in disk \ before : \E p \in Procs : \/ jobs[p].cmd = "build" /\ built[p] /\ f.path = exe[p]
                                                 \/ jobs[p].keep /\ f.path = ll[p]
    /\ \A G \in SUBSET Procs : Separate(G) =>
         \A f \in disk \ before, p \in G : f.path \in Files(p) => f.by \in Programs(G)
    /\ \A p \in Procs : Separate({p}) /\ built[p] /\ jobs[p].cmd = "build" => Read(exe[p]) # {}

=============================================================================
