------------------------ MODULE PackageImportsProofs ------------------------
(***************************************************************************)
(* What holds of the import machinery for every set of packages, however   *)
(* many there are and however they import each other.                      *)
(*                                                                         *)
(* The import stack needs no other invariant.  The rest is one inductive   *)
(* invariant, IInv: the types, what the C call stack (`frames') holds, and *)
(* the two properties that relate the call stack to SemContext.  Steps     *)
(* within a call, calls and returns each have a lemma (MoveKeepsControl,   *)
(* AnalyseKeepsControl, ReturnKeepsControl) that the actions use.          *)
(*                                                                         *)
(* Then, on top of the call stack, what has been done for a program when   *)
(* sem_analyse ends: AcceptedMeansResolved, MangledWithOwnName and         *)
(* PendingStayHome.                                                        *)
(*                                                                         *)
(* Last, what ir_generate makes of it, CallsAreDefined and                 *)
(* VariablesHaveValues: AnalysisInv is what the analysis leaves, GenInv    *)
(* what the generator adds to it.                                          *)
(***************************************************************************)
EXTENDS ImportCodegen, WellFoundedInduction, TLAPS

-----------------------------------------------------------------------------
(* The import stack.                                                       *)

StackInv == importStack \in Seq(Files) /\ NoPathTwice

\* Only the three handlers and the return from an import touch the stack.
LEMMA StackSteps ==
  ASSUME Next
  PROVE  \/ UNCHANGED importStack
         \/ /\ Decl.path \in Files /\ ~ OnStack(Decl.path)
            /\ importStack' = Append(importStack, Decl.path)
         \/ importStack' = SubSeq(importStack, 1, Len(importStack) - 1)
<1>1. CASE HandleImport
  BY <1>1 DEF HandleImport, CanImport
<1>2. CASE HandleImportNamed
  BY <1>2 DEF HandleImportNamed, CanImport
<1>3. CASE HandleImportUsing
  BY <1>3 DEF HandleImportUsing, CanImport
<1>4. CASE ReturnImport
  BY <1>4 DEF ReturnImport, PoppedPath
<1>5. CASE ~ HandleImport /\ ~ HandleImportNamed /\ ~ HandleImportUsing /\ ~ ReturnImport
  BY <1>5, Zenon DEF Next, EnterPass1, AutoImportRuntime, AutoImportIntrinsics, SkipPrelude, CopyRuntimeSymbols,
     PackageClause, ImportFails, ImportCycle, RegisterDecl, RegisterVar, RegisterGroup, EndPass1,
     SkipImport, AnalyseDecl, AnalyseGroup, AnalyseVar, CheckPass1, IgnoredMain, CheckPass2,
     TrackUsage, FinishTrack
<1>. QED BY <1>1, <1>2, <1>3, <1>4, <1>5

\* The recursion of the import handlers never has a path on the stack twice,
\* for any number of packages: import_push_path cuts every cycle.
THEOREM StackTheorem == Spec => []NoPathTwice
<1>1. Init => StackInv
  BY DEF Init, StackInv, NoPathTwice
<1>2. StackInv /\ [Next]_vars => StackInv'
  <2>. SUFFICES ASSUME StackInv, [Next]_vars PROVE StackInv'
    OBVIOUS
  <2>1. CASE UNCHANGED importStack
    BY <2>1 DEF StackInv, NoPathTwice
  <2>2. CASE Decl.path \in Files /\ ~ OnStack(Decl.path) /\ importStack' = Append(importStack, Decl.path)
    BY <2>2 DEF StackInv, NoPathTwice, OnStack
  <2>3. CASE importStack' = SubSeq(importStack, 1, Len(importStack) - 1)
    BY <2>3 DEF StackInv, NoPathTwice
  <2>. QED BY <2>1, <2>2, <2>3, StackSteps DEF vars
<1>. QED BY <1>1, <1>2, PTL DEF Spec, StackInv

-----------------------------------------------------------------------------
(* Numbers and sequences.                                                  *)

\* A nonempty set of naturals has a least element.
LEMMA Least ==
  ASSUME NEW T \in SUBSET Nat, T # {}
  PROVE  \E x \in T : \A y \in T : x <= y
<1>1. \E x \in T : \A y \in T : ~ (<<y, x>> \in OpToRel(<, Nat))
  BY NatLessThanWellFounded, WFMin, Zenon
<1>2. ASSUME NEW x \in T, NEW y \in T, ~ (<<y, x>> \in OpToRel(<, Nat)) PROVE x <= y
  <2>1. ~ (y < x)
    BY <1>2, Zenon DEF OpToRel
  <2>. QED BY <2>1
<1>. QED BY <1>1, <1>2

\* A sequence with one entry replaced.
LEMMA Replace ==
  ASSUME NEW S, NEW s \in Seq(S), NEW i \in 1 .. Len(s), NEW e \in S
  PROVE  /\ [s EXCEPT ![i] = e] \in Seq(S)
         /\ Len([s EXCEPT ![i] = e]) = Len(s)
         /\ [s EXCEPT ![i] = e][i] = e
         /\ \A k \in 1 .. Len(s) : k # i => [s EXCEPT ![i] = e][k] = s[k]
OBVIOUS

\* ... also when the place is outside of the sequence, where nothing changes.
LEMMA ReplaceAnywhere ==
  ASSUME NEW S, NEW s \in Seq(S), NEW i, NEW e, i \in 1 .. Len(s) => e \in S
  PROVE  /\ [s EXCEPT ![i] = e] \in Seq(S)
         /\ Len([s EXCEPT ![i] = e]) = Len(s)
         /\ \A k \in 1 .. Len(s) : [s EXCEPT ![i] = e][k] = IF k = i THEN e ELSE s[k]
<1>1. CASE i \in 1 .. Len(s)
  BY <1>1
<1>2. CASE i \notin 1 .. Len(s)
  <2>1. [s EXCEPT ![i] = e] = s
    BY <1>2
  <2>. QED BY <1>2, <2>1
<1>. QED BY <1>1, <1>2

\* A sequence over a set is one over any larger set, and so is what is appended to it.
LEMMA Widen ==
  ASSUME NEW S, NEW T, S \subseteq T, NEW s \in Seq(S), NEW e \in T
  PROVE  Append(s, e) \in Seq(T)
<1>1. Len(s) \in Nat /\ s \in [1 .. Len(s) -> T]
  <2>1. Len(s) \in Nat /\ s \in [1 .. Len(s) -> S]
    OBVIOUS
  <2>. QED BY <2>1
<1>2. s \in Seq(T)
  BY <1>1
<1>. QED BY <1>2

\* A prefix of a sequence.
LEMMA Prefix ==
  ASSUME NEW S, NEW s \in Seq(S), NEW n \in 0 .. Len(s)
  PROVE  /\ SubSeq(s, 1, n) \in Seq(S) /\ Len(SubSeq(s, 1, n)) = n
         /\ n # 0 => SubSeq(s, 1, n) # <<>>
OBVIOUS

-----------------------------------------------------------------------------
\* The executing frame as a step leaves it.
Moved(f, stage, pc, from) == [f EXCEPT !.stage = stage, !.pc = pc, !.savedPending = from]
MoveTo(stage, pc, from) == [frames EXCEPT ![Depth] = Moved(Top, stage, pc, from)]
FramesOK == frames \in Seq(Frame) /\ frames # <<>>

\* The executing frame is a frame.
LEMMA TopType == FramesOK => Depth \in 1 .. Len(frames) /\ Depth \in Nat \ {0} /\ Top \in Frame
BY DEF FramesOK, Depth, Top

\* A frame moved to another stage keeps everything else.
LEMMA MovedType ==
  ASSUME NEW f \in Frame, NEW st \in Stages, NEW n \in Nat, NEW m \in Nat
  PROVE  LET g == Moved(f, st, n, m)
         IN  /\ g \in Frame /\ g.stage = st /\ g.pc = n /\ g.savedPending = m
             /\ g.imp = f.imp /\ g.savedCount = f.savedCount /\ g.how = f.how /\ g.file = f.file
BY DEF Moved, Frame

\* ... and so does the call stack.
LEMMA MoveType ==
  ASSUME FramesOK, NEW st \in Stages, NEW n \in Nat, NEW m \in Nat
  PROVE  /\ MoveTo(st, n, m) \in Seq(Frame) /\ MoveTo(st, n, m) # <<>>
         /\ Len(MoveTo(st, n, m)) = Depth
         /\ \A k \in 1 .. Depth : k # Depth => MoveTo(st, n, m)[k] = frames[k]
         /\ MoveTo(st, n, m)[Depth] = Moved(Top, st, n, m)
<1>1. Moved(Top, st, n, m) \in Frame
  BY MovedType, TopType
<1>. QED BY <1>1, TopType, Replace DEF MoveTo, FramesOK, Depth

\* The ways the actions move the executing frame.
LEMMA MoveForms ==
  ASSUME FramesOK
  PROVE  /\ \A st \in Stages : Goto(st) = MoveTo(st, Top.pc, Top.savedPending)
         /\ \A st \in Stages, n \in Nat : GotoAt(st, n) = MoveTo(st, n, Top.savedPending)
         /\ NextDecl = MoveTo(Top.stage, Top.pc + 1, Top.savedPending)
         /\ \A m : [frames EXCEPT ![Depth].stage = "runtime", ![Depth].savedPending = m]
                     = MoveTo("runtime", Top.pc, m)
         /\ Top.stage \in Stages /\ Top.pc \in Nat /\ Top.savedPending \in Nat
<1>1. Top \in Frame
  BY TopType
<1>2. Top.stage \in Stages /\ Top.pc \in Nat /\ Top.savedPending \in Nat
  BY <1>1 DEF Frame
<1>3. ASSUME NEW st \in Stages PROVE Goto(st) = MoveTo(st, Top.pc, Top.savedPending)
  <2>1. [Top EXCEPT !.stage = st] = Moved(Top, st, Top.pc, Top.savedPending)
    BY <1>1 DEF Frame, Moved
  <2>. QED BY <2>1 DEF Goto, MoveTo, Top
<1>4. ASSUME NEW st \in Stages, NEW n \in Nat PROVE GotoAt(st, n) = MoveTo(st, n, Top.savedPending)
  <2>1. [Top EXCEPT !.stage = st, !.pc = n] = Moved(Top, st, n, Top.savedPending)
    BY <1>1 DEF Frame, Moved
  <2>2. GotoAt(st, n) = [frames EXCEPT ![Depth] = [Top EXCEPT !.stage = st, !.pc = n]]
    BY TopType DEF GotoAt, Top, FramesOK, Depth
  <2>. QED BY <2>1, <2>2 DEF MoveTo
<1>5. NextDecl = MoveTo(Top.stage, Top.pc + 1, Top.savedPending)
  <2>1. [Top EXCEPT !.pc = Top.pc + 1] = Moved(Top, Top.stage, Top.pc + 1, Top.savedPending)
    BY <1>1 DEF Frame, Moved
  <2>. QED BY <2>1 DEF NextDecl, MoveTo, Top
<1>6. ASSUME NEW m PROVE [frames EXCEPT ![Depth].stage = "runtime", ![Depth].savedPending = m]
                          = MoveTo("runtime", Top.pc, m)
  <2>1. [Top EXCEPT !.stage = "runtime", !.savedPending = m] = Moved(Top, "runtime", Top.pc, m)
    BY <1>1 DEF Frame, Moved
  <2>2. [frames EXCEPT ![Depth].stage = "runtime", ![Depth].savedPending = m]
          = [frames EXCEPT ![Depth] = [Top EXCEPT !.stage = "runtime", !.savedPending = m]]
    BY TopType DEF Top, FramesOK, Depth
  <2>. QED BY <2>1, <2>2 DEF MoveTo
<1>. QED BY <1>2, <1>3, <1>4, <1>5, <1>6

-----------------------------------------------------------------------------
(* The saved and restored context.                                         *)

Registers(stage) == stage \in {"runtime", "intrinsics", "copy", "clause", "pass1"}
\* What the C call stack holds.
CallsInv ==
  /\ frames[1].imp = 0
  /\ \A k \in 2 .. Depth : frames[k].imp \in 1 .. Len(imports) /\ frames[k].savedCount = k - 2
  /\ \A k \in 1 .. Depth : frames[k].pc # 0
  /\ \A k \in 1 .. Depth : frames[k].savedPending <= Len(pending)
  /\ \A m, k \in 1 .. Depth : m <= k /\ Registering(frames[k]) =>
       frames[m].savedPending <= frames[k].savedPending
ControlInv == CallsInv /\ ScopesMatchCalls

\* The lengths and counters are naturals.
LEMMA SequenceTypes ==
  ASSUME TypeOK
  PROVE  /\ FramesOK /\ Len(imports) \in Nat /\ Len(pending) \in Nat /\ Len(scopes) \in Nat
         /\ Len(importStack) \in Nat /\ regDepth \in Nat
BY DEF TypeOK, FramesOK

\* The fields of a frame on the call stack.
LEMMA FrameTypes ==
  ASSUME FramesOK, NEW k \in 1 .. Depth
  PROVE  /\ frames[k] \in Frame /\ frames[k].imp \in Nat /\ frames[k].pc \in Nat
         /\ frames[k].savedPending \in Nat /\ frames[k].savedCount \in Nat
         /\ frames[k].stage \in Stages
<1>1. frames[k] \in Frame
  BY DEF FramesOK, Depth
<1>. QED BY <1>1 DEF Frame

\* A step within one call: the executing frame moves to another stage.
LEMMA MoveKeepsControl ==
  ASSUME TypeOK, ControlInv, NEW st \in Stages, NEW n \in Nat \ {0}, NEW from \in Nat,
         frames' = MoveTo(st, n, from),
         scopes' = scopes,
         regDepth' = (IF Registers(st) THEN Depth ELSE Depth - 1),
         Len(imports') = Len(imports), Len(pending') \in Nat,
         from <= Len(pending'),
         \A k \in 1 .. Depth - 1 : frames[k].savedPending <= Len(pending'),
         \A k \in 1 .. Depth - 1 : Registers(st) => frames[k].savedPending <= from
  PROVE  ControlInv'
<1>1. FramesOK /\ Depth \in Nat \ {0} /\ Top \in Frame
  BY SequenceTypes, TopType
<1>2. Len(frames') = Depth /\ Depth' = Depth
  BY <1>1, MoveType DEF Depth
<1>3. \A k \in 1 .. Depth - 1 : frames'[k] = frames[k] /\ Registering(frames[k])
  BY <1>1, MoveType DEF ControlInv, ScopesMatchCalls
<1>4. /\ frames'[Depth].stage = st /\ frames'[Depth].pc = n /\ frames'[Depth].savedPending = from
      /\ frames'[Depth].imp = Top.imp /\ frames'[Depth].savedCount = Top.savedCount
  <2>. DEFINE g == Moved(Top, st, n, from)
  <2>1. n \in Nat
    OBVIOUS
  <2>2. /\ g.stage = st /\ g.pc = n /\ g.savedPending = from
        /\ g.imp = Top.imp /\ g.savedCount = Top.savedCount
    BY ONLY <1>1, <2>1, st \in Stages, from \in Nat, MovedType
  <2>3. frames'[Depth] = g
    BY <1>1, MoveType
  <2>. QED BY <2>2, <2>3
<1>5. \A k \in 1 .. Depth : k \in 1 .. Depth - 1 \/ k = Depth
  BY <1>1
<1>6. \A k \in 1 .. Depth : frames'[k].imp = frames[k].imp /\ frames'[k].savedCount = frames[k].savedCount
  BY <1>3, <1>4, <1>5 DEF Top
<1>7. \A k \in 1 .. Depth - 1 : frames[k].savedPending \in Nat
  BY <1>1, FrameTypes
<1>8. CallsInv'
  <2>1. frames'[1].imp = 0
    BY <1>1, <1>6 DEF ControlInv, CallsInv
  <2>2. \A k \in 2 .. Depth : frames'[k].imp \in 1 .. Len(imports') /\ frames'[k].savedCount = k - 2
    BY <1>1, <1>6 DEF ControlInv, CallsInv
  <2>3. \A k \in 1 .. Depth : frames'[k].pc # 0
    BY <1>1, <1>3, <1>4, <1>5 DEF ControlInv, CallsInv
  <2>4. \A k \in 1 .. Depth : frames'[k].savedPending <= Len(pending')
    BY <1>3, <1>4, <1>5
  <2>5. ASSUME NEW m \in 1 .. Depth, NEW k \in 1 .. Depth, m <= k, Registering(frames'[k])
        PROVE  frames'[m].savedPending <= frames'[k].savedPending
    <3>1. CASE k = Depth
      <4>1. Registers(st)
        BY <1>4, <2>5, <3>1 DEF Registering, Registers
      <4>. QED BY <1>3, <1>4, <1>5, <3>1, <4>1
    <3>2. CASE k \in 1 .. Depth - 1
      <4>1. m \in 1 .. Depth - 1
        BY <1>1, <2>5, <3>2
      <4>. QED BY <1>1, <1>3, <2>5, <3>2, <4>1 DEF ControlInv, CallsInv
    <3>. QED BY <1>5, <3>1, <3>2
  <2>. QED BY <1>2, <2>1, <2>2, <2>3, <2>4, <2>5 DEF CallsInv
<1>9. ScopesMatchCalls'
  <2>1. Len(scopes') = Depth' - 1 /\ \A k \in 1 .. Depth' - 1 : Registering(frames'[k])
    BY <1>2, <1>3 DEF ScopesMatchCalls, ControlInv
  <2>2. \A k \in DOMAIN scopes' : scopes'[k] = frames'[k + 1].imp
    <3>1. DOMAIN scopes = 1 .. Depth - 1
      BY <1>1 DEF ScopesMatchCalls, ControlInv, TypeOK
    <3>. QED BY <1>1, <1>2, <1>6, <3>1 DEF ScopesMatchCalls, ControlInv
  <2>3. regDepth' = (IF Registering(Top') THEN Depth' ELSE Depth' - 1)
    BY <1>2, <1>4 DEF Top, Registering, Registers
  <2>. QED BY <2>1, <2>2, <2>3 DEF ScopesMatchCalls
<1>. QED BY <1>8, <1>9 DEF ControlInv

\* ... and when the step neither opens nor closes pass 1.
LEMMA StayKeepsControl ==
  ASSUME TypeOK, ControlInv, NEW st \in Stages, NEW n \in Nat \ {0},
         frames' = MoveTo(st, n, Top.savedPending),
         Registers(st) <=> Registers(Top.stage),
         UNCHANGED <<scopes, regDepth>>,
         Len(imports') = Len(imports), Len(pending') \in Nat, Len(pending') >= Len(pending)
  PROVE  ControlInv'
<1>1. FramesOK /\ Depth \in Nat \ {0} /\ Top.savedPending \in Nat
  BY SequenceTypes, TopType, MoveForms
<1>2. regDepth' = (IF Registers(st) THEN Depth ELSE Depth - 1)
  BY DEF ControlInv, ScopesMatchCalls, Registers, Registering
<1>3. \A k \in 1 .. Depth : frames[k].savedPending \in Nat /\ frames[k].savedPending <= Len(pending')
  BY <1>1, FrameTypes, SequenceTypes DEF ControlInv, CallsInv
<1>4. \A k \in 1 .. Depth - 1 : Registers(st) => frames[k].savedPending <= Top.savedPending
  BY <1>1 DEF ControlInv, CallsInv, Registers, Registering, Top
<1>5. Top.savedPending <= Len(pending')
  BY <1>1, <1>3 DEF Top
<1>6. PICK from \in Nat : from = Top.savedPending
  BY <1>1
<1>7. /\ frames' = MoveTo(st, n, from) /\ scopes' = scopes /\ from <= Len(pending')
      /\ \A k \in 1 .. Depth - 1 : frames[k].savedPending <= Len(pending')
      /\ \A k \in 1 .. Depth - 1 : Registers(st) => frames[k].savedPending <= from
  BY <1>1, <1>3, <1>4, <1>5, <1>6
<1>. QED BY ONLY TypeOK, ControlInv, st \in Stages, n \in Nat \ {0}, Len(imports') = Len(imports),
            Len(pending') \in Nat, <1>2, <1>7, MoveKeepsControl

\* A call: the importer's frame moves and the callee's is pushed, with the
\* scope of the package that is registered.
LEMMA AnalyseKeepsControl ==
  ASSUME TypeOK, ControlInv, Registering(Top),
         NEW pkg, NEW st \in Stages, NEW n \in Nat \ {0}, NEW how, NEW alias, NEW stage,
         Registers(st), stage = "enter" \/ stage = "return",
         Analyse(pkg, MoveTo(st, n, Top.savedPending), how, alias, stage),
         UNCHANGED <<pending, regDepth>>
  PROVE  ControlInv'
<1>. DEFINE here == MoveTo(st, n, Top.savedPending)
            f == [imp |-> Len(imports) + 1, file |-> pkg.file, stage |-> stage, pc |-> 1,
                  savedName |-> pkgName, savedPending |-> 0, savedCount |-> Len(scopes),
                  how |-> how, alias |-> alias]
<1>1. FramesOK /\ Depth \in Nat \ {0} /\ Top.savedPending \in Nat /\ Top \in Frame
  BY SequenceTypes, TopType, MoveForms
<1>2. here \in Seq(Frame) /\ Len(here) = Depth
  BY <1>1, MoveType
<1>3. \A k \in 1 .. Depth : k # Depth => here[k] = frames[k]
  BY <1>1, MoveType
<1>4. here[Depth] = Moved(Top, st, n, Top.savedPending)
  BY <1>1, MoveType
<1>5. /\ here[Depth].stage = st /\ here[Depth].pc = n /\ here[Depth].savedPending = Top.savedPending
      /\ here[Depth].imp = Top.imp /\ here[Depth].savedCount = Top.savedCount
  BY <1>1, <1>4, MovedType
<1>6. /\ frames' = Append(here, f)
      /\ scopes' = Append(scopes, Len(imports) + 1)
      /\ Len(imports') = Len(imports) + 1
  BY DEF Analyse, TypeOK
<1>. HIDE DEF here
<1>7. Len(frames') = Depth + 1 /\ frames'[Depth + 1] = f /\ \A k \in 1 .. Depth : frames'[k] = here[k]
  BY <1>1, <1>2, <1>6
<1>8. /\ f.imp = Len(imports) + 1 /\ f.pc = 1 /\ f.savedPending = 0 /\ f.savedCount = Len(scopes)
      /\ f.stage = stage
  OBVIOUS
<1>. HIDE DEF f
<1>9. \A k \in 1 .. Depth : /\ frames'[k].imp = frames[k].imp
                            /\ frames'[k].savedCount = frames[k].savedCount
                            /\ frames'[k].savedPending = frames[k].savedPending
                            /\ frames'[k].pc = IF k = Depth THEN n ELSE frames[k].pc
                            /\ Registering(frames'[k])
  <2>. SUFFICES ASSUME NEW k \in 1 .. Depth
               PROVE  /\ frames'[k].imp = frames[k].imp
                      /\ frames'[k].savedCount = frames[k].savedCount
                      /\ frames'[k].savedPending = frames[k].savedPending
                      /\ frames'[k].pc = IF k = Depth THEN n ELSE frames[k].pc
                      /\ Registering(frames'[k])
    OBVIOUS
  <2>1. CASE k = Depth
    BY <1>5, <1>7, <2>1 DEF Top, Registering, Registers
  <2>2. CASE k # Depth
    BY <1>1, <1>3, <1>7, <2>2 DEF Registering, ControlInv, ScopesMatchCalls
  <2>. QED BY <2>1, <2>2
<1>10. \A k \in 1 .. Depth : frames[k].savedPending \in Nat
  BY <1>1, FrameTypes
<1>11. ~ Registering(frames'[Depth + 1])
  BY <1>7, <1>8 DEF Registering
<1>12. Len(scopes) = Depth - 1 /\ DOMAIN scopes = 1 .. Depth - 1 /\ regDepth = Depth
  BY <1>1 DEF ControlInv, ScopesMatchCalls, TypeOK
<1>13. Depth' = Depth + 1 /\ Depth + 1 \in Nat
  BY <1>1, <1>7 DEF Depth
<1>14. \A k \in 1 .. Depth + 1 : k \in 1 .. Depth \/ k = Depth + 1
  BY <1>1
<1>15. frames'[1].imp = 0
  BY <1>1, <1>9 DEF ControlInv, CallsInv
<1>16. ASSUME NEW k \in 2 .. Depth + 1
       PROVE  frames'[k].imp \in 1 .. Len(imports') /\ frames'[k].savedCount = k - 2
  <2>1. CASE k = Depth + 1
    <3>1. Len(imports) \in Nat
      BY SequenceTypes
    <3>. QED BY <1>1, <1>6, <1>7, <1>8, <1>12, <2>1, <3>1
  <2>2. CASE k \in 2 .. Depth
    <3>1. Len(imports) \in Nat
      BY SequenceTypes
    <3>2. k \in 1 .. Depth
      BY <2>2
    <3>3. frames[k].imp \in 1 .. Len(imports) /\ frames[k].savedCount = k - 2
      BY <2>2 DEF ControlInv, CallsInv
    <3>4. Len(imports') = Len(imports) + 1
      BY <1>6
    <3>. QED BY <1>9, <3>1, <3>2, <3>3, <3>4
  <2>. QED BY <1>1, <2>1, <2>2
<1>17. ASSUME NEW k \in 1 .. Depth + 1
       PROVE  frames'[k].pc # 0 /\ frames'[k].savedPending <= Len(pending')
  <2>1. Len(pending) \in Nat
    BY SequenceTypes
  <2>2. CASE k = Depth + 1
    BY <1>7, <1>8, <2>1, <2>2
  <2>3. CASE k \in 1 .. Depth
    BY <1>9, <2>3 DEF ControlInv, CallsInv
  <2>. QED BY <1>14, <2>2, <2>3
<1>18. ASSUME NEW m \in 1 .. Depth + 1, NEW k \in 1 .. Depth + 1, m <= k, Registering(frames'[k])
       PROVE  frames'[m].savedPending <= frames'[k].savedPending
  <2>1. k \in 1 .. Depth
    BY <1>11, <1>14, <1>18
  <2>2. m \in 1 .. Depth
    BY <1>1, <1>18, <2>1
  <2>3. Registering(frames[k])
    BY <1>1, <2>1 DEF ControlInv, ScopesMatchCalls, Top
  <2>. QED BY <1>9, <1>18, <2>1, <2>2, <2>3 DEF ControlInv, CallsInv
<1>19. CallsInv'
  BY <1>13, <1>15, <1>16, <1>17, <1>18 DEF CallsInv
<1>20. ScopesMatchCalls'
  <2>1. Len(scopes') = Depth' - 1 /\ DOMAIN scopes' = 1 .. Depth
    BY <1>1, <1>6, <1>12, <1>13 DEF TypeOK
  <2>2. \A k \in 1 .. Depth' - 1 : Registering(frames'[k])
    BY <1>1, <1>9, <1>13
  <2>3. ASSUME NEW k \in DOMAIN scopes' PROVE scopes'[k] = frames'[k + 1].imp
    <3>1. CASE k = Depth
      BY <1>1, <1>6, <1>7, <1>8, <1>12, <3>1 DEF TypeOK
    <3>2. CASE k \in 1 .. Depth - 1
      <4>1. k + 1 \in 1 .. Depth /\ k \in DOMAIN scopes
        BY <1>1, <1>12, <3>2
      <4>2. scopes'[k] = scopes[k]
        BY <1>1, <1>6, <1>12, <3>2 DEF TypeOK
      <4>. QED BY <1>9, <4>1, <4>2 DEF ControlInv, ScopesMatchCalls
    <3>. QED BY <1>1, <2>1, <3>1, <3>2
  <2>4. regDepth' = (IF Registering(Top)' THEN Depth' ELSE Depth' - 1)
    BY <1>1, <1>11, <1>12, <1>13 DEF Top
  <2>. QED BY <2>1, <2>2, <2>3, <2>4 DEF ScopesMatchCalls
<1>. QED BY <1>19, <1>20 DEF ControlInv

\* The return from an import: the callee's frame is popped, and the scopes
\* are cut back to the count saved when it was pushed.
LEMMA ReturnKeepsControl ==
  ASSUME TypeOK, ControlInv, ReturnImport
  PROVE  ControlInv'
<1>1. FramesOK /\ Depth \in Nat \ {0} /\ Top \in Frame /\ Depth > 1
  BY SequenceTypes, TopType DEF ReturnImport
<1>2. Top.savedCount = Depth - 2 /\ Len(scopes) = Depth - 1 /\ DOMAIN scopes = 1 .. Depth - 1
  <2>1. Depth \in 2 .. Depth /\ \A k \in 2 .. Depth : frames[k].savedCount = k - 2
    BY <1>1 DEF ControlInv, CallsInv
  <2>2. Top.savedCount = Depth - 2
    BY <2>1 DEF Top
  <2>3. Len(scopes) = Depth - 1
    BY DEF ControlInv, ScopesMatchCalls
  <2>4. DOMAIN scopes = 1 .. Len(scopes)
    BY DEF TypeOK
  <2>. QED BY <2>2, <2>3, <2>4
<1>3. frames' = SubSeq(frames, 1, Depth - 1) /\ scopes' = SubSeq(scopes, 1, Depth - 2)
  BY <1>2 DEF ReturnImport, RestoredScopes
<1>4. Len(frames') = Depth - 1 /\ Depth' = Depth - 1 /\ \A k \in 1 .. Depth - 1 : frames'[k] = frames[k]
  BY <1>1, <1>3 DEF FramesOK, Depth
<1>5. Len(scopes') = Depth - 2 /\ DOMAIN scopes' = 1 .. Depth - 2 /\ \A k \in 1 .. Depth - 2 : scopes'[k] = scopes[k]
  BY <1>1, <1>2, <1>3 DEF TypeOK
<1>6. Len(imports') = Len(imports) /\ pending' = pending /\ regDepth' = regDepth
  <2>1. Len([imports EXCEPT ![Top.imp].name = Top.alias]) = Len(imports)
    BY DEF TypeOK
  <2>. QED BY <2>1 DEF ReturnImport
<1>7. regDepth = Depth - 1
  BY <1>1 DEF ReturnImport, ControlInv, ScopesMatchCalls, Registering
<1>8. CallsInv'
  <2>. USE DEF ControlInv, CallsInv
  <2>1. frames'[1].imp = 0
    BY <1>1, <1>4
  <2>2. \A k \in 2 .. Depth - 1 : frames'[k].imp \in 1 .. Len(imports') /\ frames'[k].savedCount = k - 2
    BY <1>1, <1>4, <1>6, SMTT(30)
  <2>3. \A k \in 1 .. Depth - 1 : frames'[k].pc # 0 /\ frames'[k].savedPending <= Len(pending')
    BY <1>1, <1>4, <1>6
  <2>4. ASSUME NEW m \in 1 .. Depth - 1, NEW k \in 1 .. Depth - 1, m <= k, Registering(frames'[k])
        PROVE  frames'[m].savedPending <= frames'[k].savedPending
    <3>1. m \in 1 .. Depth /\ k \in 1 .. Depth /\ frames'[k] = frames[k] /\ frames'[m] = frames[m]
      BY <1>1, <1>4
    <3>2. Registering(frames[k])
      BY <2>4, <3>1
    <3>. QED BY <2>4, <3>1, <3>2
  <2>. QED BY <1>4, <2>1, <2>2, <2>3, <2>4
<1>9. ScopesMatchCalls'
  <2>1. \A k \in 1 .. Depth - 1 : Registering(frames[k]) /\ Registering(frames'[k])
    BY <1>4 DEF ControlInv, ScopesMatchCalls
  <2>2. Registering(Top')
    BY <1>1, <1>4, <2>1 DEF Top
  <2>3. \A k \in DOMAIN scopes' : scopes'[k] = frames'[k + 1].imp
    BY <1>1, <1>2, <1>4, <1>5 DEF ControlInv, ScopesMatchCalls
  <2>. QED BY <1>1, <1>4, <1>5, <1>6, <1>7, <2>1, <2>2, <2>3 DEF ScopesMatchCalls
<1>. QED BY <1>8, <1>9 DEF ControlInv

-----------------------------------------------------------------------------
(* The helpers keep their types.                                           *)

\* generator_current_scope is a scope that exists.
LEMMA CurrentScopeType ==
  ASSUME TypeOK
  PROVE  CurrentScope \in 0 .. Len(imports) /\ CurrentScope \in Nat /\ syms[CurrentScope] \in Scope
<1>1. CurrentScope \in 0 .. Len(imports)
  BY DEF TypeOK, CurrentScope
<1>. QED BY <1>1 DEF TypeOK

\* scope_symbols_add_entry.
LEMMA AddEntryType ==
  ASSUME NEW s \in Scope, NEW id \in Ids, NEW v \in Values
  PROVE  AddEntry(s, id, v) \in Scope
<1>1. [val |-> v, priv |-> FALSE, llvm |-> NoLlvm] \in Symbols
  BY DEF Symbols
<1>2. ASSUME s[id] # NoSym PROVE [s[id] EXCEPT !.val = v] \in Symbols
  BY <1>2 DEF Symbols, Scope
<1>. QED BY <1>1, <1>2 DEF AddEntry, Scope

\* sem_set_symbol_private.
LEMMA SetPrivateType ==
  ASSUME NEW s \in Scope, NEW id \in Ids, NEW p
  PROVE  SetPrivate(s, id, p) \in Scope
<1>1. ASSUME s[id] # NoSym PROVE [s[id] EXCEPT !.priv = TRUE] \in Symbols
  BY <1>1 DEF Symbols, Scope
<1>. QED BY <1>1 DEF SetPrivate, Scope

\* The mangling of pass 2.
LEMMA MangleType ==
  ASSUME TypeOK, NEW s \in Scope, NEW id \in Ids
  PROVE  Mangle(s, id) \in Scope
<1>1. CASE importStack # <<>> /\ pkgName # NoName /\ s[id] # NoSym
  <2>1. <<pkgName, id>> \in Names \X Ids
    BY <1>1 DEF TypeOK
  <2>2. [s[id] EXCEPT !.llvm = <<pkgName, id>>] \in Symbols
    BY <1>1, <2>1 DEF Symbols, Scope
  <2>. QED BY <1>1, <2>2 DEF Mangle, Scope
<1>2. CASE ~ (importStack # <<>> /\ pkgName # NoName /\ s[id] # NoSym)
  BY <1>2 DEF Mangle
<1>. QED BY <1>1, <1>2

\* import_using_copy_symbol over a scope.
LEMMA CopyUsingType ==
  ASSUME NEW s \in Scope, NEW t \in Scope
  PROVE  CopyUsing(s, t) \in Scope
<1>. SUFFICES ASSUME NEW id \in Ids PROVE CopyUsing(s, t)[id] \in Symbols \cup {NoSym}
  BY DEF CopyUsing, Scope
<1>1. CASE ~ Exported(s[id])
  BY <1>1 DEF CopyUsing, Scope
<1>2. CASE Exported(s[id])
  <2>1. s[id] \in Symbols
    BY <1>2 DEF Exported, Scope
  <2>2. s[id].val \in Values /\ s[id].llvm \in (Names \X Ids) \cup {NoLlvm}
    BY <2>1 DEF Symbols
  <2>. DEFINE old == AddEntry(t, id, s[id].val)[id]
  <2>3. old \in Symbols
    <3>1. [val |-> s[id].val, priv |-> FALSE, llvm |-> NoLlvm] \in Symbols
      BY <2>2 DEF Symbols
    <3>2. ASSUME t[id] # NoSym PROVE [t[id] EXCEPT !.val = s[id].val] \in Symbols
      BY <2>2, <3>2 DEF Symbols, Scope
    <3>. QED BY <3>1, <3>2 DEF AddEntry, Scope
  <2>4. CopyUsing(s, t)[id] = IF s[id].llvm = NoLlvm THEN old ELSE [old EXCEPT !.llvm = s[id].llvm]
    BY <1>2 DEF CopyUsing
  <2>. HIDE DEF old
  <2>5. [old EXCEPT !.llvm = s[id].llvm] \in Symbols
    BY <2>2, <2>3 DEF Symbols
  <2>. QED BY <2>3, <2>4, <2>5
<1>. QED BY <1>1, <1>2

\* An entry of the current scope is replaced.
LEMMA CurrentEntryType ==
  ASSUME TypeOK, NEW s \in Scope, syms' = [syms EXCEPT ![CurrentScope] = s], Len(imports') = Len(imports)
  PROVE  syms' \in [0 .. Len(imports') -> Scope]
BY DEF TypeOK

\* parse_imported_path.
LEMMA ParsedType ==
  ASSUME TypeOK, NEW file \in Files
  PROVE  Parsed(file) \in Package
<1>1. prog[file].clause \in Names /\ prog[file].ignore \in BOOLEAN
  BY DEF TypeOK, SourceType
<1>2. Top.imp \in Nat
  BY SequenceTypes, TopType DEF Frame
<1>. QED BY <1>1, <1>2 DEF Parsed, Package

\* What a call leaves behind.
LEMMA AnalyseType ==
  ASSUME TypeOK, NEW pkg \in Package, NEW here \in Seq(Frame),
         NEW how \in {"prelude", "import", "named", "using"}, NEW alias \in Names, NEW stage \in Stages,
         Analyse(pkg, here, how, alias, stage)
  PROVE  /\ imports' \in Seq(Package) /\ syms' \in [0 .. Len(imports') -> Scope]
         /\ scopes' \in Seq(1 .. Len(imports')) /\ pkgName' \in Names \cup {NoName}
         /\ frames' \in Seq(Frame) /\ frames' # <<>>
<1>1. [pkg EXCEPT !.entered = (stage = "enter")] \in Package
  BY DEF Package
<1>2. imports' \in Seq(Package) /\ Len(imports') = Len(imports) + 1 /\ Len(imports) \in Nat
  BY <1>1 DEF Analyse, TypeOK
<1>3. syms' \in [0 .. Len(imports') -> Scope]
  <2>1. EmptyScope \in Scope
    BY DEF EmptyScope, Scope
  <2>2. ASSUME NEW s \in 0 .. Len(imports) + 1, s # Len(imports) + 1 PROVE syms[s] \in Scope
    <3>1. s \in 0 .. Len(imports)
      BY <1>2, <2>2
    <3>. QED BY <3>1 DEF TypeOK
  <2>3. syms' = [s \in 0 .. Len(imports) + 1 |-> IF s = Len(imports) + 1 THEN EmptyScope ELSE syms[s]]
    BY DEF Analyse
  <2>. QED BY <1>2, <2>1, <2>2, <2>3
<1>4. scopes' \in Seq(1 .. Len(imports'))
  <2>1. scopes \in Seq(1 .. Len(imports)) /\ scopes' = Append(scopes, Len(imports) + 1)
    BY DEF Analyse, TypeOK
  <2>2. 1 .. Len(imports) \subseteq 1 .. Len(imports') /\ Len(imports) + 1 \in 1 .. Len(imports')
    BY <1>2
  <2>. QED BY <2>1, <2>2, Widen
<1>5. pkgName' \in Names \cup {NoName}
  BY DEF Analyse
<1>6. frames' \in Seq(Frame) /\ frames' # <<>>
  <2>. DEFINE f == [imp |-> Len(imports) + 1, file |-> pkg.file, stage |-> stage, pc |-> 1,
                    savedName |-> pkgName, savedPending |-> 0, savedCount |-> Len(scopes),
                    how |-> how, alias |-> alias]
  <2>1. pkg.file \in Files
    BY DEF Package
  <2>2. Len(imports) + 1 \in Nat /\ Len(scopes) \in Nat /\ pkgName \in Names \cup {NoName}
    BY <1>2 DEF TypeOK
  <2>3. f \in Frame
    BY <2>1, <2>2 DEF Frame
  <2>4. frames' = Append(here, f)
    BY DEF Analyse
  <2>. HIDE DEF f
  <2>. QED BY <2>3, <2>4
<1>. QED BY <1>2, <1>3, <1>4, <1>5, <1>6

\* The registered packages keep what they are.
KeepsRoles ==
  /\ Len(imports') = Len(imports)
  /\ \A i \in 1 .. Len(imports) : /\ imports'[i].direct = imports[i].direct
                                  /\ imports'[i].by = imports[i].by
                                  /\ imports'[i].prelude = imports[i].prelude

\* When the roles stay, so does the relation of direct imports to the main program.
LEMMA RolesKeepDirect ==
  ASSUME TypeOK, imports' \in Seq(Package), KeepsRoles, DirectIffDeclaredByMain
  PROVE  DirectIffDeclaredByMain'
<1>1. DOMAIN imports = 1 .. Len(imports) /\ DOMAIN imports' = 1 .. Len(imports)
  BY DEF TypeOK, KeepsRoles
<1>. QED BY <1>1 DEF DirectIffDeclaredByMain, KeepsRoles

\* Marking a package as used.
LEMMA MarkType ==
  ASSUME TypeOK, NEW i, imports' = [imports EXCEPT ![i].used = TRUE]
  PROVE  imports' \in Seq(Package) /\ KeepsRoles
<1>1. imports \in Seq(Package)
  BY DEF TypeOK
<1>. DEFINE e == [imports[i] EXCEPT !.used = TRUE]
<1>2. ASSUME i \in 1 .. Len(imports)
      PROVE  /\ e \in Package
             /\ e.direct = imports[i].direct /\ e.by = imports[i].by /\ e.prelude = imports[i].prelude
  <2>1. imports[i] \in Package
    BY <1>1, <1>2
  <2>. QED BY <2>1 DEF Package
<1>3. imports' = [imports EXCEPT ![i] = e]
  OBVIOUS
<1>. HIDE DEF e
<1>4. /\ imports' \in Seq(Package) /\ Len(imports') = Len(imports)
      /\ \A k \in 1 .. Len(imports) : imports'[k] = IF k = i THEN e ELSE imports[k]
  <2>1. i \in 1 .. Len(imports) => e \in Package
    BY <1>2
  <2>2. /\ [imports EXCEPT ![i] = e] \in Seq(Package)
        /\ Len([imports EXCEPT ![i] = e]) = Len(imports)
        /\ \A k \in 1 .. Len(imports) : [imports EXCEPT ![i] = e][k] = IF k = i THEN e ELSE imports[k]
    BY ONLY <1>1, <2>1, ReplaceAnywhere
  <2>. QED BY ONLY <1>3, <2>2
<1>. QED BY <1>2, <1>4 DEF KeepsRoles

\* Giving a package its alias.
LEMMA RenameType ==
  ASSUME TypeOK, NEW i, NEW n \in Names, imports' = [imports EXCEPT ![i].name = n]
  PROVE  imports' \in Seq(Package) /\ KeepsRoles
<1>1. imports \in Seq(Package)
  BY DEF TypeOK
<1>. DEFINE e == [imports[i] EXCEPT !.name = n]
<1>2. ASSUME i \in 1 .. Len(imports)
      PROVE  /\ e \in Package
             /\ e.direct = imports[i].direct /\ e.by = imports[i].by /\ e.prelude = imports[i].prelude
  <2>1. imports[i] \in Package
    BY <1>1, <1>2
  <2>. QED BY <2>1 DEF Package
<1>3. imports' = [imports EXCEPT ![i] = e]
  OBVIOUS
<1>. HIDE DEF e
<1>4. /\ imports' \in Seq(Package) /\ Len(imports') = Len(imports)
      /\ \A k \in 1 .. Len(imports) : imports'[k] = IF k = i THEN e ELSE imports[k]
  <2>1. i \in 1 .. Len(imports) => e \in Package
    BY <1>2
  <2>2. /\ [imports EXCEPT ![i] = e] \in Seq(Package)
        /\ Len([imports EXCEPT ![i] = e]) = Len(imports)
        /\ \A k \in 1 .. Len(imports) : [imports EXCEPT ![i] = e][k] = IF k = i THEN e ELSE imports[k]
    BY ONLY <1>1, <2>1, ReplaceAnywhere
  <2>. QED BY ONLY <1>3, <2>2
<1>. QED BY <1>2, <1>4 DEF KeepsRoles

\* find_imported_package_by_name finds a registered package.
LEMMA FindImportType ==
  ASSUME TypeOK, NEW n, WithName(n) # {}
  PROVE  FindImport(n) \in 1 .. Len(imports) /\ FindImport(n) \in Nat
<1>1. WithName(n) \in SUBSET (1 .. Len(imports)) /\ Len(imports) \in Nat
  BY DEF WithName, TypeOK
<1>2. WithName(n) \in SUBSET Nat
  BY <1>1
<1>3. \E x \in WithName(n) : \A y \in WithName(n) : x <= y
  BY <1>2, Least
<1>4. FindImport(n) \in WithName(n)
  BY <1>3 DEF FindImport
<1>. QED BY <1>1, <1>4

\* The evaluation of a reference.
LEMMA EvalRefType ==
  ASSUME TypeOK, NEW r \in RefType, EvalRef(r)
  PROVE  /\ errors' \subseteq Report /\ resolved' \subseteq Resolution
         /\ imports' \in Seq(Package) /\ KeepsRoles
<1>1. Top.imp \in Nat /\ Top.pc \in Nat
  BY SequenceTypes, TopType DEF Frame
<1>2. errors' \subseteq Report
  <2>1. Reported("ref") \in Report
    BY <1>1 DEF Reported, Report
  <2>2. errors' = errors \/ errors' = errors \cup {Reported("ref")}
    BY DEF EvalRef
  <2>. QED BY <2>1, <2>2 DEF TypeOK
<1>3. resolved' \subseteq Resolution
  <2>1. CASE r = NoRef \/ ~ Resolves(r)
    BY <2>1 DEF EvalRef, TypeOK
  <2>2. CASE r # NoRef /\ Resolves(r)
    <3>1. Target(r) # NoName /\ r.id \in Ids
      BY <2>2 DEF Resolves, RefType
    <3>2. Target(r) \in Nat
      BY <3>1, FindImportType, CurrentScopeType DEF Target
    <3>3. [from |-> Top.imp, at |-> Top.pc, to |-> Target(r), id |-> r.id] \in Resolution
      BY <1>1, <3>1, <3>2 DEF Resolution
    <3>. QED BY <2>2, <3>3 DEF EvalRef, TypeOK
  <2>. QED BY <2>1, <2>2
<1>4. imports' \in Seq(Package) /\ KeepsRoles
  <2>1. CASE imports' = imports
    BY <2>1 DEF TypeOK, KeepsRoles
  <2>2. CASE imports' = [imports EXCEPT ![Target(r)].used = TRUE]
    BY <2>2, MarkType
  <2>. QED BY <2>1, <2>2 DEF EvalRef
<1>. QED BY <1>2, <1>3, <1>4

\* The declaration the loop is at, by its kind.
LEMMA DeclFields ==
  ASSUME TypeOK, CallsInv, AtDecl
  PROVE  /\ Decl.op \in ImportOps => Decl.alias \in Names
         /\ Decl.op \in {"proc", "const"} => Decl.id \in Ids /\ Decl.ref \in RefType
         /\ Decl.op = "var" => Decl.id \in Ids /\ Decl.ref \in RefType
         /\ Decl.op = "group" => Decl.id \in Ids
         /\ Top.file \in Files /\ Top.pc \in Nat \ {0} /\ Top.pc + 1 \in Nat \ {0}
<1>1. FramesOK /\ Top \in Frame /\ Depth \in 1 .. Depth
  BY SequenceTypes, TopType
<1>2. Top.file \in Files /\ Top.pc \in Nat /\ Top.pc # 0
  BY <1>1 DEF Frame, CallsInv, Top
<1>3. prog[Top.file].decls \in Seq(DeclType)
  BY <1>2 DEF TypeOK, SourceType
<1>4. Decl \in DeclType
  BY <1>2, <1>3 DEF AtDecl, Decl, Decls
<1>5. CASE Decl \in ImportDecl
  BY <1>2, <1>5 DEF ImportDecl, ImportOps
<1>6. CASE Decl \in ConstDecl
  BY <1>2, <1>6 DEF ConstDecl, ImportOps
<1>7. CASE Decl \in VarDecl
  BY <1>2, <1>7 DEF VarDecl, ImportOps
<1>8. CASE Decl \in GroupDecl
  BY <1>2, <1>8 DEF GroupDecl, ImportOps
<1>. QED BY <1>4, <1>5, <1>6, <1>7, <1>8 DEF DeclType

-----------------------------------------------------------------------------
(* The inductive invariant, one step per action.                           *)

IInv == TypeOK /\ ControlInv /\ DirectIffDeclaredByMain

\* The steps within a call that stay on one side of pass 1.
LEMMA StayKeepsInv ==
  ASSUME IInv, NEW st \in Stages, NEW n \in Nat \ {0},
         frames' = MoveTo(st, n, Top.savedPending),
         Registers(st) <=> Registers(Top.stage),
         UNCHANGED <<prog, scopes, importStack, regDepth, buildIgnored>>,
         imports' \in Seq(Package), KeepsRoles,
         syms' \in [0 .. Len(imports') -> Scope],
         pkgName' \in Names \cup {NoName},
         pending' \in Seq(Pending), Len(pending') >= Len(pending),
         resolved' \subseteq Resolution, errors' \subseteq Report,
         semOk' \in {"running", "ok", "failed"}
  PROVE  IInv'
<1>1. FramesOK /\ Top.savedPending \in Nat /\ n \in Nat
  BY SequenceTypes, MoveForms DEF IInv
<1>2. frames' \in Seq(Frame) /\ frames' # <<>>
  BY <1>1, MoveType
<1>3. TypeOK'
  BY <1>2 DEF IInv, TypeOK, KeepsRoles
<1>4. ControlInv'
  <2>1. Len(pending') \in Nat /\ Len(imports') = Len(imports)
    BY DEF KeepsRoles
  <2>. QED BY <2>1, StayKeepsControl DEF IInv
<1>5. DirectIffDeclaredByMain'
  BY RolesKeepDirect DEF IInv
<1>. QED BY <1>3, <1>4, <1>5 DEF IInv

\* The steps that import a package.
LEMMA AnalyseKeepsInv ==
  ASSUME IInv, Registering(Top), NEW pkg \in Package,
         pkg.direct <=> (pkg.by = 0 /\ pkg.prelude = "none"),
         NEW st \in Stages, Registers(st), NEW n \in Nat \ {0},
         NEW how \in {"prelude", "import", "named", "using"}, NEW alias \in Names,
         NEW stage \in {"enter", "return"},
         Analyse(pkg, MoveTo(st, n, Top.savedPending), how, alias, stage),
         importStack' \in Seq(Files),
         UNCHANGED <<prog, regDepth, pending, resolved, errors, buildIgnored, semOk>>
  PROVE  IInv'
<1>1. FramesOK /\ Top.savedPending \in Nat /\ n \in Nat
  BY SequenceTypes, MoveForms DEF IInv
<1>2. MoveTo(st, n, Top.savedPending) \in Seq(Frame)
  BY <1>1, MoveType
<1>3. stage \in Stages
  BY DEF Stages
<1>4. TypeOK'
  BY <1>2, <1>3, AnalyseType DEF IInv, TypeOK
<1>5. ControlInv'
  BY AnalyseKeepsControl DEF IInv
<1>6. DirectIffDeclaredByMain'
  <2>. DEFINE e == [pkg EXCEPT !.entered = (stage = "enter")]
  <2>1. e.direct = pkg.direct /\ e.by = pkg.by /\ e.prelude = pkg.prelude
    BY DEF Package
  <2>2. imports' = Append(imports, e)
    BY DEF Analyse
  <2>. HIDE DEF e
  <2>3. imports \in Seq(Package)
    BY DEF IInv, TypeOK
  <2>4. /\ DOMAIN imports' = 1 .. Len(imports) + 1 /\ imports'[Len(imports) + 1] = e
        /\ DOMAIN imports = 1 .. Len(imports) /\ Len(imports) \in Nat
        /\ \A i \in 1 .. Len(imports) : imports'[i] = imports[i]
    BY <2>2, <2>3
  <2>5. \A i \in 1 .. Len(imports) + 1 : i \in 1 .. Len(imports) \/ i = Len(imports) + 1
    BY <2>4
  <2>. QED BY <2>1, <2>4, <2>5 DEF DirectIffDeclaredByMain, IInv
<1>. QED BY <1>4, <1>5, <1>6 DEF IInv

\* A declared import is direct exactly when the main program declares it.
LEMMA DirectImport ==
  ASSUME IInv, Registering(Top)
  PROVE  IsDirect <=> Top.imp = 0
<1>1. FramesOK /\ Depth \in Nat \ {0}
  BY SequenceTypes, TopType DEF IInv
<1>2. regDepth = Depth
  BY DEF IInv, ControlInv, ScopesMatchCalls
<1>3. CASE Depth = 1
  BY <1>2, <1>3 DEF IInv, ControlInv, CallsInv, IsDirect, Top
<1>4. CASE Depth # 1
  BY <1>1, <1>2, <1>4 DEF IInv, ControlInv, CallsInv, IsDirect, Top
<1>. QED BY <1>3, <1>4

\* What the handlers have in common.
LEMMA ImportFacts ==
  ASSUME IInv, CanImport
  PROVE  /\ Registering(Top) /\ Registers(Top.stage) /\ Top.stage \in Stages
         /\ Decl.alias \in Names /\ Top.pc + 1 \in Nat \ {0}
         /\ NextDecl = MoveTo(Top.stage, Top.pc + 1, Top.savedPending)
         /\ Append(importStack, Decl.path) \in Seq(Files)
         /\ LET pkg == [Parsed(Decl.path) EXCEPT !.direct = IsDirect]
            IN  pkg \in Package /\ (pkg.direct <=> (pkg.by = 0 /\ pkg.prelude = "none"))
         /\ LET pkg == [Parsed(Decl.path) EXCEPT !.direct = IsDirect, !.isUsing = TRUE]
            IN  pkg \in Package /\ (pkg.direct <=> (pkg.by = 0 /\ pkg.prelude = "none"))
<1>1. Top.stage = "pass1" /\ AtDecl /\ Decl.op \in ImportOps /\ Decl.path \in Files
  BY DEF CanImport, AtImport
<1>2. Registering(Top) /\ Registers(Top.stage)
  BY <1>1 DEF Registering, Registers
<1>3. Decl.alias \in Names /\ Top.pc + 1 \in Nat \ {0}
  BY <1>1, DeclFields DEF IInv, ControlInv
<1>4. Top.stage \in Stages /\ NextDecl = MoveTo(Top.stage, Top.pc + 1, Top.savedPending)
  BY SequenceTypes, MoveForms DEF IInv
<1>5. Append(importStack, Decl.path) \in Seq(Files)
  BY <1>1 DEF IInv, TypeOK
<1>6. Parsed(Decl.path) \in Package /\ Parsed(Decl.path).by = Top.imp /\ Parsed(Decl.path).prelude = "none"
  BY <1>1, ParsedType DEF IInv, Parsed
<1>7. IsDirect \in BOOLEAN /\ (IsDirect <=> Top.imp = 0)
  BY <1>2, DirectImport DEF IsDirect
<1>. QED BY <1>2, <1>3, <1>4, <1>5, <1>6, <1>7 DEF Package

\* What a step that stays in its call starts from.
LEMMA StayFacts ==
  ASSUME IInv
  PROVE  /\ TypeOK /\ CallsInv /\ FramesOK /\ Depth \in Nat \ {0} /\ Top \in Frame
         /\ Top.stage \in Stages /\ Top.pc \in Nat \ {0} /\ Top.pc + 1 \in Nat \ {0}
         /\ NextDecl = MoveTo(Top.stage, Top.pc + 1, Top.savedPending)
         /\ imports \in Seq(Package) /\ syms \in [0 .. Len(imports) -> Scope]
         /\ pkgName \in Names \cup {NoName} /\ pending \in Seq(Pending) /\ Len(pending) >= Len(pending)
         /\ resolved \subseteq Resolution /\ errors \subseteq Report
         /\ semOk \in {"running", "ok", "failed"}
<1>1. TypeOK /\ CallsInv /\ FramesOK /\ Depth \in Nat \ {0} /\ Top \in Frame
  BY SequenceTypes, TopType DEF IInv, ControlInv
<1>2. Top.stage \in Stages /\ Top.pc \in Nat /\ NextDecl = MoveTo(Top.stage, Top.pc + 1, Top.savedPending)
  BY <1>1, MoveForms
<1>3. Top.pc # 0
  BY <1>1 DEF CallsInv, Top
<1>4. Top.pc \in Nat \ {0} /\ Top.pc + 1 \in Nat \ {0}
  BY <1>2, <1>3
<1>5. Len(pending) >= Len(pending)
  BY SequenceTypes DEF IInv
<1>6. /\ imports \in Seq(Package) /\ syms \in [0 .. Len(imports) -> Scope]
      /\ pkgName \in Names \cup {NoName} /\ pending \in Seq(Pending)
      /\ resolved \subseteq Resolution /\ errors \subseteq Report
      /\ semOk \in {"running", "ok", "failed"}
  BY <1>1 DEF TypeOK
<1>. QED BY <1>1, <1>2, <1>4, <1>5, <1>6

\* RegisterDecl, RegisterVar, RegisterGroup.
LEMMA RegisterKeepsInv ==
  ASSUME IInv, RegisterDecl \/ RegisterVar \/ RegisterGroup
  PROVE  IInv'
<1>1. AtDecl /\ Top.file \in Files /\ Decl.id \in Ids
  BY StayFacts, DeclFields DEF RegisterDecl, RegisterVar, RegisterGroup
<1>2. \A kind \in {"proc", "const", "var", "group", "null"} :
        LET s == AddEntry(syms[CurrentScope], Decl.id, [file |-> Top.file, id |-> Decl.id, kind |-> kind])
        IN  s \in Scope /\ SetPrivate(s, Decl.id, Decl.priv) \in Scope
  <2>. TAKE kind \in {"proc", "const", "var", "group", "null"}
  <2>1. [file |-> Top.file, id |-> Decl.id, kind |-> kind] \in Values
    BY <1>1 DEF Values
  <2>. QED BY <1>1, <2>1, StayFacts, CurrentScopeType, AddEntryType, SetPrivateType
<1>3. \E s \in Scope : syms' = [syms EXCEPT ![CurrentScope] = s]
  <2>1. CASE RegisterDecl
    <3>1. (IF Decl.op = "proc" THEN "proc" ELSE "null") \in {"proc", "const", "var", "group", "null"}
      OBVIOUS
    <3>. QED BY <1>2, <2>1, <3>1 DEF RegisterDecl
  <2>2. CASE RegisterVar
    BY <1>2, <2>2 DEF RegisterVar
  <2>3. CASE RegisterGroup
    <3>. DEFINE allOk == ValidCandidates(Decl) = Decl.cands
    <3>1. (IF allOk /\ Decl.cands # {} THEN "group" ELSE "null") \in {"proc", "const", "var", "group", "null"}
      OBVIOUS
    <3>. QED BY <1>2, <2>3, <3>1 DEF RegisterGroup
  <2>. QED BY <2>1, <2>2, <2>3
<1>4. /\ UNCHANGED <<prog, imports, scopes, importStack, regDepth, pkgName, resolved, errors, buildIgnored, semOk>>
      /\ frames' = NextDecl
  BY DEF RegisterDecl, RegisterVar, RegisterGroup
<1>5. pending' \in Seq(Pending) /\ Len(pending') >= Len(pending)
  <2>1. [imp |-> Top.imp, file |-> Top.file, at |-> Top.pc] \in Pending
    BY <1>1, StayFacts DEF Pending, Frame
  <2>2. pending' = pending \/ pending' = Append(pending, [imp |-> Top.imp, file |-> Top.file, at |-> Top.pc])
    BY DEF RegisterDecl, RegisterVar, RegisterGroup
  <2>. DEFINE b == [imp |-> Top.imp, file |-> Top.file, at |-> Top.pc]
  <2>3. pending \in Seq(Pending)
    BY StayFacts
  <2>. HIDE DEF b
  <2>4. CASE pending' = pending
    BY <2>3, <2>4
  <2>5. CASE pending' = Append(pending, b)
    <3>1. b \in Pending
      BY <2>1 DEF b
    <3>. QED BY ONLY <2>3, <2>5, <3>1
  <2>. QED BY <2>2, <2>4, <2>5 DEF b
<1>6. KeepsRoles
  BY <1>4 DEF KeepsRoles
<1>7. syms' \in [0 .. Len(imports') -> Scope]
  BY <1>3, <1>4, StayFacts, CurrentEntryType
<1>. QED BY <1>4, <1>5, <1>6, <1>7, StayFacts, StayKeepsInv

\* AnalyseDecl, AnalyseGroup, AnalyseVar.
LEMMA AnalyseDeclsKeepsInv ==
  ASSUME IInv, AnalyseDecl \/ AnalyseGroup \/ AnalyseVar
  PROVE  IInv'
<1>1. AtDecl /\ Top.file \in Files /\ Decl.id \in Ids /\ (Decl.op # "group" => Decl.ref \in RefType)
  BY StayFacts, DeclFields DEF AnalyseDecl, AnalyseGroup, AnalyseVar
<1>2. ASSUME NEW kind \in {"proc", "const", "var", "group", "null"}
      PROVE  LET v == [file |-> Top.file, id |-> Decl.id, kind |-> kind]
             IN  /\ AddEntry(syms[CurrentScope], Decl.id, v) \in Scope
                 /\ AddEntry(Mangle(syms[CurrentScope], Decl.id), Decl.id, v) \in Scope
  <2>1. [file |-> Top.file, id |-> Decl.id, kind |-> kind] \in Values
    BY <1>1 DEF Values
  <2>2. syms[CurrentScope] \in Scope /\ Mangle(syms[CurrentScope], Decl.id) \in Scope
    BY <1>1, StayFacts, CurrentScopeType, MangleType
  <2>. QED BY <1>1, <2>1, <2>2, AddEntryType
<1>3. \E s \in Scope : syms' = [syms EXCEPT ![CurrentScope] = s]
  <2>1. CASE AnalyseDecl
    <3>1. Decl.op \in {"proc", "const", "var", "group", "null"}
      BY <2>1 DEF AnalyseDecl
    <3>. QED BY <1>2, <2>1, <3>1 DEF AnalyseDecl
  <2>2. CASE AnalyseGroup
    <3>1. (IF ValidCandidates(Decl) # {} THEN "group" ELSE "null") \in {"proc", "const", "var", "group", "null"}
      OBVIOUS
    <3>. QED BY <1>2, <2>2, <3>1 DEF AnalyseGroup
  <2>3. CASE AnalyseVar
    BY <1>2, <2>3 DEF AnalyseVar
  <2>. QED BY <2>1, <2>2, <2>3
<1>4. /\ UNCHANGED <<prog, scopes, importStack, regDepth, pkgName, pending, buildIgnored, semOk>>
      /\ frames' = NextDecl
  BY DEF AnalyseDecl, AnalyseGroup, AnalyseVar
<1>5. /\ errors' \subseteq Report /\ resolved' \subseteq Resolution
      /\ imports' \in Seq(Package) /\ KeepsRoles
  <2>1. CASE AnalyseDecl \/ AnalyseVar
    <3>1. EvalRef(Decl.ref) /\ Decl.ref \in RefType
      BY <1>1, <2>1 DEF AnalyseDecl, AnalyseVar
    <3>. QED BY <3>1, StayFacts, EvalRefType
  <2>2. CASE AnalyseGroup
    <3>1. Reported("group") \in Report
      BY StayFacts DEF Reported, Report, Frame
    <3>2. errors' \subseteq errors \cup {Reported("group")} /\ imports' = imports /\ resolved' = resolved
      BY <2>2 DEF AnalyseGroup
    <3>. QED BY <3>1, <3>2, StayFacts DEF KeepsRoles
  <2>. QED BY <2>1, <2>2
<1>6. syms' \in [0 .. Len(imports') -> Scope]
  BY <1>3, <1>5, StayFacts, CurrentEntryType DEF KeepsRoles
<1>7. /\ pending' \in Seq(Pending) /\ Len(pending') >= Len(pending)
      /\ pkgName' \in Names \cup {NoName} /\ semOk' \in {"running", "ok", "failed"}
  BY <1>4, StayFacts
<1>8. /\ frames' = MoveTo(Top.stage, Top.pc + 1, Top.savedPending)
      /\ Top.stage \in Stages /\ Top.pc + 1 \in Nat \ {0}
  BY <1>4, StayFacts
<1>. QED BY <1>4, <1>5, <1>6, <1>7, <1>8, StayKeepsInv

\* The actions that only move the executing frame and write typed values.
LEMMA PlainMovesKeepInv ==
  ASSUME IInv,
         \/ SkipPrelude \/ CopyRuntimeSymbols \/ PackageClause \/ ImportFails \/ ImportCycle
         \/ SkipImport \/ CheckPass1 \/ IgnoredMain \/ CheckPass2 \/ TrackUsage \/ FinishTrack
  PROVE  IInv'
<1>. USE StayFacts
<1>1. ASSUME NEW st \in Stages
      PROVE  /\ Goto(st) = MoveTo(st, Top.pc, Top.savedPending)
             /\ GotoAt(st, 1) = MoveTo(st, 1, Top.savedPending) /\ 1 \in Nat \ {0}
  BY MoveForms
<1>2. CASE SkipPrelude
  <2>1. CASE Top.stage = "runtime" /\ frames' = Goto("intrinsics")
    <3>1. "intrinsics" \in Stages /\ (Registers("intrinsics") <=> Registers(Top.stage))
      BY <2>1 DEF Stages, Registers
    <3>. QED BY <1>1, <1>2, <2>1, <3>1, StayKeepsInv DEF SkipPrelude, KeepsRoles
  <2>2. CASE Top.stage = "intrinsics" /\ frames' = Goto("copy")
    <3>1. "copy" \in Stages /\ (Registers("copy") <=> Registers(Top.stage))
      BY <2>2 DEF Stages, Registers
    <3>. QED BY <1>1, <1>2, <2>2, <3>1, StayKeepsInv DEF SkipPrelude, KeepsRoles
  <2>. QED BY <1>2, <2>1, <2>2 DEF SkipPrelude
<1>3. CASE CopyRuntimeSymbols
  <2>1. "clause" \in Stages /\ (Registers("clause") <=> Registers(Top.stage)) /\ frames' = Goto("clause")
    BY <1>3 DEF CopyRuntimeSymbols, Stages, Registers
  <2>2. syms' \in [0 .. Len(imports) -> Scope]
    <3>1. CASE syms' = syms
      BY <3>1
    <3>2. CASE /\ HasPrelude("runtime")
               /\ syms' = [syms EXCEPT ![CurrentScope] = CopyUsing(syms[RuntimeAt], syms[CurrentScope])]
      <4>1. RuntimeAt \in 1 .. Len(imports)
        <5>. DEFINE T == {i \in DOMAIN imports : imports[i].prelude = "runtime"}
        <5>1. DOMAIN imports = 1 .. Len(imports) /\ Len(imports) \in Nat
          OBVIOUS
        <5>2. T \in SUBSET Nat /\ T # {}
          BY <3>2, <5>1 DEF HasPrelude
        <5>3. PICK x \in T : \A y \in T : x <= y
          BY <5>2, Least
        <5>4. \A j \in 1 .. x - 1 : imports[j].prelude # "runtime"
          <6>. SUFFICES ASSUME NEW j \in 1 .. x - 1, imports[j].prelude = "runtime" PROVE FALSE
            OBVIOUS
          <6>1. x \in 1 .. Len(imports)
            BY <5>1, <5>3
          <6>2. j \in T
            BY <5>1, <6>1
          <6>3. x <= j
            BY <5>3, <6>2
          <6>. QED BY <6>1, <6>3
        <5>5. RuntimeAt \in DOMAIN imports
          BY <5>3, <5>4, Zenon DEF RuntimeAt
        <5>. QED BY <5>1, <5>5
      <4>2. syms[RuntimeAt] \in Scope
        BY <4>1
      <4>3. CopyUsing(syms[RuntimeAt], syms[CurrentScope]) \in Scope
        BY <4>2, CurrentScopeType, CopyUsingType
      <4>. QED BY <3>2, <4>3
    <3>. QED BY <1>3, <3>1, <3>2 DEF CopyRuntimeSymbols
  <2>. QED BY <1>1, <1>3, <2>1, <2>2, StayKeepsInv DEF CopyRuntimeSymbols, KeepsRoles
<1>4. CASE PackageClause
  <2>1. "pass1" \in Stages /\ (Registers("pass1") <=> Registers(Top.stage)) /\ frames' = GotoAt("pass1", 1)
    BY <1>4 DEF PackageClause, Stages, Registers
  <2>2. pkgName' \in Names
    <3>1. Top.file \in Files
      BY DEF Frame
    <3>. QED BY <1>4, <3>1 DEF PackageClause, TypeOK, SourceType
  <2>. QED BY <1>1, <1>4, <2>1, <2>2, StayKeepsInv DEF PackageClause, KeepsRoles
<1>5. CASE ImportFails
  <2>1. Reported("import") \in Report
    BY DEF Reported, Report, Frame
  <2>2. errors' \subseteq Report /\ frames' = NextDecl
    BY <1>5, <2>1 DEF ImportFails
  <2>. QED BY <1>5, <2>2, StayKeepsInv DEF ImportFails, KeepsRoles
<1>6. CASE ImportCycle
  BY <1>6, StayKeepsInv DEF ImportCycle, KeepsRoles
<1>7. CASE SkipImport
  BY <1>7, StayKeepsInv DEF SkipImport, KeepsRoles
<1>8. CASE CheckPass1
  <2>1. {"return", "pass2"} \subseteq Stages /\ \A st \in {"return", "pass2"} : Registers(st) <=> Registers(Top.stage)
    BY <1>8 DEF CheckPass1, Stages, Registers
  <2>2. CASE errors # {}
    BY <1>1, <1>8, <2>1, <2>2, StayKeepsInv DEF CheckPass1, KeepsRoles
  <2>3. CASE errors = {}
    BY <1>1, <1>8, <2>1, <2>3, StayKeepsInv DEF CheckPass1, KeepsRoles
  <2>. QED BY <2>2, <2>3
<1>9. CASE IgnoredMain
  BY <1>9 DEF IgnoredMain, IInv, TypeOK, ControlInv, CallsInv, ScopesMatchCalls, DirectIffDeclaredByMain, Depth, Top
<1>10. CASE CheckPass2
  <2>1. {"return", "track"} \subseteq Stages /\ \A st \in {"return", "track"} : Registers(st) <=> Registers(Top.stage)
    BY <1>10 DEF CheckPass2, Stages, Registers
  <2>2. CASE errors # {}
    BY <1>1, <1>10, <2>1, <2>2, StayKeepsInv DEF CheckPass2, KeepsRoles
  <2>3. CASE errors = {}
    BY <1>1, <1>10, <2>1, <2>3, StayKeepsInv DEF CheckPass2, KeepsRoles
  <2>. QED BY <2>2, <2>3
<1>11. CASE TrackUsage
  <2>1. imports' \in Seq(Package) /\ KeepsRoles
    <3>1. CASE imports' = imports
      BY <3>1 DEF KeepsRoles
    <3>2. CASE \E i : imports' = [imports EXCEPT ![i].used = TRUE]
      BY <3>2, MarkType
    <3>. QED BY <1>11, <3>1, <3>2, Zenon DEF TrackUsage
  <2>. QED BY <1>11, <2>1, StayKeepsInv DEF TrackUsage, KeepsRoles
<1>12. CASE FinishTrack
  <2>1. imports' \in Seq(Package) /\ KeepsRoles
    <3>1. \A i \in 1 .. Len(imports) : LET e == [imports[i] EXCEPT !.used = TRUE]
                                       IN  e \in Package /\ e.direct = imports[i].direct
                                             /\ e.by = imports[i].by /\ e.prelude = imports[i].prelude
      <4>. TAKE i \in 1 .. Len(imports)
      <4>1. imports[i] \in Package
        OBVIOUS
      <4>. QED BY ONLY <4>1 DEF Package
    <3>2. imports' = [i \in 1 .. Len(imports) |->
                        IF imports[i].direct THEN imports[i] ELSE [imports[i] EXCEPT !.used = TRUE]]
      BY <1>12 DEF FinishTrack
    <3>. QED BY <3>1, <3>2 DEF KeepsRoles
  <2>2. "return" \in Stages /\ (Registers("return") <=> Registers(Top.stage)) /\ frames' = Goto("return")
    BY <1>12 DEF FinishTrack, Stages, Registers
  <2>. QED BY <1>1, <1>12, <2>1, <2>2, StayKeepsInv DEF FinishTrack, KeepsRoles
<1>. QED BY <1>2, <1>3, <1>4, <1>5, <1>6, <1>7, <1>8, <1>9, <1>10, <1>11, <1>12

\* EnterPass1 opens pass 1 and takes the snapshot of the deferred bundles.
LEMMA EnterKeepsInv ==
  ASSUME IInv, EnterPass1
  PROVE  IInv'
<1>. USE StayFacts
<1>1. Top.file \in Files /\ prog[Top.file].ignore \in BOOLEAN
  BY DEF Frame, TypeOK, SourceType
<1>2. buildIgnored' \in BOOLEAN
  BY <1>1 DEF EnterPass1, TypeOK
<1>3. /\ UNCHANGED <<prog, imports, syms, scopes, importStack, pkgName, pending, resolved, errors, semOk>>
      /\ Top.stage = "enter" /\ Len(pending) \in Nat
  BY DEF EnterPass1
<1>4. regDepth = Depth - 1
  BY <1>3 DEF IInv, ControlInv, ScopesMatchCalls, Registering
<1>5. \A k \in 1 .. Depth : frames[k].savedPending \in Nat /\ frames[k].savedPending <= Len(pending)
  BY FrameTypes DEF CallsInv
<1>6. PICK st \in Stages, from \in Nat :
        /\ frames' = MoveTo(st, Top.pc, from)
        /\ from <= Len(pending)
        /\ regDepth' = (IF Registers(st) THEN Depth ELSE Depth - 1)
        /\ Registers(st) => from = Len(pending)
  <2>1. CASE buildIgnored'
    <3>1. "return" \in Stages /\ ~ Registers("return")
      BY DEF Stages, Registers
    <3>2. frames' = MoveTo("return", Top.pc, Top.savedPending)
      BY <2>1, <3>1, MoveForms DEF EnterPass1
    <3>3. Top.savedPending \in Nat /\ Top.savedPending <= Len(pending)
      BY <1>5 DEF Top
    <3>. QED BY <1>4, <2>1, <3>1, <3>2, <3>3 DEF EnterPass1
  <2>2. CASE ~ buildIgnored'
    <3>1. "runtime" \in Stages /\ Registers("runtime")
      BY DEF Stages, Registers
    <3>2. frames' = MoveTo("runtime", Top.pc, Len(pending)) /\ regDepth' = regDepth + 1
      BY <2>2, <3>1, MoveForms DEF EnterPass1
    <3>. QED BY <1>3, <1>4, <3>1, <3>2
  <2>. QED BY <2>1, <2>2
<1>7. ControlInv'
  BY <1>3, <1>5, <1>6, MoveKeepsControl DEF IInv
<1>8. TypeOK'
  <2>1. frames' \in Seq(Frame) /\ frames' # <<>>
    BY <1>6, MoveType
  <2>2. regDepth' \in Nat
    BY <1>6
  <2>. QED BY <1>2, <1>3, <2>1, <2>2 DEF TypeOK
<1>9. DirectIffDeclaredByMain'
  BY <1>3 DEF IInv, DirectIffDeclaredByMain
<1>. QED BY <1>7, <1>8, <1>9 DEF IInv

\* EndPass1 closes pass 1 and cuts the deferred bundles back to the snapshot.
LEMMA EndPass1KeepsInv ==
  ASSUME IInv, EndPass1
  PROVE  IInv'
<1>. USE StayFacts
<1>1. /\ UNCHANGED <<prog, imports, scopes, importStack, pkgName, resolved, buildIgnored, semOk>>
      /\ Top.stage = "pass1" /\ regDepth' = regDepth - 1
  BY DEF EndPass1
<1>2. Registering(Top) /\ regDepth = Depth
  BY <1>1 DEF IInv, ControlInv, ScopesMatchCalls, Registering
<1>3. \A k \in 1 .. Depth : /\ frames[k].savedPending \in Nat /\ frames[k].savedPending <= Len(pending)
                            /\ frames[k].savedPending <= Top.savedPending
  BY <1>2, FrameTypes, SMTT(30) DEF CallsInv, Top
<1>4. Top.savedPending \in Nat /\ Top.savedPending <= Len(pending)
  BY <1>3 DEF Top
<1>5. pending' \in Seq(Pending) /\ Len(pending') = Top.savedPending
  <2>1. pending' = SubSeq(pending, 1, Top.savedPending)
    BY DEF EndPass1
  <2>. QED BY <1>4, <2>1
<1>6. PICK st \in {"check", "pass2"}, n \in Nat \ {0} : frames' = MoveTo(st, n, Top.savedPending)
  <2>1. "check" \in Stages /\ "pass2" \in Stages
    BY DEF Stages
  <2>2. CASE Depth = 1
    BY <2>1, <2>2, MoveForms DEF EndPass1
  <2>3. CASE Depth # 1
    <3>1. frames' = GotoAt("pass2", 1)
      BY <2>3 DEF EndPass1
    <3>2. GotoAt("pass2", 1) = MoveTo("pass2", 1, Top.savedPending)
      BY <2>1, MoveForms
    <3>. QED BY <3>1, <3>2
  <2>. QED BY <2>2, <2>3
<1>7. st \in Stages /\ ~ Registers(st)
  BY DEF Stages, Registers
<1>8. ControlInv'
  BY <1>1, <1>2, <1>3, <1>4, <1>5, <1>6, <1>7, MoveKeepsControl, SMTT(30) DEF IInv
<1>9. frames' \in Seq(Frame) /\ frames' # <<>> /\ regDepth' \in Nat
  BY <1>1, <1>2, <1>4, <1>6, <1>7, MoveType, SMTT(30)
<1>10. errors' \subseteq Report
  <2>. DEFINE decl(k) == prog[pending[k].file].decls[pending[k].at]
              bad == {j \in Deferred(Top) : ValidCandidates(decl(j)) # decl(j).cands}
  <2>1. errors' = errors \cup {[what |-> "group", imp |-> Top.imp, at |-> pending[k].at] : k \in bad}
    BY DEF EndPass1
  <2>2. ASSUME NEW k \in bad PROVE [what |-> "group", imp |-> Top.imp, at |-> pending[k].at] \in Report
    <3>1. k \in 1 .. Len(pending)
      BY <1>4 DEF Deferred
    <3>2. pending[k] \in Pending
      BY <3>1
    <3>3. pending[k].at \in Nat /\ Top.imp \in Nat
      BY <3>2 DEF Pending, Frame
    <3>. QED BY <3>3 DEF Report
  <2>. HIDE DEF bad
  <2>. QED BY <2>1, <2>2
<1>11. syms' \in [0 .. Len(imports) -> Scope]
  <2>. DEFINE decl(k)  == prog[pending[k].file].decls[pending[k].at]
              found(k) == \E j \in Deferred(Top) : decl(j).id = k
              kind(id) == IF \E j \in Deferred(Top) : decl(j).id = id /\ ValidCandidates(decl(j)) # {}
                            THEN "group" ELSE "null"
              value(id) == [syms[CurrentScope][id] EXCEPT !.val.kind = kind(id)]
              now == [id \in Ids |-> IF found(id) /\ syms[CurrentScope][id] # NoSym
                                       THEN value(id) ELSE syms[CurrentScope][id]]
  <2>1. syms' = [syms EXCEPT ![CurrentScope] = now]
    BY DEF EndPass1
  <2>2. ASSUME NEW id \in Ids, syms[CurrentScope][id] # NoSym PROVE value(id) \in Symbols
    <3>1. syms[CurrentScope][id] \in Symbols
      BY <2>2, CurrentScopeType DEF Scope
    <3>2. syms[CurrentScope][id].val \in Values
      BY <3>1 DEF Symbols
    <3>3. kind(id) \in {"proc", "const", "var", "group", "null"}
      OBVIOUS
    <3>. HIDE DEF kind
    <3>4. [syms[CurrentScope][id].val EXCEPT !.kind = kind(id)] \in Values
      BY <3>2, <3>3 DEF Values
    <3>. QED BY <3>1, <3>4 DEF Symbols
  <2>. HIDE DEF value, found
  <2>3. now \in Scope
    BY <2>2, CurrentScopeType DEF Scope
  <2>. HIDE DEF now
  <2>. QED BY <2>1, <2>3, CurrentScopeType
<1>12. TypeOK'
  BY <1>1, <1>5, <1>9, <1>10, <1>11 DEF TypeOK
<1>13. DirectIffDeclaredByMain'
  BY <1>1 DEF IInv, DirectIffDeclaredByMain
<1>. QED BY <1>8, <1>12, <1>13 DEF IInv

\* The preludes are never direct imports.
LEMMA PreludesKeepInv ==
  ASSUME IInv, AutoImportRuntime \/ AutoImportIntrinsics
  PROVE  IInv'
<1>. USE StayFacts
<1>1. RuntimeName \in Names /\ IntrinsicsName \in Names
  BY ConstantsAssumption
<1>2. CASE AutoImportRuntime
  <2>. DEFINE pkg == [Parsed(RuntimeFile) EXCEPT !.prelude = "runtime", !.isUsing = TRUE, !.name = RuntimeName]
  <2>1. RuntimeFile \in Files
    BY <1>2, ConstantsAssumption DEF AutoImportRuntime, CanImportPrelude
  <2>2. Parsed(RuntimeFile) \in Package /\ Parsed(RuntimeFile).direct = FALSE
    BY <2>1, ParsedType DEF Parsed
  <2>3. pkg \in Package /\ pkg.direct = FALSE /\ pkg.prelude = "runtime"
    BY <1>1, <2>2 DEF Package
  <2>4. Registering(Top) /\ Registers("intrinsics") /\ "intrinsics" \in Stages
    BY <1>2 DEF AutoImportRuntime, Registering, Registers, Stages
  <2>5. Goto("intrinsics") = MoveTo("intrinsics", Top.pc, Top.savedPending)
    BY <2>4, MoveForms
  <2>6. Analyse(pkg, MoveTo("intrinsics", Top.pc, Top.savedPending), "prelude", RuntimeName, "enter")
    BY <1>2, <2>5 DEF AutoImportRuntime
  <2>7. /\ importStack' \in Seq(Files)
        /\ UNCHANGED <<prog, regDepth, pending, resolved, errors, buildIgnored, semOk>>
    BY <1>2 DEF AutoImportRuntime, TypeOK
  <2>. HIDE DEF pkg
  <2>. QED BY <1>1, <2>3, <2>4, <2>6, <2>7, AnalyseKeepsInv
<1>3. CASE AutoImportIntrinsics
  <2>. DEFINE pkg == [Parsed(IntrinsicsFile) EXCEPT !.prelude = "intrinsics", !.name = IntrinsicsName]
  <2>1. IntrinsicsFile \in Files
    BY <1>3, ConstantsAssumption DEF AutoImportIntrinsics, CanImportPrelude
  <2>2. Parsed(IntrinsicsFile) \in Package /\ Parsed(IntrinsicsFile).direct = FALSE
    BY <2>1, ParsedType DEF Parsed
  <2>3. pkg \in Package /\ pkg.direct = FALSE /\ pkg.prelude = "intrinsics"
    BY <1>1, <2>2 DEF Package
  <2>4. Registering(Top) /\ Registers("copy") /\ "copy" \in Stages
    BY <1>3 DEF AutoImportIntrinsics, Registering, Registers, Stages
  <2>5. Goto("copy") = MoveTo("copy", Top.pc, Top.savedPending)
    BY <2>4, MoveForms
  <2>6. Analyse(pkg, MoveTo("copy", Top.pc, Top.savedPending), "prelude", IntrinsicsName, "enter")
    BY <1>3, <2>5 DEF AutoImportIntrinsics
  <2>7. /\ importStack' \in Seq(Files)
        /\ UNCHANGED <<prog, regDepth, pending, resolved, errors, buildIgnored, semOk>>
    BY <1>3 DEF AutoImportIntrinsics, TypeOK
  <2>. HIDE DEF pkg
  <2>. QED BY <1>1, <2>3, <2>4, <2>6, <2>7, AnalyseKeepsInv
<1>. QED BY <1>2, <1>3

\* The three import handlers.
LEMMA HandlersKeepInv ==
  ASSUME IInv, HandleImport \/ HandleImportNamed \/ HandleImportUsing
  PROVE  IInv'
<1>1. CanImport
  BY DEF HandleImport, HandleImportNamed, HandleImportUsing
<1>2. PICK pkg \in Package, how \in {"prelude", "import", "named", "using"}, stage \in {"enter", "return"} :
        /\ pkg.direct <=> (pkg.by = 0 /\ pkg.prelude = "none")
        /\ Analyse(pkg, NextDecl, how, Decl.alias, stage)
  <2>1. CASE HandleImport
    BY <1>1, <2>1, ImportFacts DEF HandleImport
  <2>2. CASE HandleImportNamed
    <3>1. (IF prog[Decl.path].ignore THEN "return" ELSE "enter") \in {"enter", "return"}
      OBVIOUS
    <3>. QED BY <1>1, <2>2, <3>1, ImportFacts DEF HandleImportNamed
  <2>3. CASE HandleImportUsing
    BY <1>1, <2>3, ImportFacts DEF HandleImportUsing
  <2>. QED BY <2>1, <2>2, <2>3
<1>3. /\ importStack' = Append(importStack, Decl.path)
      /\ UNCHANGED <<prog, regDepth, pending, resolved, errors, buildIgnored, semOk>>
  BY DEF HandleImport, HandleImportNamed, HandleImportUsing
<1>4. /\ Registering(Top) /\ Registers(Top.stage) /\ Top.stage \in Stages
      /\ Decl.alias \in Names /\ Top.pc + 1 \in Nat \ {0}
      /\ NextDecl = MoveTo(Top.stage, Top.pc + 1, Top.savedPending)
      /\ Append(importStack, Decl.path) \in Seq(Files)
  BY <1>1, ImportFacts
<1>5. /\ Analyse(pkg, MoveTo(Top.stage, Top.pc + 1, Top.savedPending), how, Decl.alias, stage)
      /\ importStack' \in Seq(Files)
  BY <1>2, <1>3, <1>4
<1>. QED BY <1>2, <1>3, <1>4, <1>5, AnalyseKeepsInv

\* The return from an import.
LEMMA ReturnKeepsInv ==
  ASSUME IInv, ReturnImport
  PROVE  IInv'
<1>. USE StayFacts
<1>1. ControlInv'
  BY ReturnKeepsControl DEF IInv
<1>2. Depth > 1 /\ Top.imp \in 1 .. Len(imports) /\ Top.savedCount = Depth - 2 /\ Len(scopes) = Depth - 1
  BY DEF ReturnImport, CallsInv, Top, IInv, ControlInv, ScopesMatchCalls
<1>3. Top.savedName \in Names \cup {NoName} /\ Top.alias \in Names
  BY DEF Frame
<1>4. imports' \in Seq(Package) /\ KeepsRoles
  <2>1. CASE imports' = imports
    BY <2>1 DEF KeepsRoles
  <2>2. CASE imports' = [imports EXCEPT ![Top.imp].name = Top.alias]
    BY <1>3, <2>2, RenameType
  <2>. QED BY <2>1, <2>2 DEF ReturnImport
<1>5. scopes' \in Seq(1 .. Len(imports))
  <2>1. scopes' = SubSeq(scopes, 1, Depth - 2)
    BY <1>2 DEF ReturnImport, RestoredScopes
  <2>2. Depth - 2 \in 0 .. Len(scopes) /\ scopes \in Seq(1 .. Len(imports))
    BY <1>2, SMTT(30) DEF TypeOK
  <2>. QED BY <2>1, <2>2, Prefix
<1>6. syms' \in [0 .. Len(imports) -> Scope]
  <2>. DEFINE into == IF Len(scopes') > 0 THEN scopes'[Len(scopes')] ELSE 0
  <2>1. into \in 0 .. Len(imports)
    <3>1. ASSUME Len(scopes') > 0 PROVE scopes'[Len(scopes')] \in 1 .. Len(imports)
      BY <1>5, <3>1, SMTT(30)
    <3>. QED BY <3>1, SMTT(30) DEF TypeOK
  <2>2. syms[into] \in Scope /\ syms[Top.imp] \in Scope
    BY <1>2, <2>1
  <2>3. CopyUsing(syms[Top.imp], syms[into]) \in Scope
    BY <2>2, CopyUsingType
  <2>4. syms' = IF Top.how = "using" THEN [syms EXCEPT ![into] = CopyUsing(syms[Top.imp], syms[into])] ELSE syms
    BY DEF ReturnImport
  <2>. HIDE DEF into
  <2>. QED BY <2>1, <2>3, <2>4
<1>7. importStack' \in Seq(Files)
  <2>1. importStack \in Seq(Files)
    BY DEF TypeOK
  <2>. QED BY <2>1, SMTT(30) DEF ReturnImport, PoppedPath
<1>8. frames' \in Seq(Frame) /\ frames' # <<>>
  <2>1. frames' = SubSeq(frames, 1, Depth - 1)
    BY DEF ReturnImport
  <2>. DEFINE m == Depth - 1
  <2>2. m \in 0 .. Len(frames) /\ m # 0
    BY <1>2, SMTT(30) DEF Depth
  <2>3. frames \in Seq(Frame) /\ frames' = SubSeq(frames, 1, m)
    BY <2>1 DEF FramesOK
  <2>. HIDE DEF m
  <2>. QED BY ONLY <2>2, <2>3, Prefix
<1>9. TypeOK'
  BY <1>3, <1>4, <1>5, <1>6, <1>7, <1>8 DEF ReturnImport, RestoredName, TypeOK, KeepsRoles
<1>10. DirectIffDeclaredByMain'
  BY <1>4, RolesKeepDirect DEF IInv
<1>. QED BY <1>1, <1>9, <1>10 DEF IInv

\* The invariant holds when sem_analyse starts.
LEMMA InitInv == Init => IInv
<1>. SUFFICES ASSUME Init PROVE IInv
  OBVIOUS
<1>1. EmptyScope \in Scope
  BY DEF EmptyScope, Scope
<1>. DEFINE f == [imp |-> 0, file |-> Main, stage |-> "enter", pc |-> 1, savedName |-> NoName,
                  savedPending |-> 0, savedCount |-> 0, how |-> "main", alias |-> RuntimeName]
<1>2. f \in Frame
  BY ConstantsAssumption DEF Frame, Stages
<1>3. frames = <<f>> /\ f.imp = 0 /\ f.pc = 1 /\ f.savedPending = 0 /\ f.stage = "enter"
  BY DEF Init
<1>. HIDE DEF f
<1>4. Len(frames) = 1 /\ frames[1] = f /\ frames \in Seq(Frame) /\ frames # <<>>
  BY <1>2, <1>3
<1>5. prog \in [Files -> SourceType]
  BY ConstantsAssumption DEF Init
<1>6. syms \in [0 .. Len(imports) -> Scope]
  BY <1>1 DEF Init
<1>7. TypeOK
  <2>1. \A S : <<>> \in Seq(S)
    OBVIOUS
  <2>2. /\ imports = <<>> /\ scopes = <<>> /\ importStack = <<>> /\ pending = <<>>
        /\ regDepth = 0 /\ pkgName = NoName /\ resolved = {} /\ errors = {}
        /\ buildIgnored = FALSE /\ semOk = "running"
    BY DEF Init
  <2>. QED BY <1>4, <1>5, <1>6, <2>1, <2>2 DEF TypeOK
<1>8. CallsInv
  BY <1>3, <1>4 DEF Init, CallsInv, Depth
<1>9. ScopesMatchCalls
  BY <1>3, <1>4 DEF Init, ScopesMatchCalls, Depth, Top, Registering
<1>10. DirectIffDeclaredByMain
  BY DEF Init, DirectIffDeclaredByMain
<1>. QED BY <1>7, <1>8, <1>9, <1>10 DEF IInv, ControlInv

\* Every step keeps it.
LEMMA NextInv == IInv /\ [Next]_vars => IInv'
<1>. SUFFICES ASSUME IInv, [Next]_vars PROVE IInv'
  OBVIOUS
<1>1. CASE UNCHANGED vars
  BY <1>1 DEF vars, IInv, TypeOK, ControlInv, CallsInv, ScopesMatchCalls, DirectIffDeclaredByMain, Depth, Top
<1>2. CASE Next
  BY <1>2, PlainMovesKeepInv, RegisterKeepsInv, AnalyseDeclsKeepsInv, EnterKeepsInv, EndPass1KeepsInv,
     PreludesKeepInv, HandlersKeepInv, ReturnKeepsInv, Zenon DEF Next
<1>. QED BY <1>1, <1>2

\* The type invariant of SemContext and the registry, for all programs.
THEOREM TypeTheorem == Spec => []TypeOK
BY InitInv, NextInv, PTL DEF Spec, IInv

\* For all programs: wherever the recursion of the import handlers stands,
\* gen_ctx->scopes[] and import_reg_depth are those of the calls in progress.
THEOREM ContextTheorem == Spec => []ScopesMatchCalls
BY InitInv, NextInv, PTL DEF Spec, IInv, ControlInv

\* For all programs: is_direct_import is set exactly for the packages the main
\* program itself declares an import of, although import_reg_depth is shared.
THEOREM DirectTheorem == Spec => []DirectIffDeclaredByMain
BY InitInv, NextInv, PTL DEF Spec, IInv

-----------------------------------------------------------------------------
(* An accepted program has no reference that was not resolved.  The        *)
(* invariant follows a reference through the recursion.  A declaration is  *)
(* settled when it refers to nothing, when its reference was annotated, or *)
(* when an error was reported; a package is settled when its pass 2 is     *)
(* over, and from then on nothing unsettles it: the registry only grows,   *)
(* annotations stay, a package marked as used stays so.                    *)

\* Declaration k of scope s refers to nothing, or was resolved, or failed.
Settled(s, k) ==
  LET d == prog[FileOf(s)].decls[k]
  IN  d.op \in {"proc", "const", "var"} /\ d.ref # NoRef /\ errors = {} =>
        \E r \in resolved : /\ r.from = s /\ r.at = k /\ r.id = d.ref.id
                            /\ Qualified(d.ref) => r.to \in 1 .. Len(imports) /\ imports[r.to].used
AllSettled(s) == \A k \in DOMAIN prog[FileOf(s)].decls : Settled(s, k)

\* A frame runs over the file of its package.
FilesMatch == \A n \in 1 .. Depth : frames[n].file = FileOf(frames[n].imp)
\* A package is never checked or tracked by itself, and when it returns
\* without pass 2 it was never entered.
CalleeStages ==
  \A n \in 2 .. Depth :
    \/ frames[n].stage \in {"enter", "pass2"} \/ Registering(frames[n])
    \/ frames[n].stage = "return" /\ ~ imports[frames[n].imp].entered
\* A package that was entered and is no longer on the call stack is settled.
LeftSettled ==
  \A s \in 1 .. Len(imports) :
    imports[s].entered => (\E n \in 1 .. Depth : frames[n].imp = s) \/ AllSettled(s)
\* Pass 2 settles the declarations in their order.
SettledSoFar ==
  Top.stage = "pass2" =>
    \A k \in DOMAIN prog[FileOf(Top.imp)].decls : k < Top.pc => Settled(Top.imp, k)
\* How the analysis of the main program ends.
MainEnds ==
  /\ buildIgnored => Depth = 1 /\ Top.stage = "return"
  /\ Top.stage = "track" => AllSettled(0) /\ errors = {}
  /\ semOk # "running" => Depth = 1 /\ Top.stage = "return"
  /\ semOk = "ok" /\ ~ buildIgnored => AllSettled(0) /\ errors = {}
  /\ ~ buildIgnored /\ Depth = 1 /\ Top.stage = "return" => semOk # "running"

SettledInv == FilesMatch /\ CalleeStages /\ LeftSettled /\ SettledSoFar /\ MainEnds

-----------------------------------------------------------------------------
\* What every step does to what was settled: it reports, annotates, registers
\* and marks as used, and takes nothing of that back.
Grows ==
  /\ prog' = prog /\ errors \subseteq errors' /\ resolved \subseteq resolved'
  /\ Len(imports) <= Len(imports')
  /\ \A i \in 1 .. Len(imports) : /\ imports'[i].file = imports[i].file
                                  /\ imports'[i].entered = imports[i].entered
                                  /\ imports[i].used => imports'[i].used

\* A package keeps its file.
LEMMA FileStays ==
  ASSUME Grows, NEW s \in 0 .. Len(imports), Len(imports) \in Nat
  PROVE  FileOf(s)' = FileOf(s)
BY DEF Grows, FileOf

\* A settled declaration stays settled.
LEMMA SettledStays ==
  ASSUME TypeOK, TypeOK', Grows, NEW s \in 0 .. Len(imports), NEW k, Settled(s, k)
  PROVE  Settled(s, k)'
<1>1. Len(imports) \in Nat /\ Len(imports') \in Nat /\ Len(imports) <= Len(imports')
  BY DEF TypeOK, Grows
<1>2. FileOf(s)' = FileOf(s) /\ prog' = prog
  BY <1>1, FileStays DEF Grows
<1>. DEFINE d == prog[FileOf(s)].decls[k]
<1>3. SUFFICES ASSUME d.op \in {"proc", "const", "var"}, d.ref # NoRef, errors' = {}
               PROVE  \E r \in resolved' : /\ r.from = s /\ r.at = k /\ r.id = d.ref.id
                                           /\ Qualified(d.ref) => r.to \in 1 .. Len(imports') /\ imports'[r.to].used
  BY <1>2 DEF Settled, Qualified
<1>4. errors = {}
  BY <1>3 DEF Grows
<1>5. PICK r \in resolved : /\ r.from = s /\ r.at = k /\ r.id = d.ref.id
                            /\ Qualified(d.ref) => r.to \in 1 .. Len(imports) /\ imports[r.to].used
  BY <1>3, <1>4 DEF Settled
<1>6. r \in resolved'
  BY DEF Grows
<1>7. r.to \in 1 .. Len(imports) /\ imports[r.to].used => r.to \in 1 .. Len(imports') /\ imports'[r.to].used
  BY <1>1 DEF Grows
<1>. HIDE DEF d
<1>. QED BY <1>5, <1>6, <1>7

\* ... and so does a settled package.
LEMMA AllSettledStays ==
  ASSUME TypeOK, TypeOK', Grows, NEW s \in 0 .. Len(imports), AllSettled(s)
  PROVE  AllSettled(s)'
<1>1. FileOf(s)' = FileOf(s) /\ prog' = prog
  BY FileStays DEF Grows, TypeOK
<1>. SUFFICES ASSUME NEW k \in DOMAIN prog[FileOf(s)].decls PROVE Settled(s, k)'
  BY <1>1 DEF AllSettled
<1>. QED BY SettledStays DEF AllSettled

\* Until the main program's call returns, nothing is decided.
LEMMA Going ==
  ASSUME IInv, SettledInv, ~ (Depth = 1 /\ Top.stage = "return")
  PROVE  ~ buildIgnored /\ semOk = "running"
BY DEF SettledInv, MainEnds

\* The calls refer to registered packages, or to the main program.
LEMMA CallTypes ==
  ASSUME IInv
  PROVE  /\ \A n \in 1 .. Depth : frames[n].imp \in 0 .. Len(imports)
         /\ Top.imp \in 0 .. Len(imports) /\ (Depth = 1 => Top.imp = 0)
         /\ Depth \in 1 .. Depth /\ Depth \in Nat \ {0} /\ Len(imports) \in Nat
         /\ (Depth # 1 => Top.imp \in 1 .. Len(imports) /\ Depth > 1)
<1>1. Depth \in Nat \ {0} /\ Len(imports) \in Nat /\ CallsInv
  BY StayFacts, SequenceTypes
<1>2. ASSUME NEW n \in 1 .. Depth PROVE frames[n].imp \in 0 .. Len(imports) /\ (n # 1 => frames[n].imp \in 1 .. Len(imports))
  <2>1. n = 1 \/ n \in 2 .. Depth
    BY <1>1
  <2>. QED BY <1>1, <2>1 DEF CallsInv
<1>3. Depth \in 1 .. Depth
  BY <1>1
<1>. QED BY <1>1, <1>2, <1>3 DEF Top, CallsInv

\* The moves of the actions.
LEMMA StepForms ==
  ASSUME IInv
  PROVE  /\ \A st \in {"runtime", "intrinsics", "copy", "clause", "pass1", "check", "pass2", "track", "return"} :
              /\ st \in Stages /\ Goto(st) = MoveTo(st, Top.pc, Top.savedPending)
              /\ GotoAt(st, 1) = MoveTo(st, 1, Top.savedPending)
         /\ NextDecl = MoveTo(Top.stage, Top.pc + 1, Top.savedPending) /\ Top.stage \in Stages
         /\ Top.pc \in Nat /\ Top.pc + 1 \in Nat /\ 1 \in Nat /\ Top.savedPending \in Nat
<1>1. FramesOK
  BY StayFacts
<1>2. \A st \in {"runtime", "intrinsics", "copy", "clause", "pass1", "check", "pass2", "track", "return"} : st \in Stages
  BY DEF Stages
<1>3. Top.pc \in Nat /\ Top.pc + 1 \in Nat /\ 1 \in Nat /\ Top.savedPending \in Nat
  BY <1>1, MoveForms
<1>. QED BY <1>1, <1>2, <1>3, MoveForms

\* What a call by a prelude or a handler is.
LEMMA CallForms ==
  ASSUME IInv,
         \/ AutoImportRuntime \/ AutoImportIntrinsics
         \/ HandleImport \/ HandleImportNamed \/ HandleImportUsing
  PROVE  \E pkg \in Package, st \in {"intrinsics", "copy", "pass1"}, n \in Nat \ {0},
            how \in {"prelude", "import", "named", "using"}, alias \in Names, stage \in {"enter", "return"} :
           /\ Analyse(pkg, MoveTo(st, n, Top.savedPending), how, alias, stage)
           /\ Registering(Top) /\ st \in Stages /\ Registers(st)
           /\ how = "prelude" => pkg.prelude # "none"
           /\ st = "pass1" => Top.stage = "pass1" /\ n = Top.pc + 1 /\ AtDecl /\ Decl.op \in ImportOps
           /\ Len(importStack') = IF how = "prelude" THEN Len(importStack) ELSE Len(importStack) + 1
           /\ pending' = pending
<1>. USE StayFacts
<1>0. \A st \in {"intrinsics", "copy", "pass1"} : st \in Stages /\ Registers(st)
  BY DEF Stages, Registers
<1>1. CASE AutoImportRuntime
  <2>. DEFINE pkg == [Parsed(RuntimeFile) EXCEPT !.prelude = "runtime", !.isUsing = TRUE, !.name = RuntimeName]
  <2>1. RuntimeFile \in Files /\ RuntimeName \in Names
    BY <1>1, ConstantsAssumption DEF AutoImportRuntime, CanImportPrelude
  <2>2. Parsed(RuntimeFile) \in Package
    BY <2>1, ParsedType
  <2>3. pkg \in Package /\ pkg.prelude = "runtime"
    BY <2>1, <2>2 DEF Package
  <2>4. Registering(Top) /\ Goto("intrinsics") = MoveTo("intrinsics", Top.pc, Top.savedPending)
    BY <1>1, StepForms DEF AutoImportRuntime, Registering
  <2>5. Analyse(pkg, MoveTo("intrinsics", Top.pc, Top.savedPending), "prelude", RuntimeName, "enter")
    BY <1>1, <2>4 DEF AutoImportRuntime
  <2>6. importStack' = importStack /\ pending' = pending
    BY <1>1 DEF AutoImportRuntime
  <2>. HIDE DEF pkg
  <2>. QED BY <1>0, <2>1, <2>3, <2>4, <2>5, <2>6
<1>2. CASE AutoImportIntrinsics
  <2>. DEFINE pkg == [Parsed(IntrinsicsFile) EXCEPT !.prelude = "intrinsics", !.name = IntrinsicsName]
  <2>1. IntrinsicsFile \in Files /\ IntrinsicsName \in Names
    BY <1>2, ConstantsAssumption DEF AutoImportIntrinsics, CanImportPrelude
  <2>2. Parsed(IntrinsicsFile) \in Package
    BY <2>1, ParsedType
  <2>3. pkg \in Package /\ pkg.prelude = "intrinsics"
    BY <2>1, <2>2 DEF Package
  <2>4. Registering(Top) /\ Goto("copy") = MoveTo("copy", Top.pc, Top.savedPending)
    BY <1>2, StepForms DEF AutoImportIntrinsics, Registering
  <2>5. Analyse(pkg, MoveTo("copy", Top.pc, Top.savedPending), "prelude", IntrinsicsName, "enter")
    BY <1>2, <2>4 DEF AutoImportIntrinsics
  <2>6. importStack' = importStack /\ pending' = pending
    BY <1>2 DEF AutoImportIntrinsics
  <2>. HIDE DEF pkg
  <2>. QED BY <1>0, <2>1, <2>3, <2>4, <2>5, <2>6
<1>3. CASE HandleImport \/ HandleImportNamed \/ HandleImportUsing
  <2>1. CanImport
    BY <1>3 DEF HandleImport, HandleImportNamed, HandleImportUsing
  <2>2. PICK pkg \in Package, how \in {"import", "named", "using"}, stage \in {"enter", "return"} :
          Analyse(pkg, NextDecl, how, Decl.alias, stage)
    <3>1. CASE HandleImport
      BY <2>1, <3>1, ImportFacts DEF HandleImport
    <3>2. CASE HandleImportNamed
      <4>1. (IF prog[Decl.path].ignore THEN "return" ELSE "enter") \in {"enter", "return"}
        OBVIOUS
      <4>. QED BY <2>1, <3>2, <4>1, ImportFacts DEF HandleImportNamed
    <3>3. CASE HandleImportUsing
      BY <2>1, <3>3, ImportFacts DEF HandleImportUsing
    <3>. QED BY <1>3, <3>1, <3>2, <3>3
  <2>3. importStack' = Append(importStack, Decl.path) /\ pending' = pending
    BY <1>3 DEF HandleImport, HandleImportNamed, HandleImportUsing
  <2>4. /\ Registering(Top) /\ Top.pc + 1 \in Nat \ {0} /\ Decl.alias \in Names
        /\ Analyse(pkg, MoveTo("pass1", Top.pc + 1, Top.savedPending), how, Decl.alias, stage)
        /\ Top.stage = "pass1" /\ AtDecl /\ Decl.op \in ImportOps
    BY <2>1, <2>2, ImportFacts DEF CanImport, AtImport
  <2>5. Len(importStack') = Len(importStack) + 1
    <3>1. importStack \in Seq(Files)
      BY DEF TypeOK
    <3>. QED BY <2>3, <3>1
  <2>6. how # "prelude" /\ how \in {"prelude", "import", "named", "using"}
    OBVIOUS
  <2>. QED BY <1>0, <2>3, <2>4, <2>5, <2>6
<1>. QED BY <1>1, <1>2, <1>3

-----------------------------------------------------------------------------
(* Steps within one call.                                                  *)

\* The executing frame moves; what pass 2 passes is settled.
LEMMA MoveKeepsSettled ==
  ASSUME IInv, IInv', SettledInv, Grows, Len(imports') = Len(imports),
         NEW st \in Stages, NEW n \in Nat, NEW from \in Nat, frames' = MoveTo(st, n, from),
         NEW i, i = Top.imp, NEW at, at = Top.pc,
         Depth # 1 => \/ st \in {"enter", "pass2"} \/ Registers(st)
                      \/ st = "return" /\ ~ imports[Top.imp].entered,
         st = "pass2" => \/ n = 1
                         \/ Top.stage = "pass2" /\ n = at + 1 /\ Settled(i, at)'
  PROVE  FilesMatch' /\ CalleeStages' /\ LeftSettled' /\ SettledSoFar' /\ Depth' = Depth /\ Top'.stage = st
<1>1. FramesOK /\ TypeOK /\ TypeOK' /\ Top \in Frame
  BY StayFacts DEF IInv
<1>2. Len(frames') = Depth /\ Depth' = Depth /\ Top' = frames'[Depth]
  BY <1>1, MoveType DEF Depth, Top
<1>3. \A k \in 1 .. Depth : k # Depth => frames'[k] = frames[k]
  BY <1>1, MoveType
<1>4. /\ frames'[Depth].stage = st /\ frames'[Depth].pc = n
      /\ frames'[Depth].imp = Top.imp /\ frames'[Depth].file = Top.file
  <2>. DEFINE g == Moved(Top, st, n, from)
  <2>1. g.stage = st /\ g.pc = n /\ g.imp = Top.imp /\ g.file = Top.file
    BY ONLY <1>1, st \in Stages, n \in Nat, from \in Nat, MovedType
  <2>2. frames'[Depth] = g
    BY <1>1, MoveType
  <2>. QED BY <2>1, <2>2
<1>5. \A k \in 1 .. Depth : frames'[k].imp = frames[k].imp /\ frames'[k].file = frames[k].file
  BY <1>3, <1>4 DEF Top
<1>6. FilesMatch'
  <2>1. ASSUME NEW k \in 1 .. Depth, NEW s, s = frames[k].imp PROVE frames'[k].file = FileOf(s)'
    <3>1. frames[k].file = FileOf(s) /\ s \in 0 .. Len(imports) /\ Len(imports) \in Nat
      BY <2>1, CallTypes DEF SettledInv, FilesMatch
    <3>. QED BY <1>5, <2>1, <3>1, FileStays
  <2>. QED BY <1>2, <1>5, <2>1 DEF FilesMatch, FileOf
<1>7. CalleeStages'
  <2>1. ASSUME NEW k \in 2 .. Depth
        PROVE  \/ frames'[k].stage \in {"enter", "pass2"} \/ Registering(frames'[k])
               \/ frames'[k].stage = "return" /\ ~ imports'[frames'[k].imp].entered
    <3>1. k \in 1 .. Depth /\ frames[k].imp \in 1 .. Len(imports) /\ imports'[frames[k].imp].entered = imports[frames[k].imp].entered
      BY CallTypes DEF IInv, ControlInv, CallsInv, Grows
    <3>2. CASE k = Depth
      <4>1. Depth # 1
        BY <3>2
      <4>. QED BY <1>4, <3>1, <3>2, <4>1 DEF Registering, Registers, Top
    <3>3. CASE k # Depth
      BY <1>3, <3>1, <3>3 DEF SettledInv, CalleeStages
    <3>. QED BY <3>2, <3>3
  <2>. QED BY <1>2, <2>1 DEF CalleeStages
<1>8. LeftSettled'
  <2>1. ASSUME NEW s \in 1 .. Len(imports), imports'[s].entered
        PROVE  (\E k \in 1 .. Depth : frames'[k].imp = s) \/ AllSettled(s)'
    <3>1. imports[s].entered
      BY <2>1 DEF Grows
    <3>2. CASE \E k \in 1 .. Depth : frames[k].imp = s
      BY <1>5, <3>2
    <3>3. CASE AllSettled(s)
      <4>1. s \in 0 .. Len(imports)
        OBVIOUS
      <4>. QED BY <1>1, <3>3, <4>1, AllSettledStays
    <3>. QED BY <3>1, <3>2, <3>3 DEF SettledInv, LeftSettled
  <2>. QED BY <1>2, <2>1 DEF LeftSettled
<1>9. SettledSoFar'
  <2>1. i \in 0 .. Len(imports) /\ FileOf(i) = Top.file /\ Top.file \in Files
    BY <1>1, CallTypes DEF SettledInv, FilesMatch, Top, Frame
  <2>. SUFFICES ASSUME st = "pass2", NEW k \in DOMAIN prog[Top.file].decls, k < n PROVE Settled(i, k)'
    <3>1. Top'.stage = st /\ Top'.pc = n /\ Top'.imp = i
      BY <1>2, <1>4
    <3>2. FileOf(i)' = FileOf(i) /\ prog' = prog
      BY <2>1, CallTypes, FileStays DEF Grows
    <3>3. SUFFICES ASSUME Top'.stage = "pass2", NEW k \in DOMAIN prog'[FileOf(Top.imp)'].decls, k < Top'.pc
                   PROVE  Settled(Top.imp, k)'
      BY DEF SettledSoFar
    <3>4. FileOf(Top.imp)' = Top.file
      BY <2>1, <3>1, <3>2 DEF FileOf
    <3>5. Settled(i, k)'
      BY <3>1, <3>2, <3>3, <3>4
    <3>6. Settled(Top.imp, k)' = Settled(i, k)'
      <4>1. FileOf(Top.imp)' = FileOf(i)'
        BY <3>1 DEF FileOf
      <4>. QED BY <3>1, <4>1 DEF Settled
    <3>. QED BY <3>5, <3>6
  <2>2. prog[Top.file].decls \in Seq(DeclType)
    BY <1>1, <2>1 DEF TypeOK, SourceType
  <2>3. k \in Nat \ {0}
    BY <2>2
  <2>4. Top.stage = "pass2" /\ n = at + 1 /\ Settled(i, at)'
    BY <2>3
  <2>5. at \in Nat
    BY <1>1 DEF Frame
  <2>6. CASE k = at
    BY <2>4, <2>6
  <2>7. CASE k # at
    <3>1. k < Top.pc
      BY <2>3, <2>4, <2>5, <2>7
    <3>2. Settled(i, k)
      BY <2>1, <2>4, <3>1 DEF SettledInv, SettledSoFar
    <3>. QED BY <1>1, <2>1, <3>2, SettledStays
  <2>. QED BY <2>6, <2>7
<1>. QED BY <1>2, <1>4, <1>6, <1>7, <1>8, <1>9

-----------------------------------------------------------------------------
(* Calls and returns.                                                      *)

\* A call: the package that is registered is on the call stack.
LEMMA AnalyseKeepsSettled ==
  ASSUME IInv, IInv', SettledInv, Registering(Top), NEW pkg \in Package,
         NEW st \in Stages, Registers(st), NEW n \in Nat \ {0}, NEW how, NEW alias,
         NEW stage \in {"enter", "return"},
         Analyse(pkg, MoveTo(st, n, Top.savedPending), how, alias, stage),
         UNCHANGED <<prog, resolved, errors, buildIgnored, semOk>>
  PROVE  SettledInv'
<1>. DEFINE here == MoveTo(st, n, Top.savedPending)
            e == [pkg EXCEPT !.entered = (stage = "enter")]
            f == [imp |-> Len(imports) + 1, file |-> pkg.file, stage |-> stage, pc |-> 1,
                  savedName |-> pkgName, savedPending |-> 0, savedCount |-> Len(scopes),
                  how |-> how, alias |-> alias]
<1>1. FramesOK /\ TypeOK /\ TypeOK' /\ Top \in Frame /\ n \in Nat /\ Top.savedPending \in Nat
  BY StayFacts, MoveForms DEF IInv
<1>2. /\ here \in Seq(Frame) /\ Len(here) = Depth /\ here[Depth] = Moved(Top, st, n, Top.savedPending)
      /\ \A k \in 1 .. Depth : k # Depth => here[k] = frames[k]
  BY <1>1, MoveType
<1>3. here[Depth].stage = st /\ here[Depth].imp = Top.imp /\ here[Depth].file = Top.file
  <2>. DEFINE g == Moved(Top, st, n, Top.savedPending)
  <2>1. g.stage = st /\ g.imp = Top.imp /\ g.file = Top.file
    BY ONLY <1>1, st \in Stages, MovedType
  <2>. QED BY <1>2, <2>1
<1>4. e.file = pkg.file /\ (e.entered <=> stage = "enter")
  BY DEF Package
<1>5. frames' = Append(here, f) /\ imports' = Append(imports, e)
  BY DEF Analyse
<1>6. f.imp = Len(imports) + 1 /\ f.file = pkg.file /\ f.stage = stage
  OBVIOUS
<1>. HIDE DEF here, e, f
<1>7. Depth \in Nat \ {0} /\ Depth \in 1 .. Depth /\ Len(imports) \in Nat /\ imports \in Seq(Package)
  BY <1>1, CallTypes DEF TypeOK
<1>8. /\ Len(frames') = Depth + 1 /\ Depth' = Depth + 1 /\ frames'[Depth + 1] = f
      /\ \A k \in 1 .. Depth : frames'[k] = here[k]
  BY <1>2, <1>5, <1>7 DEF Depth
<1>9. /\ Len(imports') = Len(imports) + 1 /\ imports'[Len(imports) + 1] = e
      /\ \A i \in 1 .. Len(imports) : imports'[i] = imports[i]
  BY <1>5, <1>7
<1>10. Grows
  BY <1>7, <1>9 DEF Grows
<1>11. \A k \in 1 .. Depth : frames'[k].imp = frames[k].imp /\ frames'[k].file = frames[k].file
  BY <1>2, <1>3, <1>8 DEF Top
<1>12. \A k \in 1 .. Depth + 1 : k \in 1 .. Depth \/ k = Depth + 1
  BY <1>7
<1>13. FilesMatch'
  <2>1. ASSUME NEW k \in 1 .. Depth, NEW s, s = frames[k].imp PROVE frames'[k].file = FileOf(s)'
    <3>1. frames[k].file = FileOf(s) /\ s \in 0 .. Len(imports)
      BY <2>1, CallTypes DEF SettledInv, FilesMatch
    <3>. QED BY <1>7, <1>10, <1>11, <3>1, FileStays
  <2>3. ASSUME NEW k \in 1 .. Depth + 1
        PROVE  frames'[k].file = IF frames'[k].imp = 0 THEN Main ELSE imports'[frames'[k].imp].file
    <3>1. CASE k \in 1 .. Depth
      BY <1>11, <2>1, <3>1 DEF FileOf
    <3>2. CASE k = Depth + 1
      BY <1>4, <1>6, <1>7, <1>8, <1>9, <3>2
    <3>. QED BY <1>12, <3>1, <3>2
  <2>. QED BY <1>8, <2>3 DEF FilesMatch, FileOf
<1>14. CalleeStages'
  <2>1. ASSUME NEW k \in 2 .. Depth + 1
        PROVE  \/ frames'[k].stage \in {"enter", "pass2"} \/ Registering(frames'[k])
               \/ frames'[k].stage = "return" /\ ~ imports'[frames'[k].imp].entered
    <3>1. k \in 1 .. Depth + 1
      BY <1>7
    <3>2. CASE k = Depth + 1
      BY <1>4, <1>6, <1>8, <1>9, <3>2
    <3>3. CASE k = Depth
      BY <1>3, <1>7, <1>8, <3>3 DEF Registers, Registering
    <3>4. CASE k \in 1 .. Depth /\ k # Depth
      BY <1>2, <1>8, <3>4 DEF IInv, ControlInv, ScopesMatchCalls, Registering
    <3>. QED BY <1>12, <3>1, <3>2, <3>3, <3>4
  <2>. QED BY <1>8, <2>1 DEF CalleeStages
<1>15. LeftSettled'
  <2>1. ASSUME NEW s \in 1 .. Len(imports) + 1, imports'[s].entered
        PROVE  (\E k \in 1 .. Depth + 1 : frames'[k].imp = s) \/ AllSettled(s)'
    <3>1. CASE s = Len(imports) + 1
      <4>1. Depth + 1 \in 1 .. Depth + 1
        BY <1>7
      <4>. QED BY <1>6, <1>8, <3>1, <4>1
    <3>2. CASE s # Len(imports) + 1
      <4>1. s \in 1 .. Len(imports) /\ s \in 0 .. Len(imports) /\ imports[s].entered
        BY <1>7, <1>9, <2>1, <3>2
      <4>2. CASE AllSettled(s)
        BY <1>1, <1>10, <4>1, <4>2, AllSettledStays
      <4>3. CASE \E k \in 1 .. Depth : frames[k].imp = s
        <5>1. PICK k \in 1 .. Depth : frames[k].imp = s
          BY <4>3
        <5>2. k \in 1 .. Depth + 1
          BY <1>7
        <5>. QED BY <1>11, <5>1, <5>2
      <4>. QED BY <4>1, <4>2, <4>3 DEF SettledInv, LeftSettled
    <3>. QED BY <3>1, <3>2
  <2>. QED BY <1>8, <1>9, <2>1 DEF LeftSettled
<1>16. Top'.stage = stage
  BY <1>6, <1>8 DEF Top
<1>17. SettledSoFar'
  BY <1>16 DEF SettledSoFar
<1>18. MainEnds'
  <2>1. Top.stage # "return"
    BY DEF Registering
  <2>2. Depth' # 1
    BY <1>7, <1>8
  <2>. QED BY <1>16, <2>1, <2>2, Going DEF MainEnds
<1>. QED BY <1>13, <1>14, <1>15, <1>17, <1>18 DEF SettledInv

\* A return: the package was never entered, or its pass 2 is over.
LEMMA ReturnKeepsSettled ==
  ASSUME IInv, IInv', SettledInv, ReturnImport
  PROVE  SettledInv'
<1>1. FramesOK /\ TypeOK /\ TypeOK' /\ Top \in Frame /\ Depth \in Nat \ {0} /\ Depth > 1
  BY StayFacts DEF IInv, ReturnImport
<1>2. frames' = SubSeq(frames, 1, Depth - 1) /\ UNCHANGED <<prog, errors, resolved, buildIgnored, semOk>>
  BY DEF ReturnImport
<1>3. Len(frames') = Depth - 1 /\ Depth' = Depth - 1 /\ \A k \in 1 .. Depth - 1 : frames'[k] = frames[k]
  BY <1>1, <1>2 DEF FramesOK, Depth
<1>4. Grows /\ Len(imports') = Len(imports) /\ Len(imports) \in Nat
  <2>1. CASE imports' = imports
    BY <1>1, <1>2, <2>1, SequenceTypes DEF Grows
  <2>2. CASE imports' = [imports EXCEPT ![Top.imp].name = Top.alias]
    <3>1. imports \in Seq(Package) /\ Len(imports) \in Nat
      BY <1>1 DEF TypeOK
    <3>. DEFINE e == [imports[Top.imp] EXCEPT !.name = Top.alias]
    <3>2. /\ Top.imp \in 1 .. Len(imports) => /\ e \in Package /\ e.file = imports[Top.imp].file
                                             /\ e.entered = imports[Top.imp].entered /\ e.used = imports[Top.imp].used
      <4>1. Top.imp \in 1 .. Len(imports) => imports[Top.imp] \in Package
        BY <3>1
      <4>2. Top.alias \in Names
        BY <1>1 DEF Frame
      <4>. QED BY ONLY <4>1, <4>2 DEF Package
    <3>3. imports' = [imports EXCEPT ![Top.imp] = e]
      BY <2>2
    <3>. HIDE DEF e
    <3>4. /\ Len(imports') = Len(imports)
          /\ \A k \in 1 .. Len(imports) : imports'[k] = IF k = Top.imp THEN e ELSE imports[k]
      BY ONLY <3>1, <3>2, <3>3, ReplaceAnywhere
    <3>. QED BY <1>2, <3>1, <3>2, <3>4 DEF Grows
  <2>. QED BY <2>1, <2>2 DEF ReturnImport
<1>5. \A k \in 1 .. Depth - 1 : k \in 1 .. Depth /\ frames'[k] = frames[k] /\ Registering(frames[k])
  BY <1>1, <1>3 DEF IInv, ControlInv, ScopesMatchCalls
<1>6. Top' = frames[Depth - 1] /\ Registering(Top')
  BY <1>1, <1>3, <1>5 DEF Top
<1>7. FilesMatch'
  <2>1. ASSUME NEW k \in 1 .. Depth - 1, NEW s, s = frames[k].imp PROVE frames'[k].file = FileOf(s)'
    <3>1. frames[k].file = FileOf(s) /\ s \in 0 .. Len(imports)
      BY <1>5, <2>1, CallTypes DEF SettledInv, FilesMatch
    <3>. QED BY <1>4, <1>5, <3>1, FileStays
  <2>. QED BY <1>3, <1>5, <2>1 DEF FilesMatch, FileOf
<1>8. CalleeStages'
  BY <1>3, <1>5 DEF CalleeStages, Registering
<1>9. ASSUME NEW s, s = Top.imp, imports[s].entered PROVE AllSettled(s)
  <2>1. Depth \in 2 .. Depth /\ s \in 0 .. Len(imports) /\ FileOf(s) = Top.file /\ Top.file \in Files
    BY <1>1, <1>9, CallTypes DEF SettledInv, FilesMatch, Top, Frame
  <2>2. Top.stage # "return"
    BY <1>9, <2>1 DEF SettledInv, CalleeStages, Registering, Top
  <2>3. Top.stage = "pass2" /\ ~ AtDecl
    BY <2>2 DEF ReturnImport
  <2>4. prog[Top.file].decls \in Seq(DeclType) /\ Top.pc \in Nat
    BY <1>1, <2>1 DEF TypeOK, SourceType, Frame
  <2>5. \A k \in DOMAIN prog[Top.file].decls : k < Top.pc
    BY <2>3, <2>4 DEF AtDecl, Decls
  <2>. QED BY <1>9, <2>1, <2>3, <2>5 DEF SettledInv, SettledSoFar, AllSettled
<1>10. LeftSettled'
  <2>1. ASSUME NEW s \in 1 .. Len(imports), imports'[s].entered
        PROVE  (\E k \in 1 .. Depth - 1 : frames'[k].imp = s) \/ AllSettled(s)'
    <3>1. imports[s].entered /\ s \in 0 .. Len(imports)
      BY <1>4, <2>1 DEF Grows
    <3>2. CASE AllSettled(s)
      BY <1>1, <1>4, <3>1, <3>2, AllSettledStays
    <3>3. CASE \E k \in 1 .. Depth : frames[k].imp = s
      <4>1. PICK k \in 1 .. Depth : frames[k].imp = s
        BY <3>3
      <4>2. CASE k = Depth
        <5>1. AllSettled(s)
          BY <1>9, <3>1, <4>1, <4>2 DEF Top
        <5>. QED BY <3>2, <5>1
      <4>3. CASE k # Depth
        <5>1. k \in 1 .. Depth - 1
          BY <1>1, <4>3
        <5>. QED BY <1>5, <4>1, <5>1
      <4>. QED BY <4>2, <4>3
    <3>. QED BY <3>1, <3>2, <3>3 DEF SettledInv, LeftSettled
  <2>. QED BY <1>3, <1>4, <2>1 DEF LeftSettled
<1>11. SettledSoFar' /\ MainEnds'
  BY <1>1, <1>2, <1>6, Going DEF SettledSoFar, MainEnds, Registering
<1>. QED BY <1>7, <1>8, <1>10, <1>11 DEF SettledInv

-----------------------------------------------------------------------------
(* The actions.                                                            *)

\* A step of a call in the middle of its pass 1, or about to enter it.
LEMMA Pass1KeepsSettled ==
  ASSUME IInv, IInv', SettledInv, Grows, Len(imports') = Len(imports),
         NEW st \in Stages, Registers(st), NEW n \in Nat, NEW from \in Nat, frames' = MoveTo(st, n, from),
         Top.stage # "return", UNCHANGED <<buildIgnored, semOk>>
  PROVE  SettledInv'
<1>1. FilesMatch' /\ CalleeStages' /\ LeftSettled' /\ SettledSoFar' /\ Depth' = Depth /\ Top'.stage = st
  BY MoveKeepsSettled, Zenon DEF Registers
<1>2. MainEnds'
  BY <1>1, Going DEF MainEnds, Registers
<1>. QED BY <1>1, <1>2 DEF SettledInv

\* SkipPrelude, CopyRuntimeSymbols, PackageClause and the declarations of pass 1.
LEMMA Pass1MovesKeepSettled ==
  ASSUME IInv, IInv', SettledInv,
         \/ SkipPrelude \/ CopyRuntimeSymbols \/ PackageClause \/ ImportFails \/ ImportCycle
         \/ RegisterDecl \/ RegisterVar \/ RegisterGroup
  PROVE  SettledInv'
<1>. USE StayFacts
<1>1. /\ Top.stage \in {"runtime", "intrinsics", "copy", "clause", "pass1"}
      /\ UNCHANGED <<prog, imports, resolved, buildIgnored, semOk>> /\ errors \subseteq errors'
  BY DEF SkipPrelude, CopyRuntimeSymbols, PackageClause, ImportFails, ImportCycle, AtImport,
         RegisterDecl, RegisterVar, RegisterGroup
<1>2. Grows /\ Len(imports') = Len(imports)
  BY <1>1, SequenceTypes DEF Grows
<1>3. Top.pc \in Nat /\ Top.pc + 1 \in Nat /\ Top.savedPending \in Nat /\ 1 \in Nat
  BY MoveForms
<1>4. \A st \in {"runtime", "intrinsics", "copy", "clause", "pass1"} : st \in Stages /\ Registers(st)
  BY DEF Stages, Registers
<1>5. \E st \in {"runtime", "intrinsics", "copy", "clause", "pass1"}, n \in Nat :
         frames' = MoveTo(st, n, Top.savedPending)
  <2>1. CASE frames' = NextDecl
    BY <1>1, <1>3, <2>1
  <2>2. CASE \E st \in {"intrinsics", "copy", "clause"} : frames' = Goto(st)
    <3>1. PICK st \in {"intrinsics", "copy", "clause"} : frames' = Goto(st)
      BY <2>2
    <3>2. Goto(st) = MoveTo(st, Top.pc, Top.savedPending)
      BY <1>4, MoveForms
    <3>. QED BY <1>3, <3>1, <3>2
  <2>3. CASE frames' = GotoAt("pass1", 1)
    <3>1. GotoAt("pass1", 1) = MoveTo("pass1", 1, Top.savedPending)
      BY <1>3, <1>4, MoveForms
    <3>. QED BY <1>3, <2>3, <3>1
  <2>. QED BY <2>1, <2>2, <2>3
       DEF SkipPrelude, CopyRuntimeSymbols, PackageClause, ImportFails, ImportCycle,
           RegisterDecl, RegisterVar, RegisterGroup
<1>. QED BY <1>1, <1>2, <1>3, <1>4, <1>5, Pass1KeepsSettled

\* EnterPass1: only the main program can be ignored as a whole.
LEMMA EnterKeepsSettled ==
  ASSUME IInv, IInv', SettledInv, EnterPass1
  PROVE  SettledInv'
<1>. USE StayFacts
<1>1. /\ Top.stage = "enter" /\ UNCHANGED <<prog, imports, resolved, errors, semOk>>
      /\ Len(pending) \in Nat /\ Top.pc \in Nat /\ Top.savedPending \in Nat
  BY SequenceTypes, MoveForms DEF EnterPass1
<1>2. Grows /\ Len(imports') = Len(imports)
  BY <1>1, SequenceTypes DEF Grows
<1>3. ~ buildIgnored /\ semOk = "running"
  BY <1>1, Going
<1>4. regDepth = Depth - 1
  BY <1>1 DEF IInv, ControlInv, ScopesMatchCalls, Registering
<1>5. CASE buildIgnored'
  <2>1. Depth = 1
    <3>1. regDepth = 0
      BY <1>3, <1>5, Zenon DEF EnterPass1
    <3>. QED BY <1>4, <3>1
  <2>2. "return" \in Stages /\ frames' = Goto("return")
    BY <1>5 DEF EnterPass1, Stages
  <2>3. frames' = MoveTo("return", Top.pc, Top.savedPending)
    BY <2>2, MoveForms
  <2>4. FilesMatch' /\ CalleeStages' /\ LeftSettled' /\ SettledSoFar' /\ Depth' = Depth /\ Top'.stage = "return"
    BY <1>1, <1>2, <2>1, <2>2, <2>3, MoveKeepsSettled
  <2>5. MainEnds'
    BY <1>1, <1>3, <1>5, <2>1, <2>4 DEF MainEnds
  <2>. QED BY <2>4, <2>5 DEF SettledInv
<1>6. CASE ~ buildIgnored'
  <2>1. "runtime" \in Stages /\ Registers("runtime")
    BY DEF Stages, Registers
  <2>2. frames' = MoveTo("runtime", Top.pc, Len(pending))
    BY <1>6, MoveForms DEF EnterPass1
  <2>3. buildIgnored' = buildIgnored
    BY <1>3, <1>6 DEF IInv, TypeOK
  <2>. QED BY <1>1, <1>2, <2>1, <2>2, <2>3, Pass1KeepsSettled
<1>. QED BY <1>5, <1>6

\* The end of pass 1: a package goes on with pass 2, the main program checks.
LEMMA EndPass1KeepsSettled ==
  ASSUME IInv, IInv', SettledInv, EndPass1
  PROVE  SettledInv'
<1>. USE StayFacts
<1>1. /\ Top.stage = "pass1" /\ UNCHANGED <<prog, imports, resolved, buildIgnored, semOk>>
      /\ errors \subseteq errors' /\ Top.savedPending \in Nat /\ Top.pc \in Nat /\ 1 \in Nat
  BY MoveForms DEF EndPass1
<1>2. Grows /\ Len(imports') = Len(imports)
  BY <1>1, SequenceTypes DEF Grows
<1>3. "check" \in Stages /\ "pass2" \in Stages
  BY DEF Stages
<1>4. CASE Depth = 1
  <2>1. frames' = MoveTo("check", Top.pc, Top.savedPending)
    BY <1>3, <1>4, MoveForms DEF EndPass1
  <2>2. FilesMatch' /\ CalleeStages' /\ LeftSettled' /\ SettledSoFar' /\ Depth' = Depth /\ Top'.stage = "check"
    BY <1>1, <1>2, <1>3, <1>4, <2>1, MoveKeepsSettled
  <2>3. MainEnds'
    BY <1>1, <2>2, Going DEF MainEnds
  <2>. QED BY <2>2, <2>3 DEF SettledInv
<1>5. CASE Depth # 1
  <2>1. frames' = GotoAt("pass2", 1)
    BY <1>5 DEF EndPass1
  <2>2. GotoAt("pass2", 1) = MoveTo("pass2", 1, Top.savedPending)
    BY <1>1, <1>3, MoveForms
  <2>3. FilesMatch' /\ CalleeStages' /\ LeftSettled' /\ SettledSoFar' /\ Depth' = Depth /\ Top'.stage = "pass2"
    BY <1>1, <1>2, <1>3, <2>1, <2>2, MoveKeepsSettled
  <2>4. MainEnds'
    BY <1>1, <2>3, Going DEF MainEnds
  <2>. QED BY <2>3, <2>4 DEF SettledInv
<1>. QED BY <1>4, <1>5

\* Marking a package as used.
LEMMA MarkGrows ==
  ASSUME TypeOK, NEW i, imports' = [imports EXCEPT ![i].used = TRUE]
  PROVE  /\ Len(imports') = Len(imports)
         /\ \A k \in 1 .. Len(imports) : /\ imports'[k].file = imports[k].file
                                         /\ imports'[k].entered = imports[k].entered
                                         /\ imports[k].used \/ k = i => imports'[k].used
<1>1. imports \in Seq(Package)
  BY DEF TypeOK
<1>. DEFINE e == [imports[i] EXCEPT !.used = TRUE]
<1>2. ASSUME i \in 1 .. Len(imports)
      PROVE  /\ e \in Package /\ e.used
             /\ e.file = imports[i].file /\ e.entered = imports[i].entered
  <2>1. imports[i] \in Package
    BY <1>1, <1>2
  <2>. QED BY <2>1 DEF Package
<1>3. imports' = [imports EXCEPT ![i] = e]
  OBVIOUS
<1>. HIDE DEF e
<1>4. /\ Len(imports') = Len(imports)
      /\ \A k \in 1 .. Len(imports) : imports'[k] = IF k = i THEN e ELSE imports[k]
  BY ONLY <1>1, <1>2, <1>3, ReplaceAnywhere
<1>. QED BY <1>2, <1>4

\* The evaluation of a reference settles the declaration it stands in.
LEMMA EvalRefSettles ==
  ASSUME TypeOK, AtDecl, EvalRef(Decl.ref), prog' = prog,
         NEW i, i = Top.imp, NEW at, at = Top.pc, FileOf(i) = Top.file, FileOf(i)' = FileOf(i)
  PROVE  /\ errors \subseteq errors' /\ resolved \subseteq resolved'
         /\ Len(imports') = Len(imports)
         /\ \A k \in 1 .. Len(imports) : /\ imports'[k].file = imports[k].file
                                         /\ imports'[k].entered = imports[k].entered
                                         /\ imports[k].used => imports'[k].used
         /\ Settled(i, at)'
<1>. DEFINE r == Decl.ref
<1>1. errors \subseteq errors' /\ resolved \subseteq resolved'
  BY DEF EvalRef
<1>2. /\ Len(imports') = Len(imports)
      /\ \A k \in 1 .. Len(imports) : /\ imports'[k].file = imports[k].file
                                      /\ imports'[k].entered = imports[k].entered
                                      /\ imports[k].used => imports'[k].used
  <2>1. CASE imports' = imports
    BY <2>1
  <2>2. CASE imports' = [imports EXCEPT ![Target(r)].used = TRUE]
    BY <2>2, MarkGrows
  <2>. QED BY <2>1, <2>2 DEF EvalRef
<1>3. Decl = prog[FileOf(i)].decls[at]
  BY DEF Decl, Decls
<1>4. ASSUME r # NoRef, errors' = {}
      PROVE  \E x \in resolved' : /\ x.from = i /\ x.at = at /\ x.id = r.id
                                  /\ Qualified(r) => x.to \in 1 .. Len(imports') /\ imports'[x.to].used
  <2>1. Resolves(r)
    BY <1>4 DEF EvalRef
  <2>. DEFINE x == [from |-> Top.imp, at |-> Top.pc, to |-> Target(r), id |-> r.id]
  <2>2. x \in resolved'
    BY <1>4, <2>1 DEF EvalRef
  <2>3. ASSUME Qualified(r) PROVE x.to \in 1 .. Len(imports') /\ imports'[x.to].used
    <3>1. Target(r) # NoName
      BY <1>4, <2>1 DEF Resolves
    <3>2. Target(r) \in 1 .. Len(imports)
      BY <2>3, <3>1, FindImportType DEF Target
    <3>3. imports' = [imports EXCEPT ![Target(r)].used = TRUE]
      BY <2>3, <3>1 DEF EvalRef
    <3>. QED BY <3>2, <3>3, MarkGrows
  <2>4. x.from = i /\ x.at = at /\ x.id = r.id
    OBVIOUS
  <2>. HIDE DEF x
  <2>. QED BY <2>2, <2>3, <2>4
<1>5. Settled(i, at)'
  BY <1>3, <1>4 DEF Settled, Qualified
<1>. QED BY <1>1, <1>2, <1>5

\* Pass 2: an import is settled, a body is evaluated, a bundle refers to nothing.
LEMMA Pass2KeepsSettled ==
  ASSUME IInv, IInv', SettledInv, SkipImport \/ AnalyseDecl \/ AnalyseGroup \/ AnalyseVar
  PROVE  SettledInv'
<1>. USE StayFacts
<1>1. PICK i \in 0 .. Len(imports), at \in Nat : i = Top.imp /\ at = Top.pc
  BY CallTypes
<1>2. Top.stage = "pass2" /\ AtDecl /\ frames' = NextDecl /\ UNCHANGED <<prog, buildIgnored, semOk>>
  BY DEF SkipImport, AnalyseDecl, AnalyseGroup, AnalyseVar
<1>3. FileOf(i) = Top.file
  BY <1>1, CallTypes DEF SettledInv, FilesMatch, Top
<1>4. Grows /\ Len(imports') = Len(imports) /\ Settled(i, at)'
  <2>1. CASE AnalyseDecl \/ AnalyseVar
    <3>1. EvalRef(Decl.ref)
      BY <2>1 DEF AnalyseDecl, AnalyseVar
    <3>2. FileOf(i)' = FileOf(i)
      <4>1. CASE imports' = imports
        BY <4>1 DEF FileOf
      <4>2. CASE imports' = [imports EXCEPT ![Target(Decl.ref)].used = TRUE]
        BY <1>1, <4>2, MarkGrows, SequenceTypes DEF FileOf
      <4>. QED BY <3>1, <4>1, <4>2 DEF EvalRef
    <3>3. /\ errors \subseteq errors' /\ resolved \subseteq resolved'
          /\ Len(imports') = Len(imports)
          /\ \A k \in 1 .. Len(imports) : /\ imports'[k].file = imports[k].file
                                          /\ imports'[k].entered = imports[k].entered
                                          /\ imports[k].used => imports'[k].used
          /\ Settled(i, at)'
      BY <1>1, <1>2, <1>3, <3>1, <3>2, EvalRefSettles
    <3>. QED BY <1>2, <3>3, SequenceTypes DEF Grows
  <2>2. CASE SkipImport \/ AnalyseGroup
    <3>1. UNCHANGED <<imports, resolved>> /\ errors \subseteq errors'
      BY <2>2 DEF SkipImport, AnalyseGroup
    <3>2. Decl.op \notin {"proc", "const", "var"}
      BY <2>2 DEF SkipImport, AnalyseGroup, ImportOps
    <3>3. Decl = prog[FileOf(i)].decls[at] /\ FileOf(i)' = FileOf(i)
      BY <1>1, <1>3, <3>1 DEF Decl, Decls, FileOf
    <3>4. Settled(i, at)'
      BY <1>2, <3>2, <3>3 DEF Settled
    <3>. QED BY <1>2, <3>1, <3>4, SequenceTypes DEF Grows
  <2>. QED BY <2>1, <2>2
<1>5. "pass2" \in Stages /\ frames' = MoveTo("pass2", at + 1, Top.savedPending)
      /\ at + 1 \in Nat /\ Top.savedPending \in Nat
  BY <1>1, <1>2, MoveForms
<1>6. FilesMatch' /\ CalleeStages' /\ LeftSettled' /\ SettledSoFar' /\ Depth' = Depth /\ Top'.stage = "pass2"
  BY <1>1, <1>2, <1>4, <1>5, MoveKeepsSettled
<1>7. MainEnds'
  BY <1>2, <1>6, Going DEF MainEnds
<1>. QED BY <1>6, <1>7 DEF SettledInv

\* The main program's call alone is checked and tracked.
LEMMA MainStages ==
  ASSUME IInv, SettledInv, Top.stage \in {"check", "track"}
  PROVE  Depth = 1
<1>1. CASE Depth # 1
  <2>1. Depth \in 2 .. Depth
    BY <1>1, CallTypes
  <2>. QED BY <2>1 DEF SettledInv, CalleeStages, Registering, Top
<1>. QED BY <1>1

\* When pass 2 of the main program is over, its declarations are settled.
LEMMA MainSettled ==
  ASSUME IInv, SettledInv, Depth = 1, Top.stage = "pass2", ~ AtDecl
  PROVE  AllSettled(0)
<1>1. TypeOK /\ Top \in Frame /\ Top.imp = 0 /\ FileOf(0) = Top.file /\ Top.file \in Files
  BY StayFacts, CallTypes DEF SettledInv, FilesMatch, Top, Frame
<1>2. prog[Top.file].decls \in Seq(DeclType) /\ Top.pc \in Nat
  BY <1>1 DEF TypeOK, SourceType, Frame
<1>3. \A k \in DOMAIN prog[Top.file].decls : k < Top.pc
  BY <1>2 DEF AtDecl, Decls
<1>. QED BY <1>1, <1>3 DEF SettledInv, SettledSoFar, AllSettled

\* The steps of sem_analyse itself.
LEMMA MainKeepsSettled ==
  ASSUME IInv, IInv', SettledInv, CheckPass1 \/ CheckPass2 \/ TrackUsage \/ FinishTrack
  PROVE  SettledInv'
<1>. USE StayFacts
<1>1. /\ UNCHANGED <<prog, resolved, errors, buildIgnored>>
      /\ Top.pc \in Nat /\ Top.pc + 1 \in Nat /\ Top.savedPending \in Nat /\ 1 \in Nat
  BY MoveForms DEF CheckPass1, CheckPass2, TrackUsage, FinishTrack
<1>2. Depth = 1 /\ Top.stage # "return" /\ Top.imp = 0
  BY MainStages, CallTypes DEF CheckPass1, CheckPass2, TrackUsage, FinishTrack
<1>3. ~ buildIgnored /\ semOk = "running"
  BY <1>2, Going
<1>4. Grows /\ Len(imports') = Len(imports)
  <2>1. CASE imports' = imports
    BY <1>1, <2>1, SequenceTypes DEF Grows
  <2>2. CASE \E i : imports' = [imports EXCEPT ![i].used = TRUE]
    BY <1>1, <2>2, MarkGrows, SequenceTypes DEF Grows
  <2>3. CASE FinishTrack
    <3>1. imports' = [i \in 1 .. Len(imports) |->
                        IF imports[i].direct THEN imports[i] ELSE [imports[i] EXCEPT !.used = TRUE]]
      BY <2>3 DEF FinishTrack
    <3>2. \A i \in 1 .. Len(imports) : LET e == [imports[i] EXCEPT !.used = TRUE]
                                       IN  e.file = imports[i].file /\ e.entered = imports[i].entered /\ e.used
      <4>. TAKE i \in 1 .. Len(imports)
      <4>1. imports[i] \in Package
        OBVIOUS
      <4>. QED BY ONLY <4>1 DEF Package
    <3>3. Len(imports') = Len(imports) /\ Len(imports) \in Nat
      BY <3>1, SequenceTypes
    <3>. QED BY <1>1, <3>1, <3>2, <3>3 DEF Grows
  <2>. QED BY <2>1, <2>2, <2>3, Zenon DEF CheckPass1, CheckPass2, TrackUsage
<1>5. AllSettled(0) => AllSettled(0)'
  BY <1>4, CallTypes, AllSettledStays DEF IInv
<1>6. "return" \in Stages /\ "pass2" \in Stages /\ "track" \in Stages
  BY DEF Stages
<1>7. ASSUME NEW st \in {"return", "track", "pass2"}, NEW n \in Nat, frames' = MoveTo(st, n, Top.savedPending),
             st = "pass2" => n = 1,
             st = "track" => AllSettled(0) /\ errors = {} /\ semOk' = "running",
             st = "pass2" => semOk' = "running",
             st = "return" => semOk' # "running",
             semOk' = "ok" => AllSettled(0) /\ errors = {}
      PROVE  SettledInv'
  <2>1. FilesMatch' /\ CalleeStages' /\ LeftSettled' /\ SettledSoFar' /\ Depth' = Depth /\ Top'.stage = st
    BY <1>1, <1>2, <1>4, <1>6, <1>7, MoveKeepsSettled
  <2>2. MainEnds'
    BY <1>1, <1>2, <1>3, <1>5, <1>7, <2>1 DEF MainEnds
  <2>. QED BY <2>1, <2>2 DEF SettledInv
<1>8. ASSUME NEW st \in {"return", "track", "pass2"}
      PROVE  Goto(st) = MoveTo(st, Top.pc, Top.savedPending) /\ GotoAt(st, 1) = MoveTo(st, 1, Top.savedPending)
  BY <1>1, <1>6, MoveForms
<1>9. CASE CheckPass1
  <2>1. CASE errors # {}
    BY <1>1, <1>7, <1>8, <1>9, <2>1 DEF CheckPass1
  <2>2. CASE errors = {}
    BY <1>1, <1>3, <1>7, <1>8, <1>9, <2>2 DEF CheckPass1
  <2>. QED BY <2>1, <2>2
<1>10. CASE CheckPass2
  <2>1. AllSettled(0)
    BY <1>2, <1>10, MainSettled DEF CheckPass2
  <2>2. CASE errors # {}
    BY <1>1, <1>7, <1>8, <1>10, <2>2 DEF CheckPass2
  <2>3. CASE errors = {}
    BY <1>1, <1>3, <1>7, <1>8, <1>10, <2>1, <2>3 DEF CheckPass2
  <2>. QED BY <2>2, <2>3
<1>11. CASE TrackUsage
  <2>1. AllSettled(0) /\ errors = {}
    BY <1>11 DEF TrackUsage, SettledInv, MainEnds
  <2>2. frames' = MoveTo("track", Top.pc + 1, Top.savedPending) /\ semOk' = semOk
    BY <1>11, MoveForms DEF TrackUsage
  <2>. QED BY <1>1, <1>3, <1>7, <2>1, <2>2
<1>12. CASE FinishTrack
  <2>1. AllSettled(0) /\ errors = {}
    BY <1>12 DEF FinishTrack, SettledInv, MainEnds
  <2>2. frames' = MoveTo("return", Top.pc, Top.savedPending) /\ semOk' = "ok"
    BY <1>8, <1>12 DEF FinishTrack
  <2>. QED BY <1>1, <1>7, <2>1, <2>2
<1>. QED BY <1>9, <1>10, <1>11, <1>12

\* A step that changes none of this.
LEMMA StutterKeepsSettled ==
  ASSUME SettledInv, UNCHANGED <<prog, imports, resolved, errors, frames>>
  PROVE  FilesMatch' /\ CalleeStages' /\ LeftSettled' /\ SettledSoFar' /\ (AllSettled(0) => AllSettled(0)')
<1>1. Depth' = Depth /\ Top' = Top /\ Top'.imp = Top.imp /\ Top'.pc = Top.pc /\ Top'.stage = Top.stage
  BY DEF Depth, Top
<1>2. \A s : FileOf(s)' = FileOf(s)
  BY DEF FileOf
<1>3. \A s, k : Settled(s, k) => Settled(s, k)'
  <2>. SUFFICES ASSUME NEW s, NEW k, Settled(s, k)
                PROVE  Settled(s, k)'
    OBVIOUS
  <2>1. FileOf(s)' = FileOf(s)
    BY <1>2
  <2>2. \A q : Qualified(q)' <=> Qualified(q)
    BY DEF Qualified
  <2>. QED BY <2>1, <2>2 DEF Settled
<1>4. FilesMatch' /\ CalleeStages'
  BY <1>1 DEF SettledInv, FilesMatch, CalleeStages, FileOf
<1>5. \A s : AllSettled(s) => AllSettled(s)'
  <2>. SUFFICES ASSUME NEW s, AllSettled(s)
                PROVE  AllSettled(s)'
    OBVIOUS
  <2>1. DOMAIN prog'[FileOf(s)'].decls = DOMAIN prog[FileOf(s)].decls
    BY <1>2
  <2>2. \A k \in DOMAIN prog[FileOf(s)].decls : Settled(s, k)'
    BY <1>3 DEF AllSettled
  <2>. QED BY <2>1, <2>2 DEF AllSettled
<1>6. (AllSettled(0) => AllSettled(0)') /\ \A s \in 1 .. Len(imports) : AllSettled(s) => AllSettled(s)'
  BY <1>5
<1>7. LeftSettled'
  BY <1>1, <1>6 DEF SettledInv, LeftSettled
<1>8. SettledSoFar'
  <2>1. SUFFICES ASSUME Top'.stage = "pass2", NEW k \in DOMAIN prog'[FileOf(Top.imp)'].decls, k < Top'.pc
                 PROVE  Settled(Top.imp, k)'
    BY DEF SettledSoFar
  <2>2. FileOf(Top.imp)' = FileOf(Top.imp)
    BY <1>1 DEF FileOf
  <2>3. Settled(Top.imp, k)
    BY <1>1, <2>1, <2>2 DEF SettledInv, SettledSoFar
  <2>. QED BY <1>1, <1>3, <2>3
<1>. QED BY <1>4, <1>6, <1>7, <1>8

\* A build-ignored program is accepted as it is.
LEMMA IgnoredKeepsSettled ==
  ASSUME IInv, SettledInv, IgnoredMain
  PROVE  SettledInv'
<1>1. buildIgnored
  BY DEF IgnoredMain, SettledInv, MainEnds
<1>2. UNCHANGED <<prog, imports, resolved, errors, buildIgnored, frames>>
  BY DEF IgnoredMain
<1>3. FilesMatch' /\ CalleeStages' /\ LeftSettled' /\ SettledSoFar' /\ Depth' = Depth /\ Top' = Top
  BY <1>2, StutterKeepsSettled DEF Depth, Top
<1>4. MainEnds'
  BY <1>1, <1>2, <1>3 DEF IgnoredMain, SettledInv, MainEnds
<1>. QED BY <1>3, <1>4 DEF SettledInv

\* The steps that call.
LEMMA CallsKeepSettled ==
  ASSUME IInv, IInv', SettledInv,
         \/ AutoImportRuntime \/ AutoImportIntrinsics
         \/ HandleImport \/ HandleImportNamed \/ HandleImportUsing
  PROVE  SettledInv'
<1>1. UNCHANGED <<prog, resolved, errors, buildIgnored, semOk>>
  BY DEF AutoImportRuntime, AutoImportIntrinsics, HandleImport, HandleImportNamed, HandleImportUsing
<1>. QED BY <1>1, CallForms, AnalyseKeepsSettled

-----------------------------------------------------------------------------
\* The invariant holds when sem_analyse starts.
LEMMA InitSettled == Init => SettledInv
<1>. SUFFICES ASSUME Init PROVE SettledInv
  OBVIOUS
<1>. DEFINE f == [imp |-> 0, file |-> Main, stage |-> "enter", pc |-> 1, savedName |-> NoName,
                  savedPending |-> 0, savedCount |-> 0, how |-> "main", alias |-> RuntimeName]
<1>1. frames = <<f>> /\ f.imp = 0 /\ f.file = Main /\ f.stage = "enter"
  BY DEF Init
<1>. HIDE DEF f
<1>2. Depth = 1 /\ Top = f /\ frames[1] = f
  BY <1>1 DEF Depth, Top
<1>3. imports = <<>> /\ buildIgnored = FALSE /\ semOk = "running"
  BY DEF Init
<1>. QED BY <1>1, <1>2, <1>3 DEF SettledInv, FilesMatch, CalleeStages, LeftSettled, SettledSoFar, MainEnds, FileOf

\* Every step keeps it.
LEMMA NextSettled == IInv /\ IInv' /\ SettledInv /\ [Next]_vars => SettledInv'
<1>. SUFFICES ASSUME IInv, IInv', SettledInv, [Next]_vars PROVE SettledInv'
  OBVIOUS
<1>1. CASE UNCHANGED vars
  <2>1. UNCHANGED <<prog, imports, resolved, errors, frames, buildIgnored, semOk>>
    BY <1>1 DEF vars
  <2>2. /\ FilesMatch' /\ CalleeStages' /\ LeftSettled' /\ SettledSoFar' /\ (AllSettled(0) => AllSettled(0)')
        /\ Depth' = Depth /\ Top' = Top
    BY <2>1, StutterKeepsSettled DEF Depth, Top
  <2>3. MainEnds'
    BY <2>1, <2>2 DEF SettledInv, MainEnds
  <2>. QED BY <2>2, <2>3 DEF SettledInv
<1>2. CASE Next
  BY <1>2, Pass1MovesKeepSettled, EnterKeepsSettled, EndPass1KeepsSettled, Pass2KeepsSettled,
     MainKeepsSettled, IgnoredKeepsSettled, CallsKeepSettled, ReturnKeepsSettled, Zenon DEF Next
<1>. QED BY <1>1, <1>2

\* At the end only the main program's call is left.
LEMMA SettledAtEnd ==
  ASSUME IInv, SettledInv, semOk = "ok", ~ buildIgnored,
         NEW s \in DOMAIN syms, NEW k \in DOMAIN prog[FileOf(s)].decls,
         s = 0 \/ imports[s].entered
  PROVE  errors = {} /\ Settled(s, k)
<1>0. s \in 0 .. Len(imports)
  BY DEF IInv, TypeOK
<1>1. AllSettled(0) /\ errors = {} /\ Depth = 1 /\ frames[1].imp = 0
  BY DEF SettledInv, MainEnds, IInv, ControlInv, CallsInv
<1>2. CASE s = 0
  BY <1>1, <1>2 DEF AllSettled
<1>3. CASE s # 0
  <2>1. s \in 1 .. Len(imports)
    BY <1>0, <1>3
  <2>2. AllSettled(s)
    BY <1>1, <1>3, <2>1 DEF SettledInv, LeftSettled
  <2>. QED BY <1>1, <2>2 DEF AllSettled
<1>. QED BY <1>2, <1>3

\* ... so what was settled was resolved.
LEMMA SettledMeans == IInv /\ SettledInv => AcceptedMeansResolved
<1>. SUFFICES ASSUME IInv, SettledInv PROVE AcceptedMeansResolved
  OBVIOUS
<1>1. ASSUME semOk = "ok" /\ ~ buildIgnored, NEW s \in DOMAIN syms, NEW k \in DOMAIN prog[FileOf(s)].decls
      PROVE  LET d == prog[FileOf(s)].decls[k]
             IN  d.op \in {"proc", "const", "var"} /\ d.ref # NoRef /\ (s = 0 \/ imports[s].entered) =>
                   \E r \in resolved : /\ r.from = s /\ r.at = k /\ r.id = d.ref.id
                                       /\ Qualified(d.ref) => imports[r.to].used
  <2>1. CASE s = 0 \/ imports[s].entered
    <3>1. errors = {} /\ Settled(s, k)
      BY <1>1, <2>1, SettledAtEnd
    <3>. QED BY <3>1 DEF Settled
  <2>2. CASE ~ (s = 0 \/ imports[s].entered)
    BY <2>2
  <2>. QED BY <2>1, <2>2
<1>. QED BY <1>1 DEF AcceptedMeansResolved

\* For all programs: sem_analyse accepts a program only when every reference
\* of every analysed package was resolved, to a package the generator keeps.
THEOREM AcceptedTheorem == Spec => []AcceptedMeansResolved
<1>1. IInv /\ SettledInv /\ [Next]_vars => IInv' /\ SettledInv'
  BY NextInv, NextSettled
<1>2. Init => IInv /\ SettledInv
  BY InitInv, InitSettled
<1>. QED BY <1>1, <1>2, SettledMeans, PTL DEF Spec

-----------------------------------------------------------------------------
(* The procedures and constants of an imported package carry its own name. *)
(* The first half of the invariant is about the call stack: the name of    *)
(* the package, the import stack and the deferred bundles are those of the *)
(* executing call, whatever the calls in between did with them.            *)

Declares == {"proc", "const", "group"}

\* From its clause on, ctx->package_name is that of the package, and a call
\* that waits for another finds it again.
NamesFollow ==
  /\ Top.stage \in {"pass1", "check", "pass2", "track"} => pkgName = prog[Top.file].clause
  /\ \A n \in 1 .. Depth - 1 : frames[n].stage = "pass1" => frames[n + 1].savedName = prog[frames[n].file].clause
\* The import stack has one path for every call that is not for a prelude.
PathsCount ==
  \E count \in [1 .. Depth -> Nat] :
    /\ count[1] = 0 /\ count[Depth] = Len(importStack)
    /\ \A n \in 2 .. Depth : count[n] = IF frames[n].how = "prelude" THEN count[n - 1] ELSE count[n - 1] + 1
HowMatches == \A n \in 2 .. Depth : frames[n].how = "prelude" => imports[frames[n].imp].prelude # "none"
\* A package is registered after those that wait for it.
CallsAscend == \A h, n \in 1 .. Depth : h < n => frames[h].imp < frames[n].imp
\* A deferred bundle is one of the file of a call in its pass 1, above the
\* snapshot of that call and below those of the calls it waits for.
OwnBundle(b, c) ==
  /\ b.imp = c.imp /\ b.file = c.file
  /\ b.at \in DOMAIN prog[c.file].decls /\ prog[c.file].decls[b.at].op = "group"
PendingOwned ==
  \A k \in 1 .. Len(pending) :
    \E h \in 1 .. Depth :
      /\ Registering(frames[h]) /\ frames[h].savedPending < k /\ OwnBundle(pending[k], frames[h])
      /\ \A n \in h + 1 .. Depth : Registering(frames[n]) => k <= frames[n].savedPending
NamesInv == NamesFollow /\ PathsCount /\ HowMatches /\ CallsAscend /\ PendingOwned

\* A registered package keeps its file and whether it is a prelude.
PackagesStay ==
  /\ prog' = prog /\ Len(imports) <= Len(imports')
  /\ \A k \in 1 .. Len(imports) : imports'[k].file = imports[k].file /\ imports'[k].prelude = imports[k].prelude

\* What it takes for the deferred bundles to be owned after a step.
LEMMA OwnedAgain ==
  ASSUME prog' = prog, NEW d, d = Depth',
         \A k \in 1 .. Len(pending') :
           \E h \in 1 .. d :
             /\ Registering(frames'[h]) /\ frames'[h].savedPending < k /\ OwnBundle(pending'[k], frames'[h])
             /\ \A n \in h + 1 .. d : Registering(frames'[n]) => k <= frames'[n].savedPending
  PROVE  PendingOwned'
<1>1. SUFFICES ASSUME NEW k \in 1 .. Len(pending')
               PROVE  \E h \in 1 .. Depth' :
                        /\ Registering(frames'[h]) /\ frames'[h].savedPending < k /\ OwnBundle(pending[k], frames[h])'
                        /\ \A n \in h + 1 .. Depth' : Registering(frames'[n]) => k <= frames'[n].savedPending
  BY DEF PendingOwned, Registering
<1>2. PICK h \in 1 .. d :
             /\ Registering(frames'[h]) /\ frames'[h].savedPending < k /\ OwnBundle(pending'[k], frames'[h])
             /\ \A n \in h + 1 .. d : Registering(frames'[n]) => k <= frames'[n].savedPending
  BY <1>1
<1>3. OwnBundle(pending[k], frames[h])'
  BY <1>2 DEF OwnBundle
<1>. QED BY <1>2, <1>3

\* ... when one of its other fields is written ...
LEMMA FieldKeepsPackages ==
  ASSUME TypeOK, NEW i, prog' = prog,
         \/ imports' = [imports EXCEPT ![i].used = TRUE]
         \/ \E name \in Names : imports' = [imports EXCEPT ![i].name = name]
  PROVE  PackagesStay /\ Len(imports') = Len(imports)
<1>1. imports \in Seq(Package) /\ Len(imports) \in Nat
  BY DEF TypeOK
<1>2. PICK e : /\ imports' = [imports EXCEPT ![i] = e]
               /\ i \in 1 .. Len(imports) => e \in Package /\ e.file = imports[i].file /\ e.prelude = imports[i].prelude
  <2>1. i \in 1 .. Len(imports) => imports[i] \in Package
    BY <1>1
  <2>2. CASE imports' = [imports EXCEPT ![i].used = TRUE]
    <3>. DEFINE e == [imports[i] EXCEPT !.used = TRUE]
    <3>1. i \in 1 .. Len(imports) => e \in Package /\ e.file = imports[i].file /\ e.prelude = imports[i].prelude
      BY <2>1 DEF Package
    <3>2. imports' = [imports EXCEPT ![i] = e]
      BY <2>2
    <3>. HIDE DEF e
    <3>. QED BY <3>1, <3>2
  <2>3. ASSUME NEW name \in Names, imports' = [imports EXCEPT ![i].name = name]
        PROVE  \E e : /\ imports' = [imports EXCEPT ![i] = e]
                      /\ i \in 1 .. Len(imports) => e \in Package /\ e.file = imports[i].file /\ e.prelude = imports[i].prelude
    <3>. DEFINE e == [imports[i] EXCEPT !.name = name]
    <3>1. i \in 1 .. Len(imports) => e \in Package /\ e.file = imports[i].file /\ e.prelude = imports[i].prelude
      BY <2>1 DEF Package
    <3>2. imports' = [imports EXCEPT ![i] = e]
      BY <2>3
    <3>. HIDE DEF e
    <3>. QED BY <3>1, <3>2
  <2>. QED BY <2>2, <2>3
<1>3. /\ Len(imports') = Len(imports)
      /\ \A k \in 1 .. Len(imports) : imports'[k] = IF k = i THEN e ELSE imports[k]
  BY ONLY <1>1, <1>2, ReplaceAnywhere
<1>. QED BY <1>1, <1>2, <1>3 DEF PackagesStay

\* ... and so in every step.
LEMMA NextKeepsPackages ==
  ASSUME IInv, Next
  PROVE  PackagesStay
<1>. USE StayFacts
<1>1. prog' = prog /\ Len(imports) \in Nat
  BY SequenceTypes DEF Next, EnterPass1, AutoImportRuntime, AutoImportIntrinsics, SkipPrelude, CopyRuntimeSymbols,
     PackageClause, ImportFails, ImportCycle, HandleImport, HandleImportNamed, HandleImportUsing, ReturnImport,
     RegisterDecl, RegisterVar, RegisterGroup, EndPass1, SkipImport, AnalyseDecl, AnalyseGroup, AnalyseVar,
     CheckPass1, IgnoredMain, CheckPass2, TrackUsage, FinishTrack
<1>2. CASE imports' = imports
  BY <1>1, <1>2 DEF PackagesStay
<1>3. CASE \E i : imports' = [imports EXCEPT ![i].used = TRUE]
  BY <1>1, <1>3, FieldKeepsPackages
<1>4. CASE \E e : imports' = Append(imports, e)
  BY <1>1, <1>4 DEF PackagesStay
<1>5. CASE ReturnImport
  <2>1. CASE imports' = [imports EXCEPT ![Top.imp].name = Top.alias]
    <3>1. Top.alias \in Names
      BY DEF Frame
    <3>. QED BY <1>1, <2>1, <3>1, FieldKeepsPackages
  <2>. QED BY <1>2, <1>5, <2>1 DEF ReturnImport
<1>6. CASE FinishTrack
  <2>1. imports' = [i \in 1 .. Len(imports) |->
                      IF imports[i].direct THEN imports[i] ELSE [imports[i] EXCEPT !.used = TRUE]]
    BY <1>6 DEF FinishTrack
  <2>2. \A i \in 1 .. Len(imports) : LET e == [imports[i] EXCEPT !.used = TRUE]
                                     IN  e.file = imports[i].file /\ e.prelude = imports[i].prelude
    <3>. TAKE i \in 1 .. Len(imports)
    <3>1. imports[i] \in Package
      OBVIOUS
    <3>. QED BY ONLY <3>1 DEF Package
  <2>3. Len(imports') = Len(imports)
    BY <1>1, <2>1
  <2>. QED BY <1>1, <2>1, <2>2, <2>3 DEF PackagesStay
<1>7. CASE AutoImportRuntime \/ AutoImportIntrinsics \/ HandleImport \/ HandleImportNamed \/ HandleImportUsing
  BY <1>4, <1>7, Zenon DEF AutoImportRuntime, AutoImportIntrinsics, HandleImport, HandleImportNamed, HandleImportUsing, Analyse
<1>8. CASE TrackUsage
  BY <1>2, <1>3, <1>8, Zenon DEF TrackUsage
<1>9. CASE AnalyseDecl \/ AnalyseVar
  BY <1>2, <1>3, <1>9, Zenon DEF AnalyseDecl, AnalyseVar, EvalRef
<1>10. CASE \/ EnterPass1 \/ SkipPrelude \/ CopyRuntimeSymbols \/ PackageClause \/ ImportFails \/ ImportCycle
            \/ RegisterDecl \/ RegisterVar \/ RegisterGroup \/ EndPass1 \/ SkipImport \/ AnalyseGroup
            \/ CheckPass1 \/ IgnoredMain \/ CheckPass2
  BY <1>2, <1>10, Zenon DEF EnterPass1, SkipPrelude, CopyRuntimeSymbols, PackageClause, ImportFails, ImportCycle,
     RegisterDecl, RegisterVar, RegisterGroup, EndPass1, SkipImport, AnalyseGroup, CheckPass1, IgnoredMain, CheckPass2
<1>. QED BY <1>5, <1>6, <1>7, <1>8, <1>9, <1>10, Zenon DEF Next

-----------------------------------------------------------------------------
(* The call stack, step by step.                                           *)

\* What a move leaves of the frames.
LEMMA MovedFrames ==
  ASSUME FramesOK, NEW st \in Stages, NEW n \in Nat, NEW from \in Nat, frames' = MoveTo(st, n, from)
  PROVE  /\ Depth' = Depth /\ Depth \in Nat \ {0} /\ Depth \in 1 .. Depth
         /\ \A k \in 1 .. Depth : k # Depth => frames'[k] = frames[k]
         /\ Top' = frames'[Depth] /\ frames'[Depth].stage = st /\ frames'[Depth].pc = n
         /\ frames'[Depth].savedPending = from
         /\ \A k \in 1 .. Depth : /\ frames'[k].imp = frames[k].imp /\ frames'[k].file = frames[k].file
                                  /\ frames'[k].how = frames[k].how /\ frames'[k].savedName = frames[k].savedName
<1>1. Top \in Frame /\ Depth \in Nat \ {0} /\ Depth \in 1 .. Depth
  BY TopType
<1>2. Len(frames') = Depth /\ Depth' = Depth /\ Top' = frames'[Depth]
  BY <1>1, MoveType DEF Depth, Top
<1>3. frames'[Depth] = Moved(Top, st, n, from) /\ \A k \in 1 .. Depth : k # Depth => frames'[k] = frames[k]
  BY MoveType
<1>. DEFINE g == Moved(Top, st, n, from)
<1>4. /\ g.stage = st /\ g.pc = n /\ g.savedPending = from /\ g.imp = Top.imp /\ g.file = Top.file
      /\ g.how = Top.how /\ g.savedName = Top.savedName
  BY <1>1 DEF Moved, Frame
<1>. HIDE DEF g
<1>5. frames'[Depth] = g
  BY <1>3 DEF g
<1>. QED BY <1>1, <1>2, <1>3, <1>4, <1>5 DEF Top

\* A move keeps the calls' names and paths.
LEMMA MoveKeepsNames ==
  ASSUME IInv, NamesInv, PackagesStay, Len(imports') = Len(imports), importStack' = importStack,
         NEW st \in Stages, NEW n \in Nat, NEW from \in Nat, frames' = MoveTo(st, n, from),
         st \in {"pass1", "check", "pass2", "track"} => pkgName' = prog[Top.file].clause,
         PendingOwned'
  PROVE  NamesInv'
<1>1. FramesOK
  BY StayFacts
<1>2. /\ Depth' = Depth /\ Depth \in Nat \ {0} /\ Depth \in 1 .. Depth
      /\ \A k \in 1 .. Depth : k # Depth => frames'[k] = frames[k]
      /\ Top' = frames'[Depth] /\ frames'[Depth].stage = st
      /\ \A k \in 1 .. Depth : /\ frames'[k].imp = frames[k].imp /\ frames'[k].file = frames[k].file
                               /\ frames'[k].how = frames[k].how /\ frames'[k].savedName = frames[k].savedName
  BY <1>1, MovedFrames
<1>3. NamesFollow'
  <2>1. st \in {"pass1", "check", "pass2", "track"} => pkgName' = prog[Top'.file].clause
    BY <1>2 DEF Top
  <2>2. ASSUME NEW k \in 1 .. Depth - 1, frames'[k].stage = "pass1"
        PROVE  frames'[k + 1].savedName = prog[frames'[k].file].clause
    <3>1. k \in 1 .. Depth /\ k # Depth /\ k + 1 \in 1 .. Depth
      BY <1>2
    <3>2. frames[k].stage = "pass1"
      BY <1>2, <2>2, <3>1
    <3>. QED BY <1>2, <3>1, <3>2 DEF NamesInv, NamesFollow
  <2>. QED BY <1>2, <2>1, <2>2 DEF NamesFollow, PackagesStay
<1>4. PathsCount'
  <2>1. \A k \in 2 .. Depth : frames'[k].how = frames[k].how
    BY <1>2
  <2>2. PICK count \in [1 .. Depth -> Nat] :
          /\ count[1] = 0 /\ count[Depth] = Len(importStack)
          /\ \A k \in 2 .. Depth : count[k] = IF frames[k].how = "prelude" THEN count[k - 1] ELSE count[k - 1] + 1
    BY DEF NamesInv, PathsCount
  <2>3. \A k \in 2 .. Depth : count[k] = IF frames'[k].how = "prelude" THEN count[k - 1] ELSE count[k - 1] + 1
    BY <2>1, <2>2
  <2>. QED BY <1>2, <2>2, <2>3 DEF PathsCount
<1>5. HowMatches'
  <2>1. ASSUME NEW k \in 2 .. Depth, frames'[k].how = "prelude" PROVE imports'[frames'[k].imp].prelude # "none"
    <3>1. k \in 1 .. Depth /\ frames[k].imp \in 1 .. Len(imports)
      BY DEF IInv, ControlInv, CallsInv
    <3>2. imports[frames[k].imp].prelude # "none"
      BY <1>2, <2>1, <3>1 DEF NamesInv, HowMatches
    <3>. QED BY <1>2, <3>1, <3>2 DEF PackagesStay
  <2>. QED BY <1>2, <2>1 DEF HowMatches
<1>6. CallsAscend'
  BY <1>2 DEF NamesInv, CallsAscend
<1>. QED BY <1>3, <1>4, <1>5, <1>6 DEF NamesInv

\* The snapshots bound the deferred bundles.
LEMMA SnapshotFacts ==
  ASSUME IInv
  PROVE  /\ Len(pending) \in Nat /\ FramesOK /\ Depth \in Nat \ {0} /\ Depth \in 1 .. Depth
         /\ \A k \in 1 .. Depth : frames[k].savedPending \in Nat /\ frames[k].savedPending <= Len(pending)
         /\ Top.savedPending \in Nat /\ Top.savedPending <= Len(pending)
         /\ \A k \in 1 .. Depth - 1 : Registering(frames[k])
<1>1. Len(pending) \in Nat /\ FramesOK /\ Depth \in Nat \ {0} /\ CallsInv /\ Depth \in 1 .. Depth
  BY SequenceTypes, StayFacts
<1>2. \A k \in 1 .. Depth : frames[k].savedPending \in Nat /\ frames[k].savedPending <= Len(pending)
  BY <1>1, FrameTypes DEF CallsInv
<1>. QED BY <1>1, <1>2 DEF Top, IInv, ControlInv, ScopesMatchCalls

\* The step neither opens nor closes pass 1, and defers at most a bundle of its own.
LEMMA StayKeepsPending ==
  ASSUME IInv, NamesInv, prog' = prog, NEW st \in Stages, NEW n \in Nat,
         frames' = MoveTo(st, n, Top.savedPending), Registers(st) <=> Registers(Top.stage),
         \/ pending' = pending
         \/ \E b \in Pending : pending' = Append(pending, b) /\ Registers(st) /\ OwnBundle(b, Top)
  PROVE  PendingOwned'
<1>1. /\ Len(pending) \in Nat /\ FramesOK /\ Top.savedPending \in Nat /\ Depth \in Nat \ {0} /\ Depth \in 1 .. Depth
      /\ Top.savedPending <= Len(pending) /\ pending \in Seq(Pending)
  BY SnapshotFacts, StayFacts
<1>2. /\ Depth' = Depth /\ frames'[Depth].stage = st
      /\ \A k \in 1 .. Depth : k # Depth => frames'[k] = frames[k]
      /\ frames'[Depth].savedPending = Top.savedPending
      /\ \A k \in 1 .. Depth : frames'[k].imp = frames[k].imp /\ frames'[k].file = frames[k].file
  BY <1>1, MovedFrames
<1>3. \A k \in 1 .. Depth : /\ Registering(frames'[k]) <=> Registering(frames[k])
                            /\ frames'[k].savedPending = frames[k].savedPending
  BY <1>2 DEF Registering, Registers, Top
<1>4. \A b, k : k \in 1 .. Depth /\ OwnBundle(b, frames[k]) => OwnBundle(b, frames'[k])
  BY <1>2 DEF OwnBundle
<1>5. ASSUME NEW k \in 1 .. Len(pending), NEW b, b = pending[k]
      PROVE  \E h \in 1 .. Depth :
               /\ Registering(frames'[h]) /\ frames'[h].savedPending < k /\ OwnBundle(b, frames'[h])
               /\ \A j \in h + 1 .. Depth : Registering(frames'[j]) => k <= frames'[j].savedPending
  <2>1. PICK h \in 1 .. Depth :
               /\ Registering(frames[h]) /\ frames[h].savedPending < k /\ OwnBundle(b, frames[h])
               /\ \A j \in h + 1 .. Depth : Registering(frames[j]) => k <= frames[j].savedPending
    BY <1>5 DEF NamesInv, PendingOwned
  <2>2. \A j \in h + 1 .. Depth : j \in 1 .. Depth
    OBVIOUS
  <2>. QED BY <1>3, <1>4, <2>1, <2>2
<1>6. ASSUME NEW k \in 1 .. Len(pending')
      PROVE  \E h \in 1 .. Depth :
               /\ Registering(frames'[h]) /\ frames'[h].savedPending < k /\ OwnBundle(pending'[k], frames'[h])
               /\ \A j \in h + 1 .. Depth : Registering(frames'[j]) => k <= frames'[j].savedPending
  <2>1. CASE pending' = pending
    BY <1>5, <2>1
  <2>2. ASSUME NEW b \in Pending, pending' = Append(pending, b), Registers(st), OwnBundle(b, Top)
        PROVE  \E h \in 1 .. Depth :
               /\ Registering(frames'[h]) /\ frames'[h].savedPending < k /\ OwnBundle(pending'[k], frames'[h])
               /\ \A j \in h + 1 .. Depth : Registering(frames'[j]) => k <= frames'[j].savedPending
    <3>1. /\ Len(pending') = Len(pending) + 1 /\ pending'[Len(pending) + 1] = b
          /\ \A j \in 1 .. Len(pending) : pending'[j] = pending[j]
      BY <1>1, <2>2
    <3>2. CASE k \in 1 .. Len(pending)
      BY <1>5, <3>1, <3>2
    <3>3. CASE k = Len(pending) + 1
      <4>1. Registering(frames'[Depth]) /\ OwnBundle(b, frames'[Depth])
        BY <1>1, <1>2, <1>4, <2>2 DEF Registers, Registering, Top
      <4>2. frames'[Depth].savedPending < k
        BY <1>1, <1>2, <3>3
      <4>3. \A j \in Depth + 1 .. Depth : FALSE
        BY <1>1
      <4>. QED BY <1>1, <3>1, <3>3, <4>1, <4>2, <4>3
    <3>. QED BY <1>1, <3>1, <3>2, <3>3
  <2>. QED BY <2>1, <2>2
<1>. QED BY <1>2, <1>6, OwnedAgain

\* A call opens its pass 1 with the snapshot of what is deferred, or never does.
LEMMA EnterKeepsPending ==
  ASSUME IInv, NamesInv, prog' = prog, ~ Registering(Top), NEW st \in Stages, NEW n \in Nat, NEW from \in Nat,
         frames' = MoveTo(st, n, from), Registers(st) => from = Len(pending), pending' = pending
  PROVE  PendingOwned'
<1>1. Len(pending) \in Nat /\ FramesOK /\ Depth \in Nat \ {0} /\ Depth \in 1 .. Depth
  BY SnapshotFacts
<1>2. /\ Depth' = Depth /\ frames'[Depth].stage = st
      /\ \A k \in 1 .. Depth : k # Depth => frames'[k] = frames[k]
      /\ frames'[Depth].savedPending = from
  BY <1>1, MovedFrames
<1>3. ASSUME NEW k \in 1 .. Len(pending), NEW b, b = pending[k]
      PROVE  \E h \in 1 .. Depth :
               /\ Registering(frames'[h]) /\ frames'[h].savedPending < k /\ OwnBundle(b, frames'[h])
               /\ \A j \in h + 1 .. Depth : Registering(frames'[j]) => k <= frames'[j].savedPending
  <2>1. PICK h \in 1 .. Depth :
               /\ Registering(frames[h]) /\ frames[h].savedPending < k /\ OwnBundle(b, frames[h])
               /\ \A j \in h + 1 .. Depth : Registering(frames[j]) => k <= frames[j].savedPending
    BY <1>3 DEF NamesInv, PendingOwned
  <2>2. h # Depth
    BY <2>1 DEF Top
  <2>3. ASSUME NEW j \in h + 1 .. Depth, Registering(frames'[j]) PROVE k <= frames'[j].savedPending
    <3>1. CASE j = Depth
      <4>1. from = Len(pending)
        BY <1>2, <2>3, <3>1 DEF Registering, Registers
      <4>. QED BY <1>1, <1>2, <3>1, <4>1
    <3>2. CASE j # Depth
      BY <1>1, <1>2, <2>1, <2>3, <3>2
    <3>. QED BY <3>1, <3>2
  <2>. QED BY <1>2, <2>1, <2>2, <2>3
<1>. QED BY <1>2, <1>3, OwnedAgain

\* It closes it by cutting its own bundles off.
LEMMA ClosePending ==
  ASSUME IInv, NamesInv, prog' = prog, Registering(Top), NEW st \in Stages, ~ Registers(st), NEW n \in Nat,
         frames' = MoveTo(st, n, Top.savedPending), pending' = SubSeq(pending, 1, Top.savedPending)
  PROVE  PendingOwned'
<1>1. /\ Len(pending) \in Nat /\ FramesOK /\ Depth \in Nat \ {0} /\ Depth \in 1 .. Depth
      /\ Top.savedPending \in Nat /\ Top.savedPending <= Len(pending) /\ pending \in Seq(Pending)
  BY SnapshotFacts, StayFacts
<1>2. /\ Depth' = Depth /\ frames'[Depth].stage = st
      /\ \A k \in 1 .. Depth : k # Depth => frames'[k] = frames[k]
  BY <1>1, MovedFrames
<1>3. Len(pending') = Top.savedPending /\ \A k \in 1 .. Top.savedPending : pending'[k] = pending[k]
  BY <1>1
<1>4. ASSUME NEW k \in 1 .. Top.savedPending, NEW b, b = pending[k]
      PROVE  \E h \in 1 .. Depth :
               /\ Registering(frames'[h]) /\ frames'[h].savedPending < k /\ OwnBundle(b, frames'[h])
               /\ \A j \in h + 1 .. Depth : Registering(frames'[j]) => k <= frames'[j].savedPending
  <2>0. k \in 1 .. Len(pending)
    BY <1>1
  <2>1. PICK h \in 1 .. Depth :
               /\ Registering(frames[h]) /\ frames[h].savedPending < k /\ OwnBundle(b, frames[h])
               /\ \A j \in h + 1 .. Depth : Registering(frames[j]) => k <= frames[j].savedPending
    BY <1>4, <2>0 DEF NamesInv, PendingOwned
  <2>2. h # Depth
    BY <1>1, <2>1 DEF Top
  <2>3. ~ Registering(frames'[Depth])
    BY <1>2 DEF Registering, Registers
  <2>4. ASSUME NEW j \in h + 1 .. Depth, Registering(frames'[j]) PROVE k <= frames'[j].savedPending
    <3>1. j # Depth
      BY <2>3, <2>4
    <3>. QED BY <1>1, <1>2, <2>1, <2>4, <3>1
  <2>. QED BY <1>2, <2>1, <2>2, <2>4
<1>5. ASSUME NEW k \in 1 .. Len(pending')
      PROVE  \E h \in 1 .. Depth :
               /\ Registering(frames'[h]) /\ frames'[h].savedPending < k /\ OwnBundle(pending'[k], frames'[h])
               /\ \A j \in h + 1 .. Depth : Registering(frames'[j]) => k <= frames'[j].savedPending
  BY <1>3, <1>4
<1>. QED BY <1>2, <1>5, OwnedAgain

\* What a call leaves of the frames.
LEMMA PushedFrames ==
  ASSUME IInv, NEW pkg \in Package, NEW st \in Stages, NEW n \in Nat,
         NEW how, NEW alias, NEW stage,
         Analyse(pkg, MoveTo(st, n, Top.savedPending), how, alias, stage)
  PROVE  /\ Depth' = Depth + 1 /\ Depth \in Nat \ {0} /\ Depth \in 1 .. Depth
         /\ \A k \in 1 .. Depth : k # Depth => frames'[k] = frames[k]
         /\ \A k \in 1 .. Depth + 1 : k \in 1 .. Depth \/ k = Depth + 1
         /\ frames'[Depth].stage = st /\ frames'[Depth].pc = n
         /\ \A k \in 1 .. Depth : /\ frames'[k].imp = frames[k].imp /\ frames'[k].file = frames[k].file
                                  /\ frames'[k].how = frames[k].how /\ frames'[k].savedName = frames[k].savedName
                                  /\ frames'[k].savedPending = frames[k].savedPending
         /\ Top' = frames'[Depth + 1]
         /\ Top'.imp = Len(imports) + 1 /\ Top'.stage = stage /\ Top'.how = how
         /\ Top'.savedName = pkgName /\ Top'.file = pkg.file
         /\ Len(imports') = Len(imports) + 1 /\ Len(imports) \in Nat
         /\ imports'[Len(imports) + 1].prelude = pkg.prelude
         /\ imports'[Len(imports) + 1].file = pkg.file
<1>. DEFINE here == MoveTo(st, n, Top.savedPending)
            e == [pkg EXCEPT !.entered = (stage = "enter")]
            f == [imp |-> Len(imports) + 1, file |-> pkg.file, stage |-> stage, pc |-> 1,
                  savedName |-> pkgName, savedPending |-> 0, savedCount |-> Len(scopes),
                  how |-> how, alias |-> alias]
<1>1. FramesOK /\ Top \in Frame /\ Top.savedPending \in Nat /\ Depth \in Nat \ {0} /\ Depth \in 1 .. Depth
      /\ imports \in Seq(Package)
  BY StayFacts, MoveForms
<1>2. /\ here \in Seq(Frame) /\ Len(here) = Depth /\ here[Depth] = Moved(Top, st, n, Top.savedPending)
      /\ \A k \in 1 .. Depth : k # Depth => here[k] = frames[k]
  BY <1>1, MoveType
<1>3. /\ here[Depth].stage = st /\ here[Depth].pc = n /\ here[Depth].savedPending = Top.savedPending
      /\ here[Depth].imp = Top.imp /\ here[Depth].file = Top.file
      /\ here[Depth].how = Top.how /\ here[Depth].savedName = Top.savedName
  <2>. DEFINE g == Moved(Top, st, n, Top.savedPending)
  <2>1. /\ g.stage = st /\ g.pc = n /\ g.savedPending = Top.savedPending /\ g.imp = Top.imp /\ g.file = Top.file
        /\ g.how = Top.how /\ g.savedName = Top.savedName
    BY <1>1 DEF Moved, Frame
  <2>. HIDE DEF g
  <2>2. here[Depth] = g
    BY <1>2 DEF g
  <2>. QED BY <2>1, <2>2
<1>4. e.file = pkg.file /\ e.prelude = pkg.prelude
  BY DEF Package
<1>5. frames' = Append(here, f) /\ imports' = Append(imports, e)
  BY DEF Analyse
<1>6. f.imp = Len(imports) + 1 /\ f.file = pkg.file /\ f.stage = stage /\ f.how = how /\ f.savedName = pkgName
  OBVIOUS
<1>. HIDE DEF here, e, f
<1>7. /\ Len(frames') = Depth + 1 /\ Depth' = Depth + 1 /\ frames'[Depth + 1] = f
      /\ \A k \in 1 .. Depth : frames'[k] = here[k]
  BY <1>1, <1>2, <1>5 DEF Depth
<1>8. Len(imports') = Len(imports) + 1 /\ imports'[Len(imports) + 1] = e /\ Len(imports) \in Nat
  BY <1>1, <1>5
<1>9. Top' = f
  BY <1>7 DEF Top
<1>10. \A k \in 1 .. Depth : k # Depth => frames'[k] = frames[k]
  BY <1>2, <1>7
<1>11. /\ frames'[Depth].stage = st /\ frames'[Depth].pc = n
       /\ \A k \in 1 .. Depth : /\ frames'[k].imp = frames[k].imp /\ frames'[k].file = frames[k].file
                                /\ frames'[k].how = frames[k].how /\ frames'[k].savedName = frames[k].savedName
                                /\ frames'[k].savedPending = frames[k].savedPending
  BY <1>1, <1>3, <1>7, <1>10 DEF Top
<1>12. \A k \in 1 .. Depth + 1 : k \in 1 .. Depth \/ k = Depth + 1
  BY <1>1
<1>. QED BY <1>1, <1>4, <1>6, <1>7, <1>8, <1>9, <1>10, <1>11, <1>12

\* A call keeps the calls' names and paths.
LEMMA AnalyseKeepsNames ==
  ASSUME IInv, NamesInv, PackagesStay, Registering(Top), NEW pkg \in Package,
         NEW st \in Stages, Registers(st), NEW n \in Nat \ {0},
         NEW how, NEW alias, NEW stage \in {"enter", "return"},
         Analyse(pkg, MoveTo(st, n, Top.savedPending), how, alias, stage),
         how = "prelude" => pkg.prelude # "none",
         st = "pass1" => Top.stage = "pass1",
         Len(importStack') = IF how = "prelude" THEN Len(importStack) ELSE Len(importStack) + 1,
         pending' = pending
  PROVE  NamesInv'
<1>1. n \in Nat
  OBVIOUS
<1>2. /\ Depth' = Depth + 1 /\ Depth \in Nat \ {0} /\ Depth \in 1 .. Depth
      /\ \A k \in 1 .. Depth : k # Depth => frames'[k] = frames[k]
      /\ \A k \in 1 .. Depth + 1 : k \in 1 .. Depth \/ k = Depth + 1
      /\ frames'[Depth].stage = st
      /\ \A k \in 1 .. Depth : /\ frames'[k].imp = frames[k].imp /\ frames'[k].file = frames[k].file
                               /\ frames'[k].how = frames[k].how /\ frames'[k].savedName = frames[k].savedName
                               /\ frames'[k].savedPending = frames[k].savedPending
      /\ Top' = frames'[Depth + 1]
      /\ Top'.imp = Len(imports) + 1 /\ Top'.stage = stage /\ Top'.how = how /\ Top'.savedName = pkgName
      /\ Len(imports') = Len(imports) + 1 /\ Len(imports) \in Nat
      /\ imports'[Len(imports) + 1].prelude = pkg.prelude
  BY <1>1, PushedFrames
<1>3. NamesFollow'
  <2>1. ASSUME NEW k \in 1 .. Depth, frames'[k].stage = "pass1"
        PROVE  frames'[k + 1].savedName = prog[frames'[k].file].clause
    <3>1. CASE k = Depth
      <4>1. Top.stage = "pass1"
        BY <1>2, <2>1, <3>1
      <4>2. pkgName = prog[Top.file].clause
        BY <4>1 DEF NamesInv, NamesFollow
      <4>. QED BY <1>2, <3>1, <4>2 DEF Top
    <3>2. CASE k # Depth
      <4>1. k \in 1 .. Depth - 1 /\ k + 1 \in 1 .. Depth
        BY <1>2, <3>2
      <4>. QED BY <1>2, <2>1, <3>2, <4>1 DEF NamesInv, NamesFollow
    <3>. QED BY <3>1, <3>2
  <2>2. \A k \in 1 .. Depth' - 1 : k \in 1 .. Depth
    BY <1>2
  <2>. QED BY <1>2, <2>1, <2>2 DEF NamesFollow, PackagesStay
<1>4. PathsCount'
  <2>1. PICK count \in [1 .. Depth -> Nat] :
          /\ count[1] = 0 /\ count[Depth] = Len(importStack)
          /\ \A k \in 2 .. Depth : count[k] = IF frames[k].how = "prelude" THEN count[k - 1] ELSE count[k - 1] + 1
    BY DEF NamesInv, PathsCount
  <2>. DEFINE next == [k \in 1 .. Depth + 1 |-> IF k = Depth + 1 THEN Len(importStack') ELSE count[k]]
  <2>2. Len(importStack) \in Nat /\ Len(importStack') \in Nat
    <3>1. Len(importStack) \in Nat
      BY SequenceTypes DEF IInv
    <3>. QED BY <3>1
  <2>3. next \in [1 .. Depth + 1 -> Nat]
    BY <1>2, <2>2
  <2>4. next[1] = 0 /\ next[Depth + 1] = Len(importStack')
    BY <1>2, <2>1
  <2>5. ASSUME NEW k \in 2 .. Depth + 1
        PROVE  next[k] = IF frames'[k].how = "prelude" THEN next[k - 1] ELSE next[k - 1] + 1
    <3>1. CASE k = Depth + 1
      <4>1. next[k - 1] = Len(importStack) /\ next[k] = Len(importStack')
        BY <1>2, <2>1, <3>1
      <4>2. frames'[k].how = how
        BY <1>2, <3>1
      <4>. QED BY <4>1, <4>2
    <3>2. CASE k # Depth + 1
      <4>1. k \in 2 .. Depth /\ k \in 1 .. Depth /\ k - 1 \in 1 .. Depth /\ k - 1 # Depth + 1
        BY <1>2, <3>2
      <4>2. next[k] = count[k] /\ next[k - 1] = count[k - 1] /\ frames'[k].how = frames[k].how
        BY <1>2, <3>2, <4>1
      <4>. QED BY <2>1, <4>1, <4>2
    <3>. QED BY <3>1, <3>2
  <2>. HIDE DEF next
  <2>. QED BY <1>2, <2>3, <2>4, <2>5 DEF PathsCount
<1>5. HowMatches'
  <2>1. ASSUME NEW k \in 2 .. Depth + 1, frames'[k].how = "prelude" PROVE imports'[frames'[k].imp].prelude # "none"
    <3>1. CASE k = Depth + 1
      BY <1>2, <2>1, <3>1
    <3>2. CASE k # Depth + 1
      <4>1. k \in 2 .. Depth /\ k \in 1 .. Depth
        BY <1>2, <3>2
      <4>2. frames[k].imp \in 1 .. Len(imports)
        BY <4>1 DEF IInv, ControlInv, CallsInv
      <4>3. imports[frames[k].imp].prelude # "none"
        BY <1>2, <2>1, <4>1 DEF NamesInv, HowMatches
      <4>. QED BY <1>2, <4>1, <4>2, <4>3 DEF PackagesStay
    <3>. QED BY <3>1, <3>2
  <2>. QED BY <1>2, <2>1 DEF HowMatches
<1>6. CallsAscend'
  <2>1. ASSUME NEW h \in 1 .. Depth + 1, NEW k \in 1 .. Depth + 1, h < k PROVE frames'[h].imp < frames'[k].imp
    <3>1. h \in 1 .. Depth
      BY <1>2, <2>1
    <3>2. frames[h].imp \in 0 .. Len(imports)
      BY <3>1, CallTypes
    <3>3. CASE k = Depth + 1
      BY <1>2, <3>1, <3>2, <3>3
    <3>4. CASE k \in 1 .. Depth
      BY <1>2, <2>1, <3>1, <3>4 DEF NamesInv, CallsAscend
    <3>. QED BY <1>2, <3>3, <3>4
  <2>. QED BY <1>2, <2>1 DEF CallsAscend
<1>7. PendingOwned'
  <2>1. \A k \in 1 .. Depth : Registering(frames[k]) => Registering(frames'[k])
    BY <1>2 DEF Registering, Registers
  <2>2. ~ Registering(frames'[Depth + 1])
    BY <1>2 DEF Registering
  <2>3. \A b, k : k \in 1 .. Depth /\ OwnBundle(b, frames[k]) => OwnBundle(b, frames'[k])
    BY <1>2 DEF OwnBundle
  <2>4. ASSUME NEW k \in 1 .. Len(pending), NEW b, b = pending[k]
        PROVE  \E h \in 1 .. Depth + 1 :
                 /\ Registering(frames'[h]) /\ frames'[h].savedPending < k /\ OwnBundle(b, frames'[h])
                 /\ \A j \in h + 1 .. Depth + 1 : Registering(frames'[j]) => k <= frames'[j].savedPending
    <3>1. PICK h \in 1 .. Depth :
                 /\ Registering(frames[h]) /\ frames[h].savedPending < k /\ OwnBundle(b, frames[h])
                 /\ \A j \in h + 1 .. Depth : Registering(frames[j]) => k <= frames[j].savedPending
      BY <2>4 DEF NamesInv, PendingOwned
    <3>2. ASSUME NEW j \in h + 1 .. Depth + 1, Registering(frames'[j]) PROVE k <= frames'[j].savedPending
      <4>1. j # Depth + 1
        BY <2>2, <3>2
      <4>2. j \in h + 1 .. Depth /\ j \in 1 .. Depth
        BY <1>2, <4>1
      <4>3. Registering(frames[j])
        BY <1>2, SnapshotFacts, <3>2, <4>2 DEF Top
      <4>. QED BY <1>2, <3>1, <4>2, <4>3
    <3>3. h \in 1 .. Depth + 1
      BY <1>2
    <3>. QED BY <1>2, <2>1, <2>3, <3>1, <3>2, <3>3
  <2>5. ASSUME NEW k \in 1 .. Len(pending')
        PROVE  \E h \in 1 .. Depth' :
                 /\ Registering(frames'[h]) /\ frames'[h].savedPending < k /\ OwnBundle(pending'[k], frames'[h])
                 /\ \A j \in h + 1 .. Depth' : Registering(frames'[j]) => k <= frames'[j].savedPending
    BY <1>2, <2>4
  <2>6. prog' = prog
    BY DEF PackagesStay
  <2>. QED BY <2>5, <2>6, OwnedAgain
<1>. QED BY <1>3, <1>4, <1>5, <1>6, <1>7 DEF NamesInv

\* What a return leaves of the frames.
LEMMA PoppedFrames ==
  ASSUME IInv, ReturnImport
  PROVE  /\ Depth' = Depth - 1 /\ Depth - 1 \in Nat \ {0} /\ Depth \in Nat \ {0}
         /\ \A k \in 1 .. Depth - 1 : k \in 1 .. Depth /\ frames'[k] = frames[k] /\ Registering(frames[k])
         /\ Top' = frames[Depth - 1] /\ ~ Registering(Top) /\ Depth - 1 \in 1 .. Depth - 1
         /\ Len(imports') = Len(imports)
<1>1. FramesOK /\ TypeOK /\ Depth \in Nat \ {0} /\ Depth > 1
  BY StayFacts DEF ReturnImport
<1>2. frames' = SubSeq(frames, 1, Depth - 1)
  BY DEF ReturnImport
<1>3. Len(frames') = Depth - 1 /\ Depth' = Depth - 1 /\ \A k \in 1 .. Depth - 1 : frames'[k] = frames[k]
  BY <1>1, <1>2 DEF FramesOK, Depth
<1>4. \A k \in 1 .. Depth - 1 : k \in 1 .. Depth /\ Registering(frames[k])
  BY <1>1 DEF IInv, ControlInv, ScopesMatchCalls
<1>5. ~ Registering(Top)
  BY DEF ReturnImport, Registering
<1>6. Depth - 1 \in Nat \ {0} /\ Depth - 1 \in 1 .. Depth - 1
  BY <1>1
<1>7. Top' = frames[Depth - 1]
  BY <1>3, <1>6 DEF Top
<1>8. Len(imports') = Len(imports)
  <2>1. Len([imports EXCEPT ![Top.imp].name = Top.alias]) = Len(imports)
    BY <1>1 DEF TypeOK
  <2>. QED BY <2>1 DEF ReturnImport
<1>. QED BY <1>1, <1>3, <1>4, <1>5, <1>6, <1>7, <1>8

\* A return keeps the calls' names and paths: the importer finds its own again.
LEMMA ReturnKeepsNames ==
  ASSUME IInv, NamesInv, PackagesStay, ReturnImport
  PROVE  NamesInv'
<1>1. /\ Depth' = Depth - 1 /\ Depth - 1 \in Nat \ {0} /\ Depth \in Nat \ {0}
      /\ \A k \in 1 .. Depth - 1 : k \in 1 .. Depth /\ frames'[k] = frames[k] /\ Registering(frames[k])
      /\ Top' = frames[Depth - 1] /\ ~ Registering(Top) /\ Depth - 1 \in 1 .. Depth - 1
      /\ Len(imports') = Len(imports)
  BY PoppedFrames
<1>2. /\ pkgName' = Top.savedName /\ pending' = pending
      /\ importStack' = IF Top.how = "prelude" THEN importStack ELSE SubSeq(importStack, 1, Len(importStack) - 1)
  BY DEF ReturnImport, RestoredName, PoppedPath
<1>3. NamesFollow'
  <2>1. Top'.stage \in {"pass1", "check", "pass2", "track"} => pkgName' = prog[Top'.file].clause
    <3>1. Top'.stage \in {"pass1", "check", "pass2", "track"} => Top'.stage = "pass1"
      BY <1>1 DEF Registering
    <3>2. frames[Depth - 1].stage = "pass1" => frames[(Depth - 1) + 1].savedName = prog[frames[Depth - 1].file].clause
      BY <1>1 DEF NamesInv, NamesFollow
    <3>3. (Depth - 1) + 1 = Depth
      BY <1>1
    <3>. QED BY <1>1, <1>2, <3>1, <3>2, <3>3 DEF Top
  <2>2. ASSUME NEW k \in 1 .. Depth' - 1, frames'[k].stage = "pass1"
        PROVE  frames'[k + 1].savedName = prog[frames'[k].file].clause
    <3>1. k \in 1 .. Depth - 1 /\ k + 1 \in 1 .. Depth - 1
      BY <1>1
    <3>. QED BY <1>1, <2>2, <3>1 DEF NamesInv, NamesFollow
  <2>. QED BY <2>1, <2>2 DEF NamesFollow, PackagesStay
<1>4. PathsCount'
  <2>1. PICK count \in [1 .. Depth -> Nat] :
          /\ count[1] = 0 /\ count[Depth] = Len(importStack)
          /\ \A k \in 2 .. Depth : count[k] = IF frames[k].how = "prelude" THEN count[k - 1] ELSE count[k - 1] + 1
    BY DEF NamesInv, PathsCount
  <2>. DEFINE next == [k \in 1 .. Depth - 1 |-> count[k]]
  <2>2. next \in [1 .. Depth - 1 -> Nat] /\ \A k \in 1 .. Depth - 1 : next[k] = count[k]
    BY <1>1
  <2>3. next[1] = 0
    BY <1>1, <2>1, <2>2
  <2>4. next[Depth - 1] = Len(importStack')
    <3>1. count[Depth] = IF Top.how = "prelude" THEN count[Depth - 1] ELSE count[Depth - 1] + 1
      <4>1. Depth \in 2 .. Depth
        BY <1>1
      <4>. QED BY <2>1, <4>1 DEF Top
    <3>2. count[Depth - 1] \in Nat
      BY <1>1
    <3>3. importStack \in Seq(Files)
      BY DEF IInv, TypeOK
    <3>4. Top.how # "prelude" => Len(SubSeq(importStack, 1, Len(importStack) - 1)) = Len(importStack) - 1
      BY <2>1, <3>1, <3>2, <3>3
    <3>5. Top.how # "prelude" => (count[Depth - 1] + 1) - 1 = count[Depth - 1]
      BY <3>2
    <3>6. Len(importStack') = count[Depth - 1]
      BY <1>2, <2>1, <3>1, <3>4, <3>5
    <3>. QED BY <1>1, <2>2, <3>6
  <2>5. ASSUME NEW k \in 2 .. Depth - 1
        PROVE  next[k] = IF frames'[k].how = "prelude" THEN next[k - 1] ELSE next[k - 1] + 1
    <3>1. k \in 1 .. Depth - 1 /\ k - 1 \in 1 .. Depth - 1 /\ k \in 2 .. Depth
      BY <1>1
    <3>. QED BY <1>1, <2>1, <2>2, <3>1
  <2>. HIDE DEF next
  <2>. QED BY <1>1, <2>2, <2>3, <2>4, <2>5 DEF PathsCount
<1>5. HowMatches'
  <2>1. ASSUME NEW k \in 2 .. Depth - 1, frames'[k].how = "prelude" PROVE imports'[frames'[k].imp].prelude # "none"
    <3>1. k \in 1 .. Depth - 1 /\ k \in 2 .. Depth
      BY <1>1
    <3>2. frames[k].imp \in 1 .. Len(imports)
      BY <3>1 DEF IInv, ControlInv, CallsInv
    <3>. QED BY <1>1, <2>1, <3>1, <3>2 DEF NamesInv, HowMatches, PackagesStay
  <2>. QED BY <1>1, <2>1 DEF HowMatches
<1>6. CallsAscend'
  BY <1>1 DEF NamesInv, CallsAscend
<1>7. PendingOwned'
  <2>1. ASSUME NEW k \in 1 .. Len(pending), NEW b, b = pending[k]
        PROVE  \E h \in 1 .. Depth - 1 :
                 /\ Registering(frames'[h]) /\ frames'[h].savedPending < k /\ OwnBundle(b, frames'[h])
                 /\ \A j \in h + 1 .. Depth - 1 : Registering(frames'[j]) => k <= frames'[j].savedPending
    <3>1. PICK h \in 1 .. Depth :
                 /\ Registering(frames[h]) /\ frames[h].savedPending < k /\ OwnBundle(b, frames[h])
                 /\ \A j \in h + 1 .. Depth : Registering(frames[j]) => k <= frames[j].savedPending
      BY <2>1 DEF NamesInv, PendingOwned
    <3>2. h \in 1 .. Depth - 1
      BY <1>1, <3>1 DEF Top
    <3>3. \A j \in h + 1 .. Depth - 1 : j \in h + 1 .. Depth /\ j \in 1 .. Depth - 1
      BY <1>1
    <3>. QED BY <1>1, <3>1, <3>2, <3>3
  <2>2. prog' = prog
    BY DEF PackagesStay
  <2>3. \A k \in 1 .. Len(pending') :
          \E h \in 1 .. Depth - 1 :
            /\ Registering(frames'[h]) /\ frames'[h].savedPending < k /\ OwnBundle(pending'[k], frames'[h])
            /\ \A j \in h + 1 .. Depth - 1 : Registering(frames'[j]) => k <= frames'[j].savedPending
    BY <1>2, <2>1
  <2>. QED BY <1>1, <2>2, <2>3, OwnedAgain
<1>. QED BY <1>3, <1>4, <1>5, <1>6, <1>7 DEF NamesInv

-----------------------------------------------------------------------------
(* ... and the actions.                                                    *)

\* The steps that move the executing frame on one side of pass 1.
LEMMA StayKeepsNames ==
  ASSUME IInv, NamesInv, PackagesStay, Len(imports') = Len(imports), importStack' = importStack,
         NEW st \in Stages, NEW n \in Nat, frames' = MoveTo(st, n, Top.savedPending),
         Registers(st) <=> Registers(Top.stage),
         \/ pkgName' = pkgName /\ (st \in {"pass1", "check", "pass2", "track"} =>
                                     Top.stage \in {"pass1", "check", "pass2", "track"})
         \/ pkgName' = prog[Top.file].clause,
         \/ pending' = pending
         \/ \E b \in Pending : pending' = Append(pending, b) /\ Registers(st) /\ OwnBundle(b, Top)
  PROVE  NamesInv'
<1>1. PendingOwned'
  BY StayKeepsPending DEF PackagesStay
<1>2. st \in {"pass1", "check", "pass2", "track"} => pkgName' = prog[Top.file].clause
  BY DEF NamesInv, NamesFollow
<1>3. Top.savedPending \in Nat
  BY SnapshotFacts
<1>. QED BY <1>1, <1>2, <1>3, MoveKeepsNames

\* The steps that go on to the next declaration.
LEMMA DeclKeepsNames ==
  ASSUME IInv, NamesInv, PackagesStay,
         \/ ImportFails \/ ImportCycle \/ RegisterDecl \/ RegisterVar \/ RegisterGroup
         \/ SkipImport \/ AnalyseDecl \/ AnalyseGroup \/ AnalyseVar \/ TrackUsage
  PROVE  NamesInv'
<1>1. frames' = NextDecl /\ importStack' = importStack /\ pkgName' = pkgName
  BY DEF ImportFails, ImportCycle, RegisterDecl, RegisterVar, RegisterGroup, SkipImport, AnalyseDecl, AnalyseGroup,
         AnalyseVar, TrackUsage
<1>2. Top.stage \in {"pass1", "pass2", "track"}
  BY DEF ImportFails, ImportCycle, AtImport, RegisterDecl, RegisterVar, RegisterGroup, SkipImport, AnalyseDecl,
         AnalyseGroup, AnalyseVar, TrackUsage
<1>3. Len(imports') = Len(imports)
  <2>1. CASE imports' = imports
    BY <2>1
  <2>2. CASE \E i : imports' = [imports EXCEPT ![i].used = TRUE]
    BY <2>2, MarkGrows DEF IInv
  <2>. QED BY <2>1, <2>2, Zenon DEF ImportFails, ImportCycle, RegisterDecl, RegisterVar, RegisterGroup, SkipImport,
           AnalyseDecl, AnalyseGroup, AnalyseVar, TrackUsage, EvalRef
<1>4. \/ pending' = pending
      \/ \E b \in Pending : pending' = Append(pending, b) /\ Registers(Top.stage) /\ OwnBundle(b, Top)
  <2>1. CASE RegisterGroup
    <3>. DEFINE b == [imp |-> Top.imp, file |-> Top.file, at |-> Top.pc]
    <3>1. Top \in Frame /\ AtDecl /\ Decl.op = "group" /\ Top.stage = "pass1" /\ Top.pc \in Nat \ {0} /\ Top.file \in Files
      BY <2>1, StayFacts, DeclFields DEF RegisterGroup
    <3>2. prog[Top.file].decls \in Seq(DeclType)
      BY <3>1 DEF IInv, TypeOK, SourceType
    <3>3. b \in Pending
      BY <3>1 DEF Pending, Frame
    <3>4. OwnBundle(b, Top)
      BY <3>1, <3>2 DEF OwnBundle, AtDecl, Decl, Decls
    <3>5. pending' = pending \/ pending' = Append(pending, b)
      BY <2>1 DEF RegisterGroup
    <3>6. Registers(Top.stage)
      BY <3>1 DEF Registers
    <3>. HIDE DEF b
    <3>. QED BY <3>3, <3>4, <3>5, <3>6
  <2>2. CASE ~ RegisterGroup
    BY <2>2 DEF ImportFails, ImportCycle, RegisterDecl, RegisterVar, SkipImport, AnalyseDecl, AnalyseGroup,
                AnalyseVar, TrackUsage
  <2>. QED BY <2>1, <2>2
<1>5. frames' = MoveTo(Top.stage, Top.pc + 1, Top.savedPending) /\ Top.stage \in Stages /\ Top.pc + 1 \in Nat
  BY <1>1, StepForms
<1>. QED BY <1>1, <1>2, <1>3, <1>4, <1>5, StayKeepsNames

\* The steps that go on to another stage.
LEMMA StageKeepsNames ==
  ASSUME IInv, NamesInv, PackagesStay,
         SkipPrelude \/ CopyRuntimeSymbols \/ PackageClause \/ CheckPass1 \/ CheckPass2 \/ FinishTrack
  PROVE  NamesInv'
<1>1. importStack' = importStack /\ pending' = pending
  BY DEF SkipPrelude, CopyRuntimeSymbols, PackageClause, CheckPass1, CheckPass2, FinishTrack
<1>2. Len(imports') = Len(imports)
  <2>1. CASE imports' = imports
    BY <2>1
  <2>2. CASE FinishTrack
    <3>1. DOMAIN imports = 1 .. Len(imports) /\ Len(imports) \in Nat
      BY DEF IInv, TypeOK
    <3>. QED BY <2>2, <3>1 DEF FinishTrack
  <2>. QED BY <2>1, <2>2 DEF SkipPrelude, CopyRuntimeSymbols, PackageClause, CheckPass1, CheckPass2
<1>3. ASSUME NEW st \in {"intrinsics", "copy", "clause", "pass1", "pass2", "track", "return"},
             frames' = Goto(st) \/ frames' = GotoAt(st, 1),
             Registers(st) <=> Registers(Top.stage),
             \/ pkgName' = pkgName /\ (st \in {"pass1", "check", "pass2", "track"} =>
                                         Top.stage \in {"pass1", "check", "pass2", "track"})
             \/ pkgName' = prog[Top.file].clause
      PROVE  NamesInv'
  <2>1. st \in Stages /\ \E n \in Nat : frames' = MoveTo(st, n, Top.savedPending)
    BY <1>3, StepForms
  <2>. QED BY <1>1, <1>2, <1>3, <2>1, StayKeepsNames
<1>. USE DEF Registers
<1>4. CASE SkipPrelude
  BY <1>3, <1>4 DEF SkipPrelude
<1>5. CASE CopyRuntimeSymbols
  BY <1>3, <1>5 DEF CopyRuntimeSymbols
<1>6. CASE PackageClause
  BY <1>3, <1>6 DEF PackageClause
<1>7. CASE CheckPass1
  BY <1>3, <1>7 DEF CheckPass1
<1>8. CASE CheckPass2
  BY <1>3, <1>8 DEF CheckPass2
<1>9. CASE FinishTrack
  BY <1>3, <1>9 DEF FinishTrack
<1>. QED BY <1>4, <1>5, <1>6, <1>7, <1>8, <1>9

\* The two ends of pass 1.
LEMMA EndsKeepNames ==
  ASSUME IInv, NamesInv, PackagesStay, EnterPass1 \/ EndPass1
  PROVE  NamesInv'
<1>1. importStack' = importStack /\ pkgName' = pkgName /\ imports' = imports /\ prog' = prog
  BY DEF EnterPass1, EndPass1
<1>2. CASE EnterPass1
  <2>1. pending' = pending /\ ~ Registering(Top) /\ Len(pending) \in Nat
    BY <1>2, SnapshotFacts DEF EnterPass1, Registering
  <2>2. CASE buildIgnored'
    <3>1. frames' = MoveTo("return", Top.pc, Top.savedPending) /\ "return" \in Stages /\ ~ Registers("return")
      BY <1>2, <2>2, StepForms DEF EnterPass1, Registers
    <3>2. PendingOwned'
      BY <1>1, <2>1, <3>1, StepForms, EnterKeepsPending
    <3>. QED BY <1>1, <3>1, <3>2, StepForms, MoveKeepsNames
  <2>3. CASE ~ buildIgnored'
    <3>1. frames' = MoveTo("runtime", Top.pc, Len(pending)) /\ "runtime" \in Stages
      BY <1>2, <2>3, StayFacts, MoveForms, StepForms DEF EnterPass1
    <3>2. PendingOwned'
      BY <1>1, <2>1, <3>1, StepForms, EnterKeepsPending
    <3>. QED BY <1>1, <2>1, <3>1, <3>2, StepForms, MoveKeepsNames
  <2>. QED BY <2>2, <2>3
<1>3. CASE EndPass1
  <2>1. Top.stage = "pass1" /\ Registering(Top) /\ pending' = SubSeq(pending, 1, Top.savedPending)
    BY <1>3 DEF EndPass1, Registering
  <2>2. PICK st \in {"check", "pass2"}, n \in Nat : frames' = MoveTo(st, n, Top.savedPending)
    <3>1. frames' = Goto("check") \/ frames' = GotoAt("pass2", 1)
      BY <1>3 DEF EndPass1
    <3>. QED BY <3>1, StepForms
  <2>3. st \in Stages /\ ~ Registers(st)
    BY DEF Stages, Registers
  <2>4. PendingOwned'
    BY <1>1, <2>1, <2>2, <2>3, ClosePending
  <2>5. pkgName' = prog[Top.file].clause
    BY <1>1, <2>1 DEF NamesInv, NamesFollow
  <2>. QED BY <1>1, <2>2, <2>3, <2>4, <2>5, SnapshotFacts, MoveKeepsNames
<1>. QED BY <1>2, <1>3

\* A step that changes none of this.
LEMMA StutterKeepsNames ==
  ASSUME NamesInv, UNCHANGED <<prog, imports, frames, pending, importStack, pkgName>>
  PROVE  NamesInv'
<1>1. Depth' = Depth /\ Top' = Top
  BY DEF Depth, Top
<1>2. NamesFollow'
  BY <1>1 DEF NamesInv, NamesFollow
<1>3. PathsCount'
  BY <1>1 DEF NamesInv, PathsCount
<1>4. HowMatches'
  BY <1>1 DEF NamesInv, HowMatches
<1>5. CallsAscend'
  BY <1>1 DEF NamesInv, CallsAscend
<1>6. PendingOwned'
  BY <1>1, OwnedAgain DEF NamesInv, PendingOwned
<1>. QED BY <1>2, <1>3, <1>4, <1>5, <1>6 DEF NamesInv

\* Every step keeps the names and the paths.
LEMMA NextKeepsNames ==
  ASSUME IInv, NamesInv, [Next]_vars
  PROVE  NamesInv'
<1>1. CASE Next
  <2>1. PackagesStay
    BY <1>1, NextKeepsPackages
  <2>2. CASE \/ AutoImportRuntime \/ AutoImportIntrinsics
             \/ HandleImport \/ HandleImportNamed \/ HandleImportUsing
    BY <2>1, <2>2, CallForms, AnalyseKeepsNames
  <2>3. CASE IgnoredMain
    BY <2>3, StutterKeepsNames DEF IgnoredMain
  <2>. QED BY <1>1, <2>1, <2>2, <2>3, DeclKeepsNames, StageKeepsNames, EndsKeepNames, ReturnKeepsNames, Zenon DEF Next
<1>2. CASE UNCHANGED vars
  BY <1>2, StutterKeepsNames DEF vars
<1>. QED BY <1>1, <1>2

\* ... and they hold when sem_analyse starts.
LEMMA InitNames == Init => NamesInv
<1>. SUFFICES ASSUME Init PROVE NamesInv
  OBVIOUS
<1>. DEFINE f == [imp |-> 0, file |-> Main, stage |-> "enter", pc |-> 1, savedName |-> NoName,
                  savedPending |-> 0, savedCount |-> 0, how |-> "main", alias |-> RuntimeName]
<1>1. frames = <<f>> /\ f.stage = "enter"
  BY DEF Init
<1>. HIDE DEF f
<1>2. Depth = 1 /\ Top = f /\ frames[1] = f
  BY <1>1 DEF Depth, Top
<1>3. importStack = <<>> /\ pending = <<>>
  BY DEF Init
<1>4. PathsCount
  <2>. DEFINE none == [k \in 1 .. 1 |-> 0]
  <2>1. none \in [1 .. 1 -> Nat] /\ none[1] = 0
    OBVIOUS
  <2>. HIDE DEF none
  <2>2. Len(importStack) = 0 /\ \A k \in 2 .. 1 : FALSE
    BY <1>3
  <2>. QED BY <1>2, <2>1, <2>2 DEF PathsCount
<1>. QED BY <1>1, <1>2, <1>3, <1>4 DEF NamesInv, NamesFollow, HowMatches, CallsAscend, PendingOwned

-----------------------------------------------------------------------------
(* The second half is about the scopes.                                    *)

\* The file declares a procedure, a constant or a bundle of that name.
DeclaredBy(file, id) ==
  \E k \in DOMAIN prog[file].decls : prog[file].decls[k].op \in Declares /\ prog[file].decls[k].id = id
\* What a scope says of a name comes from a file that declares it so.
FromFile(scope, id) ==
  scope[id] # NoSym /\ scope[id].val.kind \in Declares => DeclaredBy(scope[id].val.file, id)
\* The call has yet to analyse a bundle of that name.
BundleAhead(c, id) ==
  c.stage = "pass2" /\ \E k \in DOMAIN prog[c.file].decls :
                         k >= c.pc /\ prog[c.file].decls[k].op = "group" /\ prog[c.file].decls[k].id = id
\* The call registered the declarations it passed.
DefinedSoFar(c, scope) ==
  \A k \in DOMAIN prog[c.file].decls :
    /\ (c.stage = "pass1" /\ k < c.pc) \/ c.stage \in {"check", "pass2"}
    /\ prog[c.file].decls[k].op \in Declares
    => scope[prog[c.file].decls[k].id] # NoSym
\* ... and its pass 2 mangled those it passed.
MangledSoFar(c, scope) ==
  c.stage = "pass2" =>
    \A k \in DOMAIN prog[c.file].decls :
      k < c.pc /\ prog[c.file].decls[k].op \in Declares =>
        scope[prog[c.file].decls[k].id].llvm = <<prog[c.file].clause, prog[c.file].decls[k].id>>

ScopesDefined == \A n \in 1 .. Depth : DefinedSoFar(frames[n], syms[frames[n].imp])
UnenteredEmpty ==
  \A n \in 2 .. Depth : frames[n].stage \in {"enter", "return"} => \A id \in Ids : syms[frames[n].imp][id] = NoSym
ValuesDeclared ==
  \A s \in 1 .. Len(imports), id \in Ids : FromFile(syms[s], id) \/ (s = Top.imp /\ BundleAhead(Top, id))
TopMangled == Depth > 1 /\ imports[Top.imp].prelude = "none" => MangledSoFar(Top, syms[Top.imp])
FinishedMangled ==
  \A s \in 1 .. Len(imports), id \in Ids :
    Finished(s) /\ imports[s].prelude = "none" /\ syms[s][id] # NoSym /\ DeclaredBy(imports[s].file, id) =>
      syms[s][id].llvm = <<prog[imports[s].file].clause, id>>
MangledInv == ScopesDefined /\ UnenteredEmpty /\ ValuesDeclared /\ TopMangled /\ FinishedMangled

\* A symbol is not the absence of one.
LEMMA SymbolIsSome == NoSym \notin Symbols
BY ConstantsAssumption DEF Symbols, Values

\* What the helpers make of a scope.
LEMMA AddEntryFacts ==
  ASSUME NEW scope \in Scope, NEW id \in Ids, NEW v \in Values
  PROVE  /\ AddEntry(scope, id, v) \in Scope
         /\ \A j \in Ids : j # id => AddEntry(scope, id, v)[j] = scope[j]
         /\ AddEntry(scope, id, v)[id] # NoSym /\ AddEntry(scope, id, v)[id].val = v
         /\ scope[id] # NoSym => AddEntry(scope, id, v)[id].llvm = scope[id].llvm
<1>. DEFINE e == IF scope[id] = NoSym THEN [val |-> v, priv |-> FALSE, llvm |-> NoLlvm]
                                      ELSE [scope[id] EXCEPT !.val = v]
<1>1. e \in Symbols /\ e.val = v /\ (scope[id] # NoSym => e.llvm = scope[id].llvm)
  <2>1. scope[id] \in Symbols \cup {NoSym}
    BY DEF Scope
  <2>. QED BY <2>1 DEF Symbols
<1>2. AddEntry(scope, id, v) = [scope EXCEPT ![id] = e]
  BY DEF AddEntry
<1>3. e # NoSym
  BY <1>1, SymbolIsSome
<1>. HIDE DEF e
<1>. QED BY <1>1, <1>2, <1>3 DEF Scope

\* ... making an entry private changes neither its value nor its name ...
LEMMA SetPrivateFacts ==
  ASSUME NEW scope \in Scope, NEW id \in Ids, NEW p
  PROVE  /\ SetPrivate(scope, id, p) \in Scope
         /\ \A j \in Ids : /\ (SetPrivate(scope, id, p)[j] = NoSym) <=> (scope[j] = NoSym)
                           /\ scope[j] # NoSym => /\ SetPrivate(scope, id, p)[j].val = scope[j].val
                                                  /\ SetPrivate(scope, id, p)[j].llvm = scope[j].llvm
<1>1. CASE p /\ scope[id] # NoSym
  <2>. DEFINE e == [scope[id] EXCEPT !.priv = TRUE]
  <2>1. e \in Symbols /\ e.val = scope[id].val /\ e.llvm = scope[id].llvm
    <3>1. scope[id] \in Symbols
      BY <1>1 DEF Scope
    <3>. QED BY <3>1 DEF Symbols
  <2>2. e # NoSym
    BY <2>1, SymbolIsSome
  <2>3. SetPrivate(scope, id, p) = [scope EXCEPT ![id] = e]
    BY <1>1 DEF SetPrivate
  <2>. HIDE DEF e
  <2>. QED BY <1>1, <2>1, <2>2, <2>3 DEF Scope
<1>2. CASE ~ (p /\ scope[id] # NoSym)
  <2>1. SetPrivate(scope, id, p) = scope
    BY <1>2 DEF SetPrivate
  <2>. QED BY <2>1
<1>. QED BY <1>1, <1>2

\* ... mangling gives an entry the name of the package and nothing else ...
LEMMA MangleFacts ==
  ASSUME TypeOK, NEW scope \in Scope, NEW id \in Ids
  PROVE  /\ Mangle(scope, id) \in Scope
         /\ \A j \in Ids : j # id => Mangle(scope, id)[j] = scope[j]
         /\ (Mangle(scope, id)[id] = NoSym) <=> (scope[id] = NoSym)
         /\ scope[id] # NoSym => Mangle(scope, id)[id].val = scope[id].val
         /\ scope[id] # NoSym /\ importStack # <<>> /\ pkgName # NoName => Mangle(scope, id)[id].llvm = <<pkgName, id>>
<1>1. CASE importStack # <<>> /\ pkgName # NoName /\ scope[id] # NoSym
  <2>. DEFINE e == [scope[id] EXCEPT !.llvm = <<pkgName, id>>]
  <2>1. e \in Symbols /\ e.val = scope[id].val /\ e.llvm = <<pkgName, id>>
    <3>1. scope[id] \in Symbols
      BY <1>1 DEF Scope
    <3>2. <<pkgName, id>> \in (Names \X Ids) \cup {NoLlvm}
      BY <1>1 DEF TypeOK
    <3>. QED BY <3>1, <3>2 DEF Symbols
  <2>2. e # NoSym
    BY <2>1, SymbolIsSome
  <2>3. Mangle(scope, id) = [scope EXCEPT ![id] = e]
    BY <1>1 DEF Mangle
  <2>. HIDE DEF e
  <2>. QED BY <1>1, <2>1, <2>2, <2>3 DEF Scope
<1>2. CASE ~ (importStack # <<>> /\ pkgName # NoName /\ scope[id] # NoSym)
  <2>1. Mangle(scope, id) = scope
    BY <1>2 DEF Mangle
  <2>. QED BY <1>2, <2>1
<1>. QED BY <1>1, <1>2

\* ... and copying takes no entry away, and takes the values it brings from the package.
LEMMA CopyUsingFacts ==
  ASSUME NEW from \in Scope, NEW to \in Scope, NEW id \in Ids
  PROVE  /\ to[id] # NoSym => CopyUsing(from, to)[id] # NoSym
         /\ \/ CopyUsing(from, to)[id] = to[id]
            \/ from[id] # NoSym /\ CopyUsing(from, to)[id].val = from[id].val
<1>1. CASE ~ Exported(from[id])
  BY <1>1 DEF CopyUsing
<1>2. CASE Exported(from[id])
  <2>1. from[id] \in Symbols
    BY <1>2 DEF Exported, Scope
  <2>2. from[id].val \in Values /\ from[id].llvm \in (Names \X Ids) \cup {NoLlvm} /\ from[id] # NoSym
    BY <1>2, <2>1 DEF Symbols, Exported
  <2>3. PICK old \in Symbols : old = AddEntry(to, id, from[id].val)[id] /\ old.val = from[id].val
    BY <2>2, AddEntryFacts DEF Scope
  <2>4. CopyUsing(from, to)[id] = IF from[id].llvm = NoLlvm THEN old ELSE [old EXCEPT !.llvm = from[id].llvm]
    BY <1>2, <2>3 DEF CopyUsing
  <2>5. CopyUsing(from, to)[id] \in Symbols /\ CopyUsing(from, to)[id].val = from[id].val
    BY <2>2, <2>3, <2>4 DEF Symbols
  <2>. QED BY <2>2, <2>5, SymbolIsSome
<1>. QED BY <1>1, <1>2

\* The scope of the executing call, and what the invariant says of it.
LEMMA TopScope ==
  ASSUME IInv, MangledInv
  PROVE  /\ CurrentScope = Top.imp /\ Top.imp \in 0 .. Len(imports) /\ syms[Top.imp] \in Scope
         /\ DefinedSoFar(Top, syms[Top.imp])
         /\ Top.imp # 0 => \A id \in Ids : FromFile(syms[Top.imp], id) \/ BundleAhead(Top, id)
         /\ Depth > 1 /\ imports[Top.imp].prelude = "none" => MangledSoFar(Top, syms[Top.imp])
         /\ [syms EXCEPT ![Top.imp] = syms[Top.imp]] = syms
<1>1. /\ Depth \in Nat \ {0} /\ Depth \in 1 .. Depth /\ Top.imp \in 0 .. Len(imports) /\ Len(imports) \in Nat
      /\ syms \in [0 .. Len(imports) -> Scope]
      /\ (Depth = 1 => Top.imp = 0) /\ (Depth # 1 => Top.imp \in 1 .. Len(imports) /\ Depth > 1)
  BY CallTypes, StayFacts
<1>2. CurrentScope = Top.imp
  <2>1. Len(scopes) = Depth - 1 /\ scopes \in Seq(1 .. Len(imports))
    BY DEF IInv, ControlInv, ScopesMatchCalls, TypeOK
  <2>2. CASE Depth = 1
    BY <1>1, <2>1, <2>2 DEF CurrentScope
  <2>3. CASE Depth # 1
    <3>1. Depth - 1 \in DOMAIN scopes /\ (Depth - 1) + 1 = Depth /\ Depth - 1 > 0
      BY <1>1, <2>1, <2>3
    <3>2. scopes[Depth - 1] = frames[(Depth - 1) + 1].imp
      BY <3>1 DEF IInv, ControlInv, ScopesMatchCalls
    <3>. QED BY <2>1, <3>1, <3>2 DEF CurrentScope, Top
  <2>. QED BY <2>2, <2>3
<1>3. DefinedSoFar(Top, syms[Top.imp])
  BY <1>1 DEF MangledInv, ScopesDefined, Top
<1>4. Top.imp # 0 => \A id \in Ids : FromFile(syms[Top.imp], id) \/ BundleAhead(Top, id)
  <2>1. Top.imp # 0 => Top.imp \in 1 .. Len(imports)
    BY <1>1
  <2>. QED BY <2>1 DEF MangledInv, ValuesDeclared
<1>5. [syms EXCEPT ![Top.imp] = syms[Top.imp]] = syms
  BY <1>1
<1>. QED BY <1>1, <1>2, <1>3, <1>4, <1>5 DEF MangledInv, TopMangled

\* A move that writes at most the scope of the executing call: the scopes of
\* the calls that wait and of the packages that are finished stay as they are.
LEMMA WriteKeepsMangled ==
  ASSUME IInv, NamesInv, MangledInv, PackagesStay, Len(imports') = Len(imports),
         NEW st \in Stages, NEW n \in Nat, NEW from \in Nat, frames' = MoveTo(st, n, from),
         NEW s \in Scope, syms' = [syms EXCEPT ![Top.imp] = s],
         st \in {"enter", "return"} => Depth = 1,
         NEW c, c.stage = st, c.pc = n, c.file = Top.file,
         DefinedSoFar(c, s),
         Top.imp # 0 => \A id \in Ids : FromFile(s, id) \/ BundleAhead(c, id),
         Depth > 1 /\ imports[Top.imp].prelude = "none" => MangledSoFar(c, s)
  PROVE  MangledInv'
<1>1. /\ Depth' = Depth /\ Depth \in Nat \ {0} /\ Depth \in 1 .. Depth
      /\ \A k \in 1 .. Depth : k # Depth => frames'[k] = frames[k]
      /\ Top' = frames'[Depth] /\ frames'[Depth].stage = st /\ frames'[Depth].pc = n
      /\ \A k \in 1 .. Depth : /\ frames'[k].imp = frames[k].imp /\ frames'[k].file = frames[k].file
  BY StayFacts, MovedFrames
<1>2. /\ \A k \in 1 .. Depth : frames[k].imp \in 0 .. Len(imports)
      /\ Top.imp \in 0 .. Len(imports) /\ Len(imports) \in Nat /\ frames[Depth].imp = Top.imp
      /\ syms \in [0 .. Len(imports) -> Scope] /\ frames'[Depth].imp = Top.imp /\ frames'[Depth].file = Top.file
  BY <1>1, CallTypes, StayFacts DEF Top
<1>3. prog' = prog /\ \A k \in 1 .. Len(imports) : imports'[k].file = imports[k].file /\ imports'[k].prelude = imports[k].prelude
  BY DEF PackagesStay
<1>4. syms'[Top.imp] = s /\ \A i \in 0 .. Len(imports) : i # Top.imp => syms'[i] = syms[i]
  BY <1>2
<1>5. \A k \in 1 .. Depth : k # Depth => frames[k].imp # Top.imp
  BY <1>1, <1>2 DEF NamesInv, CallsAscend
<1>6. ScopesDefined'
  <2>1. ASSUME NEW k \in 1 .. Depth, NEW f, f = frames'[k], NEW e, e = syms'[frames'[k].imp]
        PROVE  DefinedSoFar(f, e)
    <3>1. CASE k = Depth
      <4>1. e = s /\ f.stage = c.stage /\ f.pc = c.pc /\ f.file = c.file
        BY <1>1, <1>2, <1>4, <2>1, <3>1
      <4>. QED BY <4>1 DEF DefinedSoFar
    <3>2. CASE k # Depth
      <4>1. f = frames[k] /\ e = syms[frames[k].imp]
        BY <1>1, <1>2, <1>4, <1>5, <2>1, <3>2
      <4>. QED BY <4>1 DEF MangledInv, ScopesDefined
    <3>. QED BY <3>1, <3>2
  <2>2. \A k \in 1 .. Depth : DefinedSoFar(frames[k], syms[frames[k].imp])'
    <3>. TAKE k \in 1 .. Depth
    <3>1. PICK f, e : f = frames'[k] /\ e = syms'[frames'[k].imp]
      OBVIOUS
    <3>2. DefinedSoFar(f, e)
      BY <2>1, <3>1
    <3>. QED BY <1>3, <3>1, <3>2 DEF DefinedSoFar
  <2>. QED BY <1>1, <2>2 DEF ScopesDefined
<1>7. UnenteredEmpty'
  <2>1. ASSUME NEW k \in 2 .. Depth, frames'[k].stage \in {"enter", "return"}, NEW id \in Ids
        PROVE  syms'[frames'[k].imp][id] = NoSym
    <3>1. k \in 1 .. Depth /\ k # Depth
      BY <1>1, <2>1
    <3>2. frames'[k] = frames[k] /\ syms'[frames'[k].imp] = syms[frames[k].imp]
      BY <1>1, <1>2, <1>4, <1>5, <3>1
    <3>. QED BY <2>1, <3>2 DEF MangledInv, UnenteredEmpty
  <2>. QED BY <1>1, <2>1 DEF UnenteredEmpty
<1>8. ValuesDeclared'
  <2>1. ASSUME NEW i \in 1 .. Len(imports), NEW id \in Ids, NEW e, e = syms'[i]
        PROVE  FromFile(e, id) \/ (i = Top.imp /\ BundleAhead(c, id))
    <3>1. CASE i = Top.imp
      BY <1>4, <2>1, <3>1
    <3>2. CASE i # Top.imp
      <4>1. e = syms[i]
        BY <1>2, <1>4, <2>1, <3>2
      <4>. QED BY <3>2, <4>1 DEF MangledInv, ValuesDeclared
    <3>. QED BY <3>1, <3>2
  <2>2. \A i \in 1 .. Len(imports), id \in Ids : FromFile(syms[i], id)' \/ (i = Top'.imp /\ BundleAhead(Top, id)')
    <3>. TAKE i \in 1 .. Len(imports), id \in Ids
    <3>1. PICK e, f : e = syms'[i] /\ f = Top'
      OBVIOUS
    <3>2. f.stage = c.stage /\ f.pc = c.pc /\ f.file = c.file /\ f.imp = Top.imp
      BY <1>1, <1>2, <3>1
    <3>3. FromFile(e, id) => FromFile(syms[i], id)'
      BY <1>3, <3>1 DEF FromFile, DeclaredBy
    <3>4. BundleAhead(c, id) => BundleAhead(Top, id)'
      BY <1>3, <3>1, <3>2 DEF BundleAhead
    <3>. QED BY <2>1, <3>1, <3>2, <3>3, <3>4
  <2>. QED BY <2>2 DEF ValuesDeclared
<1>9. TopMangled'
  <2>1. ASSUME Depth > 1, imports'[Top'.imp].prelude = "none" PROVE MangledSoFar(Top, syms[Top.imp])'
    <3>1. PICK e, f : e = syms'[Top'.imp] /\ f = Top'
      OBVIOUS
    <3>2. f.stage = c.stage /\ f.pc = c.pc /\ f.file = c.file /\ f.imp = Top.imp /\ e = s
      BY <1>1, <1>2, <1>4, <3>1
    <3>3. Top.imp \in 1 .. Len(imports)
      BY <2>1, CallTypes
    <3>4. MangledSoFar(c, s)
      BY <1>3, <2>1, <3>1, <3>2, <3>3
    <3>. QED BY <1>3, <3>1, <3>2, <3>4 DEF MangledSoFar
  <2>. QED BY <1>1, <2>1 DEF TopMangled
<1>10. FinishedMangled'
  <2>1. ASSUME NEW i \in 1 .. Len(imports), NEW id \in Ids, Finished(i)', imports'[i].prelude = "none",
               syms'[i][id] # NoSym, DeclaredBy(imports[i].file, id)'
        PROVE  syms'[i][id].llvm = <<prog'[imports'[i].file].clause, id>>
    <3>1. DOMAIN frames' = 1 .. Depth /\ DOMAIN frames = 1 .. Depth
      BY <1>1, StayFacts, MoveType DEF Depth, FramesOK
    <3>2. \A k \in 1 .. Depth : frames[k].imp # i
      BY <1>1, <2>1, <3>1 DEF Finished
    <3>3. Finished(i) /\ i # Top.imp /\ i \in 0 .. Len(imports)
      BY <1>1, <1>2, <3>1, <3>2 DEF Finished
    <3>4. DeclaredBy(imports[i].file, id)
      BY <1>3, <2>1 DEF DeclaredBy
    <3>. QED BY <1>3, <1>4, <2>1, <3>3, <3>4 DEF MangledInv, FinishedMangled
  <2>. QED BY <2>1 DEF FinishedMangled
<1>. QED BY <1>6, <1>7, <1>8, <1>9, <1>10 DEF MangledInv

\* A move that writes no scope.
LEMMA MoveKeepsMangled ==
  ASSUME IInv, NamesInv, MangledInv, PackagesStay, Len(imports') = Len(imports),
         NEW st \in Stages, NEW n \in Nat, NEW from \in Nat, frames' = MoveTo(st, n, from), syms' = syms,
         st \in {"enter", "return"} => Depth = 1,
         NEW c, c.stage = st, c.pc = n, c.file = Top.file,
         DefinedSoFar(c, syms[Top.imp]),
         Top.imp # 0 => \A id \in Ids : FromFile(syms[Top.imp], id) \/ BundleAhead(c, id),
         Depth > 1 /\ imports[Top.imp].prelude = "none" => MangledSoFar(c, syms[Top.imp])
  PROVE  MangledInv'
<1>1. PICK s \in Scope : s = syms[Top.imp]
  BY TopScope
<1>2. syms' = [syms EXCEPT ![Top.imp] = s]
  BY <1>1, TopScope
<1>. QED BY <1>1, <1>2, WriteKeepsMangled

\* A step of pass 1, or on the way to it, that writes no scope.
LEMMA Pass1MoveKeepsMangled ==
  ASSUME IInv, NamesInv, MangledInv, PackagesStay, Len(imports') = Len(imports),
         NEW st \in Stages \ {"pass2"}, NEW n \in Nat, NEW from \in Nat, frames' = MoveTo(st, n, from), syms' = syms,
         Top.stage # "pass2",
         st \in {"enter", "return"} => Depth = 1,
         st = "pass1" => \/ n = 1
                         \/ n = Top.pc + 1 /\ Top.stage = "pass1" /\ AtDecl /\ Decl.op \notin Declares,
         st # "check"
  PROVE  MangledInv'
<1>. DEFINE c == [stage |-> st, pc |-> n, file |-> Top.file]
<1>1. c.stage = st /\ c.pc = n /\ c.file = Top.file
  OBVIOUS
<1>. HIDE DEF c
<1>2. Top.pc \in Nat /\ prog[Top.file].decls \in Seq(DeclType)
  <2>1. Top.pc \in Nat /\ Top.file \in Files
    BY StayFacts DEF Frame
  <2>. QED BY <2>1 DEF IInv, TypeOK, SourceType
<1>3. DefinedSoFar(c, syms[Top.imp])
  <2>1. SUFFICES ASSUME NEW k \in DOMAIN prog[Top.file].decls, st = "pass1", k < n, prog[Top.file].decls[k].op \in Declares
                 PROVE  syms[Top.imp][prog[Top.file].decls[k].id] # NoSym
    BY <1>1 DEF DefinedSoFar
  <2>2. k \in Nat \ {0}
    BY <1>2, <2>1
  <2>3. n # 1
    BY <2>1, <2>2
  <2>4. n = Top.pc + 1 /\ Top.stage = "pass1" /\ Decl.op \notin Declares
    BY <2>1, <2>3
  <2>5. k # Top.pc
    BY <2>1, <2>4 DEF Decl, Decls
  <2>6. k < Top.pc
    BY <1>2, <2>1, <2>2, <2>4, <2>5
  <2>. QED BY <2>1, <2>4, <2>6, TopScope DEF DefinedSoFar
<1>4. Top.imp # 0 => \A id \in Ids : FromFile(syms[Top.imp], id) \/ BundleAhead(c, id)
  BY TopScope DEF BundleAhead
<1>5. MangledSoFar(c, syms[Top.imp])
  BY <1>1 DEF MangledSoFar
<1>. QED BY <1>1, <1>3, <1>4, <1>5, MoveKeepsMangled

\* The steps up to pass 1, and the imports in it that register nothing.
LEMMA StagesKeepMangled ==
  ASSUME IInv, NamesInv, SettledInv, MangledInv, PackagesStay,
         SkipPrelude \/ PackageClause \/ ImportFails \/ ImportCycle \/ EnterPass1
  PROVE  MangledInv'
<1>1. syms' = syms /\ Len(imports') = Len(imports) /\ Top.stage # "pass2"
  BY DEF SkipPrelude, PackageClause, ImportFails, ImportCycle, EnterPass1, AtImport
<1>2. ASSUME NEW st \in {"intrinsics", "copy"}, frames' = Goto(st)
      PROVE  MangledInv'
  <2>1. frames' = MoveTo(st, Top.pc, Top.savedPending) /\ st \in Stages
    BY <1>2, StepForms
  <2>. QED BY <1>1, <2>1, StepForms, Pass1MoveKeepsMangled
<1>3. CASE SkipPrelude
  BY <1>2, <1>3 DEF SkipPrelude
<1>4. CASE PackageClause
  <2>1. frames' = MoveTo("pass1", 1, Top.savedPending) /\ "pass1" \in Stages
    BY <1>4, StepForms DEF PackageClause
  <2>. QED BY <1>1, <2>1, StepForms, Pass1MoveKeepsMangled
<1>5. CASE ImportFails \/ ImportCycle
  <2>1. frames' = NextDecl /\ AtDecl /\ Top.stage = "pass1" /\ Decl.op \in ImportOps
    BY <1>5 DEF ImportFails, ImportCycle, AtImport
  <2>2. Decl.op \notin Declares
    BY <2>1 DEF ImportOps, Declares
  <2>3. frames' = MoveTo("pass1", Top.pc + 1, Top.savedPending) /\ "pass1" \in Stages
    BY <2>1, StepForms
  <2>. QED BY <1>1, <2>1, <2>2, <2>3, StepForms, Pass1MoveKeepsMangled
<1>6. CASE EnterPass1
  <2>1. CASE buildIgnored'
    <3>1. frames' = MoveTo("return", Top.pc, Top.savedPending) /\ "return" \in Stages
      BY <1>6, <2>1, StepForms DEF EnterPass1
    <3>2. Depth = 1
      <4>1. ~ buildIgnored
        BY <1>6, Going DEF EnterPass1
      <4>2. regDepth = 0
        BY <1>6, <2>1, <4>1, Zenon DEF EnterPass1
      <4>3. regDepth = Depth - 1
        BY <1>6 DEF EnterPass1, IInv, ControlInv, ScopesMatchCalls, Registering
      <4>. QED BY <4>2, <4>3, StayFacts
    <3>. QED BY <1>1, <3>1, <3>2, StepForms, Pass1MoveKeepsMangled
  <2>2. CASE ~ buildIgnored'
    <3>1. frames' = MoveTo("runtime", Top.pc, Len(pending)) /\ "runtime" \in Stages
      BY <1>6, <2>2, StayFacts, MoveForms, StepForms DEF EnterPass1
    <3>2. Len(pending) \in Nat
      BY SnapshotFacts
    <3>. QED BY <1>1, <3>1, <3>2, StepForms, Pass1MoveKeepsMangled
  <2>. QED BY <2>1, <2>2
<1>. QED BY <1>3, <1>4, <1>5, <1>6

\* The steps of sem_analyse itself write no scope.
LEMMA MainKeepsMangled ==
  ASSUME IInv, NamesInv, SettledInv, MangledInv, PackagesStay,
         CheckPass1 \/ CheckPass2 \/ TrackUsage \/ FinishTrack
  PROVE  MangledInv'
<1>1. Depth = 1 /\ Top.imp = 0 /\ syms' = syms /\ Top.file \in Files
  <2>1. Depth = 1
    BY MainStages DEF CheckPass1, CheckPass2, TrackUsage, FinishTrack
  <2>. QED BY <2>1, CallTypes, StayFacts DEF CheckPass1, CheckPass2, TrackUsage, FinishTrack, Frame
<1>2. Len(imports') = Len(imports)
  <2>1. CASE imports' = imports
    BY <2>1
  <2>2. CASE \E i : imports' = [imports EXCEPT ![i].used = TRUE]
    BY <2>2, MarkGrows DEF IInv
  <2>3. CASE FinishTrack
    <3>1. DOMAIN imports = 1 .. Len(imports) /\ Len(imports) \in Nat
      BY DEF IInv, TypeOK
    <3>. QED BY <2>3, <3>1 DEF FinishTrack
  <2>. QED BY <2>1, <2>2, <2>3, Zenon DEF CheckPass1, CheckPass2, TrackUsage
<1>3. ASSUME NEW st \in {"return", "track", "pass2"}, NEW n \in Nat, frames' = MoveTo(st, n, Top.savedPending),
             st = "pass2" => Top.stage = "check"
      PROVE  MangledInv'
  <2>. DEFINE c == [stage |-> st, pc |-> n, file |-> Top.file]
  <2>1. c.stage = st /\ c.pc = n /\ c.file = Top.file
    OBVIOUS
  <2>. HIDE DEF c
  <2>2. DefinedSoFar(c, syms[Top.imp])
    BY <1>3, <2>1, TopScope DEF DefinedSoFar
  <2>3. st \in Stages /\ Top.savedPending \in Nat
    BY StepForms
  <2>. QED BY <1>1, <1>2, <1>3, <2>1, <2>2, <2>3, MoveKeepsMangled
<1>4. \A st \in {"return", "track", "pass2"} :
        Goto(st) = MoveTo(st, Top.pc, Top.savedPending) /\ GotoAt(st, 1) = MoveTo(st, 1, Top.savedPending)
  BY StepForms
<1>5. Top.pc \in Nat /\ 1 \in Nat /\ Top.pc + 1 \in Nat
  BY StepForms
<1>6. CASE CheckPass1
  BY <1>3, <1>4, <1>5, <1>6 DEF CheckPass1
<1>7. CASE CheckPass2
  BY <1>3, <1>4, <1>5, <1>7 DEF CheckPass2
<1>8. CASE TrackUsage
  BY <1>3, <1>5, <1>8, StepForms DEF TrackUsage
<1>9. CASE FinishTrack
  BY <1>3, <1>4, <1>5, <1>9 DEF FinishTrack
<1>. QED BY <1>6, <1>7, <1>8, <1>9

\* The runtime symbols are copied before any declaration of the package is met.
LEMMA CopyKeepsMangled ==
  ASSUME IInv, NamesInv, MangledInv, PackagesStay, CopyRuntimeSymbols
  PROVE  MangledInv'
<1>1. Top.stage = "copy" /\ Len(imports') = Len(imports) /\ "clause" \in Stages
  BY DEF CopyRuntimeSymbols, Stages
<1>2. frames' = MoveTo("clause", Top.pc, Top.savedPending)
  BY StepForms DEF CopyRuntimeSymbols
<1>3. PICK i \in 0 .. Len(imports) : i = Top.imp /\ CurrentScope = i /\ syms[i] \in Scope
  BY TopScope
<1>. DEFINE c == [stage |-> "clause", pc |-> Top.pc, file |-> Top.file]
<1>4. c.stage = "clause" /\ c.pc = Top.pc /\ c.file = Top.file
  OBVIOUS
<1>. HIDE DEF c
<1>5. i # 0 => \A id \in Ids : FromFile(syms[i], id)
  BY <1>1, <1>3, TopScope DEF BundleAhead
<1>6. \E s \in Scope : syms' = [syms EXCEPT ![i] = s] /\ (i # 0 => \A id \in Ids : FromFile(s, id))
  <2>1. CASE HasPrelude("runtime") /\ CurrentScope # RuntimeAt
    <3>1. RuntimeAt \in 1 .. Len(imports)
      <4>. DEFINE T == {j \in 1 .. Len(imports) : imports[j].prelude = "runtime"}
      <4>1. T \in SUBSET Nat /\ T # {} /\ DOMAIN imports = 1 .. Len(imports)
        BY <2>1, StayFacts DEF HasPrelude
      <4>2. PICK x \in T : \A y \in T : x <= y
        BY <4>1, Least
      <4>3. \A j \in 1 .. x - 1 : imports[j].prelude # "runtime"
        <5>1. \A j \in 1 .. x - 1 : j \in 1 .. Len(imports) /\ ~ (x <= j)
          BY <4>1, <4>2, StayFacts
        <5>. QED BY <4>2, <5>1
      <4>. QED BY <4>1, <4>2, <4>3 DEF RuntimeAt
    <3>2. PICK from : from = syms[RuntimeAt] /\ from \in Scope /\ \A id \in Ids : FromFile(from, id)
      <4>1. RuntimeAt \in 0 .. Len(imports) /\ RuntimeAt # Top.imp
        BY <1>3, <2>1, <3>1
      <4>2. syms[RuntimeAt] \in Scope
        BY <4>1, StayFacts
      <4>3. \A id \in Ids : FromFile(syms[RuntimeAt], id)
        BY <3>1, <4>1 DEF MangledInv, ValuesDeclared
      <4>. QED BY <4>2, <4>3
    <3>3. syms' = [syms EXCEPT ![i] = CopyUsing(from, syms[i])]
      BY <1>3, <2>1, <3>2 DEF CopyRuntimeSymbols
    <3>4. PICK s \in Scope : s = CopyUsing(from, syms[i])
      BY <1>3, <3>2, CopyUsingType
    <3>5. ASSUME i # 0, NEW id \in Ids PROVE FromFile(s, id)
      <4>1. \/ s[id] = syms[i][id]
            \/ from[id] # NoSym /\ s[id].val = from[id].val
        BY <1>3, <3>2, <3>4, CopyUsingFacts
      <4>. QED BY <1>5, <3>2, <3>5, <4>1 DEF FromFile
    <3>. QED BY <3>3, <3>4, <3>5
  <2>2. CASE ~ (HasPrelude("runtime") /\ CurrentScope # RuntimeAt)
    <3>1. syms' = [syms EXCEPT ![i] = syms[i]]
      BY <1>3, <2>2, TopScope DEF CopyRuntimeSymbols
    <3>. QED BY <1>3, <1>5, <3>1
  <2>. QED BY <2>1, <2>2
<1>7. \A s : DefinedSoFar(c, s) /\ MangledSoFar(c, s)
  BY <1>4 DEF DefinedSoFar, MangledSoFar
<1>. QED BY <1>1, <1>2, <1>3, <1>4, <1>6, <1>7, StepForms, WriteKeepsMangled

\* The entries of a declaration, as pass 1 writes them: `old' is the scope
\* before, `new' the scope after.
Registered(old, new, id) ==
  /\ \A j \in Ids : old[j] # NoSym => new[j] # NoSym
  /\ \A j \in Ids : j # id /\ new[j] # NoSym => old[j] # NoSym /\ new[j].val = old[j].val
  /\ new[id] # NoSym /\ new[id].val.file = Top.file
  /\ new[id].val.kind \in Declares => Decl.op \in Declares

\* A declaration of pass 1 is there from then on, and is the file's own.
LEMMA RegisterKeepsMangled ==
  ASSUME IInv, NamesInv, MangledInv, PackagesStay, RegisterDecl \/ RegisterVar \/ RegisterGroup
  PROVE  MangledInv'
<1>1. Top.stage = "pass1" /\ AtDecl /\ frames' = NextDecl /\ Len(imports') = Len(imports)
  BY DEF RegisterDecl, RegisterVar, RegisterGroup
<1>2. PICK i \in 0 .. Len(imports), old \in Scope : i = Top.imp /\ CurrentScope = i /\ old = syms[i]
  BY TopScope
<1>3. PICK id \in Ids : id = Decl.id
  BY StayFacts, DeclFields DEF RegisterDecl, RegisterVar, RegisterGroup
<1>4. PICK file \in Files, at \in Nat \ {0} : file = Top.file /\ at = Top.pc
  BY <1>1, StayFacts, DeclFields
<1>5. \E new \in Scope : syms' = [syms EXCEPT ![i] = new] /\ Registered(old, new, id)
  <2>1. ASSUME NEW v \in Values, v.file = file, v.kind \in Declares => Decl.op \in Declares, NEW p,
               syms' = [syms EXCEPT ![i] = SetPrivate(AddEntry(old, id, v), id, p)]
        PROVE  \E new \in Scope : syms' = [syms EXCEPT ![i] = new] /\ Registered(old, new, id)
    <3>1. PICK mid \in Scope : /\ mid = AddEntry(old, id, v) /\ mid[id] # NoSym /\ mid[id].val = v
                               /\ \A j \in Ids : j # id => mid[j] = old[j]
      BY AddEntryFacts
    <3>2. PICK new \in Scope : /\ new = SetPrivate(mid, id, p)
                               /\ \A j \in Ids : /\ (new[j] = NoSym) <=> (mid[j] = NoSym)
                                                 /\ mid[j] # NoSym => new[j].val = mid[j].val
      BY SetPrivateFacts
    <3>3. Registered(old, new, id)
      BY <1>4, <2>1, <3>1, <3>2 DEF Registered
    <3>. QED BY <2>1, <3>1, <3>2, <3>3
  <2>2. CASE RegisterDecl
    <3>. DEFINE v == [file |-> Top.file, id |-> Decl.id, kind |-> IF Decl.op = "proc" THEN "proc" ELSE "null"]
    <3>1. v \in Values /\ v.file = file /\ Decl.op \in Declares
      BY <1>3, <1>4, <2>2 DEF Values, RegisterDecl, Declares
    <3>2. syms' = [syms EXCEPT ![i] = SetPrivate(AddEntry(old, id, v), id, Decl.priv)]
      BY <1>2, <1>3, <2>2 DEF RegisterDecl
    <3>. HIDE DEF v
    <3>. QED BY <2>1, <3>1, <3>2
  <2>3. CASE RegisterVar
    <3>. DEFINE v == [file |-> Top.file, id |-> Decl.id, kind |-> "null"]
    <3>1. v \in Values /\ v.file = file /\ v.kind \notin Declares
      BY <1>3, <1>4 DEF Values, Declares
    <3>2. syms' = [syms EXCEPT ![i] = AddEntry(old, id, v)]
      BY <1>2, <1>3, <2>3 DEF RegisterVar
    <3>3. AddEntry(old, id, v) = SetPrivate(AddEntry(old, id, v), id, FALSE)
      BY DEF SetPrivate
    <3>. HIDE DEF v
    <3>. QED BY <2>1, <3>1, <3>2, <3>3
  <2>4. CASE RegisterGroup
    <3>1. PICK kind \in {"group", "null"} :
            syms' = [syms EXCEPT ![CurrentScope] =
                       SetPrivate(AddEntry(syms[CurrentScope], Decl.id, [file |-> Top.file, id |-> Decl.id, kind |-> kind]),
                                  Decl.id, Decl.priv)]
      BY <2>4, Zenon DEF RegisterGroup
    <3>. DEFINE v == [file |-> Top.file, id |-> Decl.id, kind |-> kind]
    <3>2. v \in Values /\ v.file = file /\ Decl.op \in Declares
      BY <1>3, <1>4, <2>4 DEF Values, RegisterGroup, Declares
    <3>3. syms' = [syms EXCEPT ![i] = SetPrivate(AddEntry(old, id, v), id, Decl.priv)]
      BY <1>2, <1>3, <3>1
    <3>. HIDE DEF v
    <3>. QED BY <2>1, <3>2, <3>3
  <2>. QED BY <2>2, <2>3, <2>4
<1>6. PICK new \in Scope : syms' = [syms EXCEPT ![i] = new] /\ Registered(old, new, id)
  BY <1>5
<1>. DEFINE c == [stage |-> "pass1", pc |-> Top.pc + 1, file |-> Top.file]
<1>7. c.stage = "pass1" /\ c.pc = Top.pc + 1 /\ c.file = Top.file
  OBVIOUS
<1>. HIDE DEF c
<1>8. prog[file].decls \in Seq(DeclType) /\ Decl = prog[file].decls[at] /\ at \in DOMAIN prog[file].decls
  <2>1. prog[file].decls \in Seq(DeclType)
    BY DEF IInv, TypeOK, SourceType
  <2>. QED BY <1>1, <1>4, <2>1 DEF AtDecl, Decl, Decls
<1>9. DefinedSoFar(c, new)
  <2>1. SUFFICES ASSUME NEW k \in DOMAIN prog[file].decls, k < at + 1, prog[file].decls[k].op \in Declares
                 PROVE  new[prog[file].decls[k].id] # NoSym
    BY <1>4, <1>7 DEF DefinedSoFar
  <2>2. CASE k = at
    BY <1>3, <1>6, <1>8, <2>2 DEF Registered
  <2>3. CASE k < at
    <3>1. old[prog[file].decls[k].id] # NoSym
      BY <1>1, <1>2, <1>4, <2>1, <2>3, TopScope DEF DefinedSoFar
    <3>2. prog[file].decls[k].id \in Ids
      BY <1>8, <2>1 DEF DeclType, ImportDecl, ConstDecl, VarDecl, GroupDecl, Declares
    <3>. QED BY <1>6, <3>1, <3>2 DEF Registered
  <2>. QED BY <1>8, <2>1, <2>2, <2>3
<1>10. i # 0 => \A j \in Ids : FromFile(new, j)
  <2>1. SUFFICES ASSUME i # 0, NEW j \in Ids, new[j] # NoSym, new[j].val.kind \in Declares
                 PROVE  DeclaredBy(new[j].val.file, j)
    BY DEF FromFile
  <2>2. CASE j = id
    BY <1>3, <1>4, <1>6, <1>8, <2>1, <2>2 DEF Registered, DeclaredBy
  <2>3. CASE j # id
    <3>1. FromFile(old, j)
      BY <1>1, <1>2, <2>1, TopScope DEF BundleAhead
    <3>. QED BY <1>6, <2>1, <2>3, <3>1 DEF Registered, FromFile
  <2>. QED BY <2>2, <2>3
<1>11. MangledSoFar(c, new)
  BY <1>7 DEF MangledSoFar
<1>12. frames' = MoveTo("pass1", Top.pc + 1, Top.savedPending) /\ "pass1" \in Stages
  BY <1>1, StepForms
<1>. QED BY <1>1, <1>2, <1>6, <1>7, <1>9, <1>10, <1>11, <1>12, StepForms, WriteKeepsMangled

\* A name that is declared is an identifier.
LEMMA DeclaredIds ==
  ASSUME TypeOK, NEW file \in Files, NEW k \in DOMAIN prog[file].decls, prog[file].decls[k].op \in Declares \cup {"var"}
  PROVE  prog[file].decls[k].id \in Ids
<1>1. prog[file].decls[k] \in DeclType
  BY DEF TypeOK, SourceType
<1>. QED BY <1>1 DEF DeclType, ImportDecl, ConstDecl, VarDecl, GroupDecl, Declares

\* The bundles resolved at the end of pass 1 are those the file declares; what
\* they were taken for before is written again in pass 2.
LEMMA EndPass1KeepsMangled ==
  ASSUME IInv, NamesInv, MangledInv, PackagesStay, EndPass1
  PROVE  MangledInv'
<1>1. Top.stage = "pass1" /\ ~ AtDecl /\ Len(imports') = Len(imports)
  BY DEF EndPass1
<1>2. PICK i \in 0 .. Len(imports), old \in Scope : i = Top.imp /\ CurrentScope = i /\ old = syms[i]
  BY TopScope
<1>3. PICK file \in Files, at \in Nat \ {0} : file = Top.file /\ at = Top.pc
  BY StayFacts DEF Frame
<1>4. prog[file].decls \in Seq(DeclType) /\ TypeOK
  BY DEF IInv, TypeOK, SourceType
<1>5. \A k \in DOMAIN prog[file].decls : k < at
  BY <1>1, <1>3, <1>4 DEF AtDecl, Decls
<1>6. PICK found, kind : syms' = [syms EXCEPT ![i] = [id \in Ids |->
                           IF found[id] /\ old[id] # NoSym THEN [old[id] EXCEPT !.val.kind = kind[id]] ELSE old[id]]]
                      /\ \A id \in Ids : /\ kind[id] \in {"group", "null"}
                                         /\ found[id] <=> \E j \in Deferred(Top) : prog[pending[j].file].decls[pending[j].at].id = id
  <2>. DEFINE found == [id \in Ids |-> \E j \in Deferred(Top) : prog[pending[j].file].decls[pending[j].at].id = id]
              kind == [id \in Ids |-> IF \E j \in Deferred(Top) : /\ prog[pending[j].file].decls[pending[j].at].id = id
                                                                  /\ ValidCandidates(prog[pending[j].file].decls[pending[j].at]) # {}
                                        THEN "group" ELSE "null"]
  <2>1. \A id \in Ids : /\ kind[id] \in {"group", "null"}
                        /\ found[id] <=> \E j \in Deferred(Top) : prog[pending[j].file].decls[pending[j].at].id = id
    OBVIOUS
  <2>2. syms' = [syms EXCEPT ![i] = [id \in Ids |->
                  IF found[id] /\ old[id] # NoSym THEN [old[id] EXCEPT !.val.kind = kind[id]] ELSE old[id]]]
    BY <1>2 DEF EndPass1
  <2>. HIDE DEF found, kind
  <2>. QED BY <2>1, <2>2
<1>. DEFINE new == [id \in Ids |-> IF found[id] /\ old[id] # NoSym THEN [old[id] EXCEPT !.val.kind = kind[id]] ELSE old[id]]
<1>7. /\ new \in Scope
      /\ \A id \in Ids : /\ old[id] # NoSym => new[id] # NoSym
                         /\ ~ found[id] => new[id] = old[id]
  <2>1. ASSUME NEW id \in Ids, found[id], old[id] # NoSym
        PROVE  new[id] \in Symbols
    <3>1. old[id] \in Symbols
      BY <2>1 DEF Scope
    <3>2. kind[id] \in {"proc", "const", "var", "group", "null"}
      BY <1>6
    <3>3. [old[id].val EXCEPT !.kind = kind[id]] \in Values
      BY <3>1, <3>2 DEF Symbols, Values
    <3>4. new[id] = [old[id] EXCEPT !.val = [old[id].val EXCEPT !.kind = kind[id]]]
      BY <2>1
    <3>. QED BY <3>1, <3>3, <3>4 DEF Symbols
  <2>2. \A id \in Ids : ~ (found[id] /\ old[id] # NoSym) => new[id] = old[id]
    OBVIOUS
  <2>. HIDE DEF new
  <2>3. new \in [Ids -> Symbols \cup {NoSym}]
    <3>1. \A id \in Ids : new[id] \in Symbols \cup {NoSym}
      BY <2>1, <2>2 DEF Scope
    <3>2. new = [id \in Ids |-> new[id]]
      BY DEF new
    <3>. QED BY <3>1, <3>2
  <2>. QED BY <2>1, <2>2, <2>3, SymbolIsSome DEF Scope
<1>8. syms' = [syms EXCEPT ![i] = new]
  BY <1>6
<1>. HIDE DEF new
<1>9. PICK st \in {"check", "pass2"}, n \in Nat : frames' = MoveTo(st, n, Top.savedPending) /\ (st = "pass2" => n = 1)
                                              /\ (Depth # 1 => st = "pass2")
  <2>1. frames' = IF Depth = 1 THEN Goto("check") ELSE GotoAt("pass2", 1)
    BY DEF EndPass1
  <2>. QED BY <2>1, StepForms
<1>. DEFINE c == [stage |-> st, pc |-> n, file |-> Top.file]
<1>10. c.stage = st /\ c.pc = n /\ c.file = Top.file
  OBVIOUS
<1>. HIDE DEF c
<1>11. DefinedSoFar(c, new)
  <2>1. SUFFICES ASSUME NEW k \in DOMAIN prog[file].decls, prog[file].decls[k].op \in Declares
                 PROVE  new[prog[file].decls[k].id] # NoSym
    BY <1>3, <1>10 DEF DefinedSoFar
  <2>2. old[prog[file].decls[k].id] # NoSym
    BY <1>1, <1>2, <1>3, <1>5, <2>1, TopScope DEF DefinedSoFar
  <2>. QED BY <1>4, <1>7, <2>1, <2>2, DeclaredIds
<1>12. i # 0 => \A id \in Ids : FromFile(new, id) \/ BundleAhead(c, id)
  <2>. SUFFICES ASSUME i # 0, NEW id \in Ids PROVE FromFile(new, id) \/ BundleAhead(c, id)
    OBVIOUS
  <2>1. CASE found[id]
    <3>1. PICK j \in Deferred(Top) : prog[pending[j].file].decls[pending[j].at].id = id
      BY <1>6, <2>1
    <3>2. j \in 1 .. Len(pending) /\ ~ (j <= Top.savedPending) /\ Registering(Top)
      BY <1>1, <3>1, SnapshotFacts DEF Deferred, Registering
    <3>3. PICK h \in 1 .. Depth : /\ OwnBundle(pending[j], frames[h])
                                  /\ \A m \in h + 1 .. Depth : Registering(frames[m]) => j <= frames[m].savedPending
      BY <3>2 DEF NamesInv, PendingOwned
    <3>4. h = Depth
      <4>1. CASE h # Depth
        <5>1. Depth \in h + 1 .. Depth
          BY <4>1, CallTypes
        <5>. QED BY <3>2, <3>3, <5>1 DEF Top
      <4>. QED BY <4>1
    <3>5. OwnBundle(pending[j], Top)
      BY <3>3, <3>4 DEF Top
    <3>6. PICK k \in DOMAIN prog[file].decls : prog[file].decls[k].op = "group" /\ prog[file].decls[k].id = id
      BY <1>3, <3>1, <3>5 DEF OwnBundle
    <3>7. k >= 1 /\ Depth # 1
      BY <1>2, <1>4, CallTypes
    <3>. QED BY <1>3, <1>9, <1>10, <3>6, <3>7 DEF BundleAhead
  <2>2. CASE ~ found[id]
    <3>1. FromFile(old, id)
      BY <1>1, <1>2, TopScope DEF BundleAhead
    <3>. QED BY <1>7, <2>2, <3>1 DEF FromFile
  <2>. QED BY <2>1, <2>2
<1>13. MangledSoFar(c, new)
  <2>1. \A k \in DOMAIN prog[file].decls : ~ (k < 1)
    BY <1>4
  <2>. QED BY <1>3, <1>9, <1>10, <2>1 DEF MangledSoFar
<1>14. st \in Stages
  BY DEF Stages
<1>. QED BY <1>1, <1>2, <1>7, <1>8, <1>9, <1>10, <1>11, <1>12, <1>13, <1>14, StepForms, WriteKeepsMangled

\* In pass 2 of a package that is not a prelude, there is a path on the import
\* stack and the package name is that of the clause: its declarations are mangled.
LEMMA ManglingName ==
  ASSUME IInv, NamesInv, Top.stage = "pass2", Depth > 1, imports[Top.imp].prelude = "none"
  PROVE  importStack # <<>> /\ pkgName # NoName /\ pkgName = prog[Top.file].clause
<1>1. Depth \in 2 .. Depth /\ Depth \in Nat \ {0} /\ Depth - 1 \in 1 .. Depth
  BY CallTypes
<1>2. Top.how # "prelude"
  BY <1>1 DEF NamesInv, HowMatches, Top
<1>3. Len(importStack) # 0
  <2>1. PICK count \in [1 .. Depth -> Nat] :
          /\ count[Depth] = Len(importStack)
          /\ \A n \in 2 .. Depth : count[n] = IF frames[n].how = "prelude" THEN count[n - 1] ELSE count[n - 1] + 1
    BY DEF NamesInv, PathsCount
  <2>2. count[Depth] = count[Depth - 1] + 1 /\ count[Depth - 1] \in Nat
    BY <1>1, <1>2, <2>1 DEF Top
  <2>. QED BY <2>1, <2>2
<1>4. pkgName = prog[Top.file].clause
  BY DEF NamesInv, NamesFollow
<1>5. prog[Top.file].clause \in Names
  <2>1. Top.file \in Files
    BY StayFacts DEF Frame
  <2>. QED BY <2>1 DEF IInv, TypeOK, SourceType
<1>. QED BY <1>3, <1>4, <1>5, ConstantsAssumption

\* The entries of a declaration, as pass 2 writes them.
Analysed(old, new, id) ==
  /\ \A j \in Ids : old[j] # NoSym => new[j] # NoSym
  /\ \A j \in Ids : j # id => new[j] = old[j]
  /\ new[id] # NoSym /\ new[id].val.file = Top.file
  /\ new[id].val.kind \in Declares => Decl.op \in Declares
  /\ old[id] # NoSym /\ Decl.op \notin Declares => new[id].llvm = old[id].llvm
  /\ old[id] # NoSym /\ Decl.op \in Declares /\ importStack # <<>> /\ pkgName # NoName =>
       new[id].llvm = <<pkgName, id>>

\* What the actions of pass 2 write.
LEMMA AnalysedForms ==
  ASSUME IInv, AnalyseDecl \/ AnalyseGroup \/ AnalyseVar,
         NEW i, i = CurrentScope, NEW old \in Scope, old = syms[i], NEW id \in Ids, id = Decl.id,
         NEW file \in Files, file = Top.file
  PROVE  \E new \in Scope : syms' = [syms EXCEPT ![i] = new] /\ Analysed(old, new, id)
<1>0. TypeOK
  BY DEF IInv
<1>1. ASSUME NEW kind \in {"proc", "const", "group", "null"}, Decl.op \in Declares,
             syms' = [syms EXCEPT ![CurrentScope] =
                        AddEntry(Mangle(syms[CurrentScope], Decl.id), Decl.id,
                                 [file |-> Top.file, id |-> Decl.id, kind |-> kind])]
      PROVE  \E new \in Scope : syms' = [syms EXCEPT ![i] = new] /\ Analysed(old, new, id)
  <2>. DEFINE v == [file |-> Top.file, id |-> Decl.id, kind |-> kind]
  <2>1. v \in Values /\ v.file = file
    BY <1>1 DEF Values
  <2>2. syms' = [syms EXCEPT ![i] = AddEntry(Mangle(old, id), id, v)]
    BY <1>1
  <2>. HIDE DEF v
  <2>3. PICK mid \in Scope : /\ mid = Mangle(old, id)
                             /\ \A j \in Ids : j # id => mid[j] = old[j]
                             /\ (mid[id] = NoSym) <=> (old[id] = NoSym)
                             /\ old[id] # NoSym /\ importStack # <<>> /\ pkgName # NoName =>
                                  mid[id].llvm = <<pkgName, id>>
    BY <1>0, MangleFacts
  <2>4. PICK new \in Scope : /\ new = AddEntry(mid, id, v)
                             /\ \A j \in Ids : j # id => new[j] = mid[j]
                             /\ new[id] # NoSym /\ new[id].val = v
                             /\ mid[id] # NoSym => new[id].llvm = mid[id].llvm
    BY <2>1, AddEntryFacts
  <2>5. Analysed(old, new, id)
    BY <1>1, <2>1, <2>3, <2>4 DEF Analysed
  <2>. QED BY <2>2, <2>3, <2>4, <2>5
<1>2. CASE AnalyseDecl
  <2>1. Decl.op \in {"proc", "const", "group", "null"} /\ Decl.op \in Declares
    BY <1>2 DEF AnalyseDecl, Declares
  <2>2. syms' = [syms EXCEPT ![CurrentScope] =
                   AddEntry(Mangle(syms[CurrentScope], Decl.id), Decl.id,
                            [file |-> Top.file, id |-> Decl.id, kind |-> Decl.op])]
    BY <1>2 DEF AnalyseDecl
  <2>. QED BY <1>1, <2>1, <2>2
<1>3. CASE AnalyseGroup
  <2>1. PICK kind \in {"group", "null"} :
          syms' = [syms EXCEPT ![CurrentScope] =
                     AddEntry(Mangle(syms[CurrentScope], Decl.id), Decl.id,
                              [file |-> Top.file, id |-> Decl.id, kind |-> kind])]
    BY <1>3, Zenon DEF AnalyseGroup
  <2>2. Decl.op \in Declares
    BY <1>3 DEF AnalyseGroup, Declares
  <2>. QED BY <1>1, <2>1, <2>2
<1>4. CASE AnalyseVar
  <2>. DEFINE v == [file |-> Top.file, id |-> Decl.id, kind |-> "var"]
  <2>1. v \in Values /\ v.file = file /\ v.kind \notin Declares /\ Decl.op \notin Declares
    BY <1>4 DEF Values, Declares, AnalyseVar
  <2>2. syms' = [syms EXCEPT ![i] = AddEntry(old, id, v)]
    BY <1>4 DEF AnalyseVar
  <2>. HIDE DEF v
  <2>3. PICK new \in Scope : /\ new = AddEntry(old, id, v)
                             /\ \A j \in Ids : j # id => new[j] = old[j]
                             /\ new[id] # NoSym /\ new[id].val = v
                             /\ old[id] # NoSym => new[id].llvm = old[id].llvm
    BY <2>1, AddEntryFacts
  <2>4. Analysed(old, new, id)
    BY <2>1, <2>3 DEF Analysed
  <2>. QED BY <2>2, <2>3, <2>4
<1>. QED BY <1>2, <1>3, <1>4

\* Pass 2 gives each declaration it passes the package's own name.
LEMMA Pass2KeepsMangled ==
  ASSUME IInv, NamesInv, MangledInv, PackagesStay, SkipImport \/ AnalyseDecl \/ AnalyseGroup \/ AnalyseVar
  PROVE  MangledInv'
<1>1. Top.stage = "pass2" /\ AtDecl /\ frames' = NextDecl
  BY DEF SkipImport, AnalyseDecl, AnalyseGroup, AnalyseVar
<1>2. Len(imports') = Len(imports)
  <2>1. CASE imports' = imports
    BY <2>1
  <2>2. CASE \E i : imports' = [imports EXCEPT ![i].used = TRUE]
    BY <2>2, MarkGrows DEF IInv
  <2>. QED BY <2>1, <2>2, Zenon DEF SkipImport, AnalyseDecl, AnalyseGroup, AnalyseVar, EvalRef
<1>3. PICK i \in 0 .. Len(imports), old \in Scope : i = Top.imp /\ CurrentScope = i /\ old = syms[i]
  BY TopScope
<1>4. PICK file \in Files, at \in Nat \ {0} : file = Top.file /\ at = Top.pc
  BY <1>1, StayFacts, DeclFields
<1>5. prog[file].decls \in Seq(DeclType) /\ TypeOK /\ Decl = prog[file].decls[at] /\ at \in DOMAIN prog[file].decls
  <2>1. prog[file].decls \in Seq(DeclType) /\ TypeOK
    BY DEF IInv, TypeOK, SourceType
  <2>. QED BY <1>1, <1>4, <2>1 DEF AtDecl, Decl, Decls
<1>6. PICK new \in Scope : /\ syms' = [syms EXCEPT ![i] = new]
                           /\ \/ new = old /\ Decl.op \in ImportOps
                              \/ Decl.id \in Ids /\ Analysed(old, new, Decl.id) /\ Decl.op \in Declares \cup {"var"}
  <2>1. CASE SkipImport
    <3>1. syms' = [syms EXCEPT ![i] = old]
      BY <1>3, <2>1, TopScope DEF SkipImport
    <3>. QED BY <2>1, <3>1 DEF SkipImport
  <2>2. CASE AnalyseDecl \/ AnalyseGroup \/ AnalyseVar
    <3>1. Decl.op \in Declares \cup {"var"}
      BY <2>2 DEF AnalyseDecl, AnalyseGroup, AnalyseVar, Declares
    <3>2. PICK id \in Ids : id = Decl.id
      BY <1>4, <1>5, <3>1, DeclaredIds
    <3>. QED BY <1>3, <1>4, <2>2, <3>1, <3>2, AnalysedForms
  <2>. QED BY <2>1, <2>2
<1>. DEFINE c == [stage |-> "pass2", pc |-> Top.pc + 1, file |-> Top.file]
<1>7. c.stage = "pass2" /\ c.pc = at + 1 /\ c.file = file
  BY <1>4
<1>. HIDE DEF c
<1>8. \A j \in Ids : old[j] # NoSym => new[j] # NoSym
  BY <1>6 DEF Analysed
<1>9. \A k \in DOMAIN prog[file].decls : prog[file].decls[k].op \in Declares => old[prog[file].decls[k].id] # NoSym
  BY <1>1, <1>3, <1>4, TopScope DEF DefinedSoFar
<1>10. DefinedSoFar(c, new)
  <2>1. SUFFICES ASSUME NEW k \in DOMAIN prog[file].decls, prog[file].decls[k].op \in Declares
                 PROVE  new[prog[file].decls[k].id] # NoSym
    BY <1>7 DEF DefinedSoFar
  <2>. QED BY <1>5, <1>8, <1>9, <2>1, DeclaredIds
<1>11. i # 0 => \A j \in Ids : FromFile(new, j) \/ BundleAhead(c, j)
  <2>. SUFFICES ASSUME i # 0, NEW j \in Ids PROVE FromFile(new, j) \/ BundleAhead(c, j)
    OBVIOUS
  <2>1. FromFile(old, j) \/ BundleAhead(Top, j)
    BY <1>3, TopScope
  <2>2. ASSUME ~ (Decl.op \in Declares \cup {"var"} /\ Decl.id = j)
        PROVE  (FromFile(old, j) => FromFile(new, j)) /\ (BundleAhead(Top, j) => BundleAhead(c, j))
    <3>1. new[j] = old[j]
      BY <1>6, <2>2 DEF Analysed
    <3>2. ASSUME BundleAhead(Top, j) PROVE BundleAhead(c, j)
      <4>1. PICK k \in DOMAIN prog[file].decls : k >= at /\ prog[file].decls[k].op = "group" /\ prog[file].decls[k].id = j
        BY <1>4, <3>2 DEF BundleAhead
      <4>2. k # at
        BY <1>5, <2>2, <4>1 DEF Declares
      <4>3. k >= at + 1
        BY <1>5, <4>1, <4>2
      <4>. QED BY <1>7, <4>1, <4>3 DEF BundleAhead
    <3>. QED BY <3>1, <3>2 DEF FromFile
  <2>3. ASSUME Decl.op \in Declares \cup {"var"}, Decl.id = j PROVE FromFile(new, j)
    <3>1. Analysed(old, new, j)
      BY <1>6, <2>3 DEF ImportOps, Declares
    <3>. QED BY <1>4, <1>5, <2>3, <3>1 DEF Analysed, FromFile, DeclaredBy
  <2>. QED BY <2>1, <2>2, <2>3
<1>12. ASSUME Depth > 1, imports[Top.imp].prelude = "none" PROVE MangledSoFar(c, new)
  <2>1. importStack # <<>> /\ pkgName # NoName /\ pkgName = prog[file].clause
    BY <1>1, <1>4, <1>12, ManglingName
  <2>2. SUFFICES ASSUME NEW k \in DOMAIN prog[file].decls, k < at + 1, prog[file].decls[k].op \in Declares,
                        NEW id \in Ids, id = prog[file].decls[k].id
                 PROVE  new[id].llvm = <<prog[file].clause, id>>
    BY <1>5, <1>7, DeclaredIds DEF MangledSoFar
  <2>3. CASE Decl.op \in Declares /\ Decl.id = id
    <3>1. Analysed(old, new, id) /\ old[id] # NoSym
      BY <1>6, <1>9, <2>2, <2>3 DEF ImportOps, Declares
    <3>. QED BY <2>1, <2>3, <3>1 DEF Analysed
  <2>4. CASE ~ (Decl.op \in Declares /\ Decl.id = id)
    <3>1. k < at
      <4>1. k # at
        BY <1>5, <2>2, <2>4
      <4>. QED BY <1>5, <2>2, <4>1
    <3>2. old[id].llvm = <<prog[file].clause, id>> /\ old[id] # NoSym
      BY <1>1, <1>3, <1>4, <1>9, <1>12, <2>2, <3>1, TopScope DEF MangledSoFar
    <3>3. new[id].llvm = old[id].llvm
      BY <1>6, <2>4, <3>2 DEF Analysed
    <3>. QED BY <3>2, <3>3
  <2>. QED BY <2>3, <2>4
<1>13. frames' = MoveTo("pass2", at + 1, Top.savedPending) /\ "pass2" \in Stages /\ at + 1 \in Nat
  BY <1>1, <1>4, StepForms
<1>. QED BY <1>1, <1>2, <1>3, <1>4, <1>6, <1>7, <1>10, <1>11, <1>12, <1>13, StepForms, WriteKeepsMangled

\* A call opens an empty scope and leaves the others.
LEMMA AnalyseKeepsMangled ==
  ASSUME IInv, IInv', MangledInv, PackagesStay, Registering(Top), NEW pkg \in Package,
         NEW st \in {"intrinsics", "copy", "pass1"}, NEW n \in Nat \ {0},
         NEW how, NEW alias, NEW stage \in {"enter", "return"},
         Analyse(pkg, MoveTo(st, n, Top.savedPending), how, alias, stage),
         st = "pass1" => Top.stage = "pass1" /\ n = Top.pc + 1 /\ AtDecl /\ Decl.op \in ImportOps
  PROVE  MangledInv'
<1>1. st \in Stages /\ n \in Nat
  BY DEF Stages
<1>2. /\ Depth' = Depth + 1 /\ Depth \in Nat \ {0} /\ Depth \in 1 .. Depth
      /\ \A k \in 1 .. Depth : k # Depth => frames'[k] = frames[k]
      /\ \A k \in 1 .. Depth + 1 : k \in 1 .. Depth \/ k = Depth + 1
      /\ frames'[Depth].stage = st /\ frames'[Depth].pc = n
      /\ \A k \in 1 .. Depth : frames'[k].imp = frames[k].imp /\ frames'[k].file = frames[k].file
      /\ Top' = frames'[Depth + 1] /\ Top'.imp = Len(imports) + 1 /\ Top'.stage = stage
      /\ Len(imports') = Len(imports) + 1 /\ Len(imports) \in Nat
  BY <1>1, PushedFrames
<1>3. /\ \A k \in 1 .. Depth : frames[k].imp \in 0 .. Len(imports)
      /\ syms'[Len(imports) + 1] = EmptyScope /\ \A i \in 0 .. Len(imports) : syms'[i] = syms[i]
  BY <1>2, CallTypes DEF Analyse
<1>4. prog' = prog /\ \A k \in 1 .. Len(imports) : imports'[k].file = imports[k].file /\ imports'[k].prelude = imports[k].prelude
  BY DEF PackagesStay
<1>5. Top.stage # "pass2"
  BY DEF Registering
<1>6. ScopesDefined'
  <2>1. ASSUME NEW k \in 1 .. Depth + 1, NEW f, f = frames'[k], NEW e, e = syms'[frames'[k].imp]
        PROVE  DefinedSoFar(f, e)
    <3>1. CASE k = Depth + 1
      BY <1>2, <2>1, <3>1 DEF DefinedSoFar
    <3>2. CASE k \in 1 .. Depth /\ k # Depth
      <4>1. f = frames[k] /\ e = syms[frames[k].imp]
        BY <1>2, <1>3, <2>1, <3>2
      <4>. QED BY <3>2, <4>1 DEF MangledInv, ScopesDefined
    <3>3. CASE k = Depth
      <4>1. e = syms[Top.imp] /\ f.file = Top.file /\ f.stage = st /\ f.pc = n
        BY <1>2, <1>3, <2>1, <3>3 DEF Top
      <4>2. CASE st # "pass1"
        BY <4>1, <4>2 DEF DefinedSoFar
      <4>3. CASE st = "pass1"
        <5>1. Top.stage = "pass1" /\ n = Top.pc + 1 /\ Decl.op \notin Declares /\ Top.pc \in Nat /\ Top.file \in Files
          BY <4>3, StayFacts DEF ImportOps, Declares, Frame
        <5>2. prog[Top.file].decls \in Seq(DeclType)
          BY <5>1 DEF IInv, TypeOK, SourceType
        <5>3. ASSUME NEW m \in DOMAIN prog[Top.file].decls, m < n, prog[Top.file].decls[m].op \in Declares
              PROVE  e[prog[Top.file].decls[m].id] # NoSym
          <6>1. m # Top.pc
            BY <5>1, <5>3 DEF Decl, Decls
          <6>2. m < Top.pc
            BY <5>1, <5>2, <5>3, <6>1
          <6>. QED BY <4>1, <5>1, <5>3, <6>2, TopScope DEF DefinedSoFar
        <5>. QED BY <4>1, <4>3, <5>3 DEF DefinedSoFar
      <4>. QED BY <4>2, <4>3
    <3>. QED BY <1>2, <3>1, <3>2, <3>3
  <2>2. \A k \in 1 .. Depth + 1 : DefinedSoFar(frames[k], syms[frames[k].imp])'
    <3>. TAKE k \in 1 .. Depth + 1
    <3>1. PICK f, e : f = frames'[k] /\ e = syms'[frames'[k].imp]
      OBVIOUS
    <3>2. DefinedSoFar(f, e)
      BY <2>1, <3>1
    <3>. QED BY <1>4, <3>1, <3>2 DEF DefinedSoFar
  <2>. QED BY <1>2, <2>2 DEF ScopesDefined
<1>7. UnenteredEmpty'
  <2>1. ASSUME NEW k \in 2 .. Depth + 1, frames'[k].stage \in {"enter", "return"}, NEW id \in Ids
        PROVE  syms'[frames'[k].imp][id] = NoSym
    <3>1. CASE k = Depth + 1
      BY <1>2, <1>3, <3>1 DEF EmptyScope
    <3>2. CASE k # Depth + 1
      <4>1. k \in 2 .. Depth /\ k \in 1 .. Depth /\ k # Depth
        BY <1>2, <2>1, <3>2
      <4>2. frames'[k] = frames[k] /\ syms'[frames'[k].imp] = syms[frames[k].imp]
        BY <1>2, <1>3, <4>1
      <4>. QED BY <2>1, <4>1, <4>2 DEF MangledInv, UnenteredEmpty
    <3>. QED BY <3>1, <3>2
  <2>. QED BY <1>2, <2>1 DEF UnenteredEmpty
<1>8. ValuesDeclared'
  <2>1. ASSUME NEW i \in 1 .. Len(imports) + 1, NEW id \in Ids, NEW e, e = syms'[i]
        PROVE  FromFile(e, id)
    <3>1. CASE i = Len(imports) + 1
      BY <1>3, <2>1, <3>1 DEF FromFile, EmptyScope
    <3>2. CASE i # Len(imports) + 1
      <4>1. i \in 1 .. Len(imports) /\ e = syms[i]
        BY <1>2, <1>3, <2>1, <3>2
      <4>. QED BY <1>5, <4>1 DEF MangledInv, ValuesDeclared, BundleAhead
    <3>. QED BY <3>1, <3>2
  <2>2. \A i \in 1 .. Len(imports) + 1, id \in Ids : FromFile(syms[i], id)'
    <3>. TAKE i \in 1 .. Len(imports) + 1, id \in Ids
    <3>1. PICK e : e = syms'[i]
      OBVIOUS
    <3>2. FromFile(e, id)
      BY <2>1, <3>1
    <3>. QED BY <1>4, <3>1, <3>2 DEF FromFile, DeclaredBy
  <2>. QED BY <1>2, <2>2 DEF ValuesDeclared
<1>9. TopMangled'
  BY <1>2 DEF TopMangled, MangledSoFar
<1>10. FinishedMangled'
  <2>1. ASSUME NEW i \in 1 .. Len(imports) + 1, NEW id \in Ids, Finished(i)', imports'[i].prelude = "none",
               syms'[i][id] # NoSym, DeclaredBy(imports[i].file, id)'
        PROVE  syms'[i][id].llvm = <<prog'[imports'[i].file].clause, id>>
    <3>1. i # Len(imports) + 1
      BY <1>3, <2>1 DEF EmptyScope
    <3>2. i \in 1 .. Len(imports) /\ i \in 0 .. Len(imports)
      BY <1>2, <3>1
    <3>3. DOMAIN frames' = 1 .. Depth + 1 /\ DOMAIN frames = 1 .. Depth
      <4>1. FramesOK /\ FramesOK'
        BY DEF IInv, TypeOK, FramesOK
      <4>. QED BY <1>2, <4>1 DEF Depth, FramesOK
    <3>4. Finished(i)
      BY <1>2, <2>1, <3>3 DEF Finished
    <3>5. DeclaredBy(imports[i].file, id)
      BY <1>4, <2>1, <3>2 DEF DeclaredBy
    <3>. QED BY <1>3, <1>4, <2>1, <3>2, <3>4, <3>5 DEF MangledInv, FinishedMangled
  <2>. QED BY <1>2, <2>1 DEF FinishedMangled
<1>. QED BY <1>6, <1>7, <1>8, <1>9, <1>10 DEF MangledInv

\* A return finishes a package, all of whose declarations its pass 2 passed,
\* and copies at most into a scope that waits.
LEMMA ReturnKeepsMangled ==
  ASSUME IInv, IInv', SettledInv, NamesInv, MangledInv, PackagesStay, ReturnImport
  PROVE  MangledInv'
<1>1. /\ Depth' = Depth - 1 /\ Depth - 1 \in Nat \ {0} /\ Depth \in Nat \ {0} /\ Depth \in 1 .. Depth
      /\ \A k \in 1 .. Depth - 1 : k \in 1 .. Depth /\ frames'[k] = frames[k] /\ Registering(frames[k])
      /\ Top' = frames[Depth - 1] /\ Depth - 1 \in 1 .. Depth - 1
      /\ Len(imports') = Len(imports)
  BY PoppedFrames, CallTypes
<1>2. PICK i \in 1 .. Len(imports), old \in Scope : i = Top.imp /\ old = syms[i] /\ i \in 0 .. Len(imports)
  BY <1>1, TopScope, CallTypes
<1>3. prog' = prog /\ \A k \in 1 .. Len(imports) : imports'[k].file = imports[k].file /\ imports'[k].prelude = imports[k].prelude
  BY DEF PackagesStay
<1>4. \A k \in 1 .. Depth - 1 : frames[k].imp \in 0 .. Len(imports) /\ frames[k].imp # i
  <2>1. \A k \in 1 .. Depth - 1 : k < Depth
    BY <1>1
  <2>2. \A k \in 1 .. Depth : frames[k].imp \in Nat
    BY CallTypes
  <2>. QED BY <1>1, <1>2, <2>1, <2>2, CallTypes DEF NamesInv, CallsAscend, Top
<1>5. PICK file \in Files, at \in Nat \ {0} : file = Top.file /\ at = Top.pc
  BY StayFacts DEF Frame
<1>6. prog[file].decls \in Seq(DeclType) /\ syms \in [0 .. Len(imports) -> Scope] /\ Len(imports) \in Nat
  BY StayFacts, CallTypes DEF TypeOK, SourceType
<1>7. Top.stage = "pass2" => \A k \in DOMAIN prog[file].decls : k < at
  BY <1>5, <1>6 DEF ReturnImport, AtDecl, Decls
<1>8. \A id \in Ids : FromFile(old, id)
  <2>1. \A id \in Ids : ~ BundleAhead(Top, id)
    <3>1. \A k \in DOMAIN prog[file].decls : k \in Nat
      BY <1>6
    <3>. QED BY <1>5, <1>7, <3>1 DEF BundleAhead
  <2>. QED BY <1>2, <2>1, TopScope
<1>9. PICK into \in 0 .. Len(imports), new \in Scope :
        /\ into # i /\ syms' = [syms EXCEPT ![into] = new] /\ \E k \in 1 .. Depth - 1 : into = frames[k].imp
        /\ \A id \in Ids : /\ syms[into][id] # NoSym => new[id] # NoSym
                           /\ \/ new[id] = syms[into][id]
                              \/ old[id] # NoSym /\ new[id].val = old[id].val
  <2>. DEFINE into == IF Len(scopes') > 0 THEN scopes'[Len(scopes')] ELSE 0
  <2>1. syms' = IF Top.how = "using" THEN [syms EXCEPT ![into] = CopyUsing(syms[Top.imp], @)] ELSE syms
    BY DEF ReturnImport
  <2>2. into = frames[Depth - 1].imp
    <3>1. Len(scopes') = Depth - 2 /\ \A k \in DOMAIN scopes' : scopes'[k] = frames'[k + 1].imp
      BY <1>1 DEF IInv, ControlInv, ScopesMatchCalls
    <3>2. scopes' \in Seq(1 .. Len(imports')) /\ frames[1].imp = 0
      BY StayFacts DEF IInv, TypeOK, CallsInv
    <3>3. CASE Depth = 2
      BY <1>1, <3>1, <3>2, <3>3
    <3>4. CASE Depth # 2
      <4>1. Depth - 2 \in 1 .. Len(scopes') /\ (Depth - 2) + 1 = Depth - 1 /\ Depth - 2 > 0
        BY <1>1, <3>1, <3>4
      <4>2. scopes'[Depth - 2] = frames'[(Depth - 2) + 1].imp
        BY <3>1, <3>2, <4>1
      <4>. QED BY <1>1, <3>1, <4>1, <4>2
    <3>. QED BY <3>3, <3>4
  <2>. HIDE DEF into
  <2>3. into \in 0 .. Len(imports) /\ into # i /\ Depth - 1 \in 1 .. Depth - 1
    BY <1>1, <1>4, <2>2
  <2>4. PICK there \in Scope : there = syms[into]
    BY <1>6, <2>3
  <2>5. CASE Top.how = "using"
    <3>1. PICK new \in Scope : new = CopyUsing(old, there)
      BY CopyUsingType
    <3>2. \A id \in Ids : /\ there[id] # NoSym => new[id] # NoSym
                          /\ \/ new[id] = there[id]
                             \/ old[id] # NoSym /\ new[id].val = old[id].val
      BY <3>1, CopyUsingFacts
    <3>3. syms' = [syms EXCEPT ![into] = new]
      BY <1>2, <2>1, <2>4, <2>5, <3>1
    <3>4. \A id \in Ids : /\ syms[into][id] # NoSym => new[id] # NoSym
                          /\ \/ new[id] = syms[into][id]
                             \/ old[id] # NoSym /\ new[id].val = old[id].val
      BY <2>4, <3>2
    <3>5. \E k \in 1 .. Depth - 1 : into = frames[k].imp
      BY <2>2, <2>3
    <3>. QED BY <2>3, <3>3, <3>4, <3>5
  <2>6. CASE Top.how # "using"
    <3>1. syms' = [syms EXCEPT ![into] = there]
      BY <1>6, <2>1, <2>3, <2>4, <2>6
    <3>. QED BY <2>2, <2>3, <2>4, <3>1
  <2>. QED BY <2>5, <2>6
<1>10. syms'[into] = new /\ \A k \in 0 .. Len(imports) : k # into => syms'[k] = syms[k]
  BY <1>6, <1>9
<1>11. ScopesDefined'
  <2>1. ASSUME NEW k \in 1 .. Depth - 1, NEW f, f = frames'[k], NEW e, e = syms'[frames'[k].imp]
        PROVE  DefinedSoFar(f, e)
    <3>1. f = frames[k] /\ f.file \in Files
      <4>1. frames[k] \in Frame
        BY <1>1, StayFacts, FrameTypes
      <4>. QED BY <1>1, <2>1, <4>1 DEF Frame
    <3>2. DefinedSoFar(f, syms[f.imp])
      BY <1>1, <3>1 DEF MangledInv, ScopesDefined
    <3>3. \A id \in Ids : syms[f.imp][id] # NoSym => e[id] # NoSym
      <4>1. f.imp \in 0 .. Len(imports)
        BY <1>4, <3>1
      <4>. QED BY <1>9, <1>10, <2>1, <4>1
    <3>4. \A m \in DOMAIN prog[f.file].decls : prog[f.file].decls[m].op \in Declares => prog[f.file].decls[m].id \in Ids
      BY <3>1, DeclaredIds, StayFacts
    <3>. QED BY <3>2, <3>3, <3>4 DEF DefinedSoFar
  <2>2. \A k \in 1 .. Depth - 1 : DefinedSoFar(frames[k], syms[frames[k].imp])'
    <3>. TAKE k \in 1 .. Depth - 1
    <3>1. PICK f, e : f = frames'[k] /\ e = syms'[frames'[k].imp]
      OBVIOUS
    <3>2. DefinedSoFar(f, e)
      BY <2>1, <3>1
    <3>. QED BY <1>3, <3>1, <3>2 DEF DefinedSoFar
  <2>. QED BY <1>1, <2>2 DEF ScopesDefined
<1>12. UnenteredEmpty'
  <2>1. ASSUME NEW k \in 2 .. Depth - 1 PROVE frames'[k].stage \notin {"enter", "return"}
    <3>1. k \in 1 .. Depth - 1
      BY <1>1
    <3>. QED BY <1>1, <3>1 DEF Registering
  <2>. QED BY <1>1, <2>1 DEF UnenteredEmpty
<1>13. ValuesDeclared'
  <2>1. ASSUME NEW k \in 1 .. Len(imports), NEW id \in Ids, NEW e, e = syms'[k]
        PROVE  FromFile(e, id)
    <3>1. k \in 0 .. Len(imports) /\ FromFile(syms[k], id)
      <4>1. k \in 0 .. Len(imports)
        BY <1>6
      <4>2. CASE k = i
        BY <1>2, <1>8, <4>2
      <4>3. CASE k # i
        BY <1>2, <4>3 DEF MangledInv, ValuesDeclared
      <4>. QED BY <4>1, <4>2, <4>3
    <3>2. CASE k # into
      BY <1>10, <2>1, <3>1, <3>2
    <3>3. CASE k = into
      <4>1. e = new /\ (\/ new[id] = syms[k][id]
                        \/ old[id] # NoSym /\ new[id].val = old[id].val)
        BY <1>9, <1>10, <2>1, <3>3
      <4>. QED BY <1>8, <3>1, <4>1 DEF FromFile
    <3>. QED BY <3>2, <3>3
  <2>2. \A k \in 1 .. Len(imports), id \in Ids : FromFile(syms[k], id)'
    <3>. TAKE k \in 1 .. Len(imports), id \in Ids
    <3>1. PICK e : e = syms'[k]
      OBVIOUS
    <3>2. FromFile(e, id)
      BY <2>1, <3>1
    <3>. QED BY <1>3, <3>1, <3>2 DEF FromFile, DeclaredBy
  <2>. QED BY <1>1, <2>2 DEF ValuesDeclared
<1>14. TopMangled'
  <2>1. Top'.stage # "pass2"
    BY <1>1 DEF Registering
  <2>. QED BY <2>1 DEF TopMangled, MangledSoFar
<1>15. FinishedMangled'
  <2>1. ASSUME NEW s \in 1 .. Len(imports), NEW id \in Ids, Finished(s)', imports'[s].prelude = "none",
               syms'[s][id] # NoSym, DeclaredBy(imports[s].file, id)'
        PROVE  syms'[s][id].llvm = <<prog'[imports'[s].file].clause, id>>
    <3>1. DOMAIN frames' = 1 .. Depth - 1 /\ DOMAIN frames = 1 .. Depth
      <4>1. FramesOK /\ FramesOK'
        BY DEF IInv, TypeOK, FramesOK
      <4>. QED BY <1>1, <4>1 DEF Depth, FramesOK
    <3>2. \A k \in 1 .. Depth - 1 : frames[k].imp # s
      BY <1>1, <2>1, <3>1 DEF Finished
    <3>3. syms'[s] = syms[s]
      BY <1>6, <1>9, <1>10, <3>2
    <3>4. DeclaredBy(imports[s].file, id)
      BY <1>3, <2>1 DEF DeclaredBy
    <3>5. CASE s # i
      <4>1. \A k \in 1 .. Depth : k \in 1 .. Depth - 1 \/ k = Depth
        BY <1>1
      <4>2. Finished(s)
        BY <1>2, <3>1, <3>2, <3>5, <4>1 DEF Finished, Top
      <4>. QED BY <1>3, <2>1, <3>3, <3>4, <4>2 DEF MangledInv, FinishedMangled
    <3>6. CASE s = i
      <4>1. file = imports[i].file
        <5>1. FileOf(i) = file
          BY <1>1, <1>2, <1>5 DEF SettledInv, FilesMatch, Top
        <5>. QED BY <1>2, <1>6, <5>1 DEF FileOf
      <4>2. Depth \in 2 .. Depth /\ Depth > 1
        BY <1>1
      <4>3. CASE Top.stage = "return"
        BY <1>2, <2>1, <3>3, <3>6, <4>2, <4>3 DEF MangledInv, UnenteredEmpty, Top
      <4>4. CASE Top.stage = "pass2"
        <5>1. PICK k \in DOMAIN prog[file].decls : prog[file].decls[k].op \in Declares /\ prog[file].decls[k].id = id
          BY <3>4, <3>6, <4>1 DEF DeclaredBy
        <5>2. MangledSoFar(Top, old)
          BY <1>2, <1>3, <2>1, <3>6, <4>2, TopScope
        <5>3. old[id].llvm = <<prog[file].clause, id>>
          BY <1>5, <1>7, <4>4, <5>1, <5>2 DEF MangledSoFar
        <5>. QED BY <1>2, <1>3, <3>3, <3>6, <4>1, <5>3
      <4>. QED BY <4>3, <4>4 DEF ReturnImport
    <3>. QED BY <3>5, <3>6
  <2>. QED BY <1>1, <2>1 DEF FinishedMangled
<1>. QED BY <1>11, <1>12, <1>13, <1>14, <1>15 DEF MangledInv

\* The two halves of the invariant hold when sem_analyse starts ...
LEMMA InitMangled == Init => MangledInv
<1>. SUFFICES ASSUME Init PROVE MangledInv
  OBVIOUS
<1>. DEFINE f == [imp |-> 0, file |-> Main, stage |-> "enter", pc |-> 1, savedName |-> NoName,
                  savedPending |-> 0, savedCount |-> 0, how |-> "main", alias |-> RuntimeName]
<1>1. frames = <<f>> /\ f.stage = "enter"
  BY DEF Init
<1>. HIDE DEF f
<1>2. Depth = 1 /\ frames[1].stage = "enter"
  BY <1>1 DEF Depth
<1>3. \A i \in 1 .. Len(imports) : FALSE
  BY DEF Init
<1>. QED BY <1>2, <1>3 DEF MangledInv, ScopesDefined, DefinedSoFar, UnenteredEmpty, ValuesDeclared, TopMangled, FinishedMangled

\* ... and every step keeps the second, too.
LEMMA NextMangled ==
  ASSUME IInv, IInv', SettledInv, NamesInv, MangledInv, [Next]_vars
  PROVE  MangledInv'
<1>1. ASSUME UNCHANGED <<prog, imports, syms, frames>> PROVE MangledInv'
  <2>0. Depth' = Depth /\ Top' = Top
    BY <1>1 DEF Depth, Top
  <2>1. Depth' = Depth /\ Top' = Top /\ \A i : Finished(i)' <=> Finished(i)
    BY <1>1, <2>0 DEF Finished
  <2>2. ScopesDefined' /\ UnenteredEmpty'
    BY <1>1, <2>1 DEF MangledInv, ScopesDefined, DefinedSoFar, UnenteredEmpty
  <2>3. ValuesDeclared'
    <3>1. \A s \in 1 .. Len(imports), id \in Ids : FromFile(syms[s], id) \/ (s = Top.imp /\ BundleAhead(Top, id))
      BY DEF MangledInv, ValuesDeclared
    <3>3. \A s, id : FromFile(syms[s], id) => FromFile(syms[s], id)'
      BY <1>1 DEF FromFile, DeclaredBy
    <3>4. \A id : BundleAhead(Top, id) => BundleAhead(Top, id)'
      BY <1>1, <2>1 DEF BundleAhead
    <3>. QED BY <1>1, <2>1, <3>1, <3>3, <3>4 DEF ValuesDeclared
  <2>4. TopMangled'
    BY <1>1, <2>1 DEF MangledInv, TopMangled, MangledSoFar
  <2>5. FinishedMangled'
    <3>2. SUFFICES ASSUME NEW s \in 1 .. Len(imports), NEW id \in Ids,
                          Finished(s), imports[s].prelude = "none", syms[s][id] # NoSym, DeclaredBy(imports[s].file, id)'
                   PROVE  syms[s][id].llvm = <<prog[imports[s].file].clause, id>>
      BY <1>1, <2>1 DEF FinishedMangled
    <3>3. DeclaredBy(imports[s].file, id)
      BY <1>1, <3>2 DEF DeclaredBy
    <3>. QED BY <3>2, <3>3 DEF MangledInv, FinishedMangled
  <2>. QED BY <2>2, <2>3, <2>4, <2>5 DEF MangledInv
<1>2. CASE Next
  <2>1. PackagesStay
    BY <1>2, NextKeepsPackages
  <2>2. CASE \/ AutoImportRuntime \/ AutoImportIntrinsics
             \/ HandleImport \/ HandleImportNamed \/ HandleImportUsing
    BY <2>1, <2>2, CallForms, AnalyseKeepsMangled
  <2>3. CASE IgnoredMain
    BY <1>1, <2>3 DEF IgnoredMain
  <2>. QED BY <1>2, <2>1, <2>2, <2>3, StagesKeepMangled, MainKeepsMangled, CopyKeepsMangled, RegisterKeepsMangled,
           EndPass1KeepsMangled, Pass2KeepsMangled, ReturnKeepsMangled, Zenon DEF Next
<1>3. CASE UNCHANGED vars
  BY <1>1, <1>3 DEF vars
<1>. QED BY <1>2, <1>3

\* What the invariant says of a package that is no longer on the call stack.
LEMMA MangledMeans ==
  ASSUME IInv, SettledInv, MangledInv
  PROVE  MangledWithOwnName
<1>1. SUFFICES ASSUME NEW i \in DOMAIN imports, NEW id \in Ids,
                      Finished(i), imports[i].prelude = "none", syms[i][id] # NoSym,
                      syms[i][id].val.file = imports[i].file, syms[i][id].val.kind \in Declares
               PROVE  syms[i][id].llvm = <<prog[imports[i].file].clause, id>>
  BY DEF MangledWithOwnName, Declares
<1>2. i \in 1 .. Len(imports)
  BY StayFacts
<1>3. i # Top.imp
  <2>1. Depth \in DOMAIN frames
    BY StayFacts, CallTypes DEF Depth, FramesOK
  <2>. QED BY <1>1, <2>1 DEF Finished, Top
<1>4. DeclaredBy(imports[i].file, id)
  BY <1>1, <1>2, <1>3 DEF MangledInv, ValuesDeclared, FromFile
<1>. QED BY <1>1, <1>2, <1>4 DEF MangledInv, FinishedMangled

\* The procedures, constants and bundles of a package are mangled with the
\* name of that package, whatever the imports of the program.
THEOREM MangledTheorem == Spec => []MangledWithOwnName
<1>1. Init => IInv /\ SettledInv /\ NamesInv /\ MangledInv
  BY InitInv, InitSettled, InitNames, InitMangled
<1>2. IInv /\ SettledInv /\ NamesInv /\ MangledInv /\ [Next]_vars => (IInv /\ SettledInv /\ NamesInv /\ MangledInv)'
  BY NextInv, NextSettled, NextKeepsNames, NextMangled
<1>3. IInv /\ SettledInv /\ NamesInv /\ MangledInv => MangledWithOwnName
  BY MangledMeans
<1>. QED BY <1>1, <1>2, <1>3, PTL DEF Spec

\* A bundle that is deferred waits for the call that declares it: the running
\* call resolves its own and nobody else's, and none outlives its package.
THEOREM PendingTheorem == Spec => []PendingStayHome
<1>1. Init => IInv /\ NamesInv
  BY InitInv, InitNames
<1>2. IInv /\ NamesInv /\ [Next]_vars => (IInv /\ NamesInv)'
  BY NextInv, NextKeepsNames
<1>3. ASSUME IInv, NamesInv PROVE PendingStayHome
  <2>1. Depth \in Nat \ {0} /\ DOMAIN frames = 1 .. Depth /\ DOMAIN pending = 1 .. Len(pending)
    BY <1>3, StayFacts DEF FramesOK, Depth
  <2>2. ASSUME NEW k \in 1 .. Len(pending)
        PROVE  \E h \in 1 .. Depth : /\ Registering(frames[h]) /\ pending[k].imp = frames[h].imp
                                     /\ h # Depth /\ Registering(Top) => k <= Top.savedPending
    <3>1. PICK h \in 1 .. Depth : /\ Registering(frames[h]) /\ OwnBundle(pending[k], frames[h])
                                  /\ \A m \in h + 1 .. Depth : Registering(frames[m]) => k <= frames[m].savedPending
      BY <1>3, <2>2 DEF NamesInv, PendingOwned
    <3>2. h # Depth => Depth \in h + 1 .. Depth
      BY <2>1
    <3>. QED BY <3>1, <3>2 DEF OwnBundle, Top
  <2>3. ASSUME Registering(Top), NEW k \in Deferred(Top) PROVE pending[k].imp = Top.imp
    <3>1. k \in 1 .. Len(pending) /\ ~ (k <= Top.savedPending)
      BY <1>3, <2>3, SnapshotFacts DEF Deferred
    <3>. QED BY <2>2, <2>3, <3>1 DEF Top
  <2>4. ASSUME ~ Registering(Top), Depth = 1 PROVE pending = <<>>
    <3>1. \A k \in 1 .. Len(pending) : FALSE
      BY <2>2, <2>4 DEF Top
    <3>. QED BY <1>3, <3>1, StayFacts
  <2>. QED BY <2>1, <2>2, <2>3, <2>4 DEF PendingStayHome
<1>. QED BY <1>1, <1>2, <1>3, PTL DEF Spec

-----------------------------------------------------------------------------
(* From here on, what the generator finds: first the registry, which keeps *)
(* what a package was registered as.                                       *)

Prelude(file) == file \in {RuntimeFile, IntrinsicsFile}

\* What a registered package keeps, besides its file and its role as a prelude.
FlagsStay ==
  \A k \in 1 .. Len(imports) : /\ imports'[k].isUsing = imports[k].isUsing
                               /\ imports'[k].ignored = imports[k].ignored
                               /\ imports'[k].entered = imports[k].entered
                               /\ imports[k].used => imports'[k].used

\* ... when it is marked or renamed ...
LEMMA FieldKeepsFlags ==
  ASSUME TypeOK, NEW i,
         \/ imports' = [imports EXCEPT ![i].used = TRUE]
         \/ \E name \in Names : imports' = [imports EXCEPT ![i].name = name]
  PROVE  FlagsStay /\ Len(imports') = Len(imports)
<1>. DEFINE Same(e, p) == /\ e.isUsing = p.isUsing /\ e.ignored = p.ignored /\ e.entered = p.entered
                          /\ p.used => e.used
<1>1. imports \in Seq(Package) /\ Len(imports) \in Nat
  BY DEF TypeOK
<1>2. PICK e : /\ imports' = [imports EXCEPT ![i] = e]
               /\ i \in 1 .. Len(imports) => e \in Package /\ Same(e, imports[i])
  <2>1. i \in 1 .. Len(imports) => imports[i] \in Package
    BY <1>1
  <2>2. CASE imports' = [imports EXCEPT ![i].used = TRUE]
    <3>. DEFINE e == [imports[i] EXCEPT !.used = TRUE]
    <3>1. i \in 1 .. Len(imports) => e \in Package /\ Same(e, imports[i])
      BY <2>1 DEF Package
    <3>2. imports' = [imports EXCEPT ![i] = e]
      BY <2>2
    <3>. HIDE DEF e
    <3>. QED BY <3>1, <3>2
  <2>3. ASSUME NEW name \in Names, imports' = [imports EXCEPT ![i].name = name]
        PROVE  \E e : /\ imports' = [imports EXCEPT ![i] = e]
                      /\ i \in 1 .. Len(imports) => e \in Package /\ Same(e, imports[i])
    <3>. DEFINE e == [imports[i] EXCEPT !.name = name]
    <3>1. i \in 1 .. Len(imports) => e \in Package /\ Same(e, imports[i])
      BY <2>1 DEF Package
    <3>2. imports' = [imports EXCEPT ![i] = e]
      BY <2>3
    <3>. HIDE DEF e
    <3>. QED BY <3>1, <3>2
  <2>. QED BY <2>2, <2>3
<1>3. /\ Len(imports') = Len(imports)
      /\ \A k \in 1 .. Len(imports) : imports'[k] = IF k = i THEN e ELSE imports[k]
  BY ONLY <1>1, <1>2, ReplaceAnywhere
<1>. QED BY <1>2, <1>3 DEF FlagsStay

\* ... and so in every step.
LEMMA NextKeepsFlags ==
  ASSUME IInv, Next
  PROVE  FlagsStay
<1>. USE StayFacts
<1>1. Len(imports) \in Nat
  BY SequenceTypes
<1>2. CASE imports' = imports
  BY <1>2 DEF FlagsStay
<1>3. CASE \E i : imports' = [imports EXCEPT ![i].used = TRUE]
  BY <1>3, FieldKeepsFlags
<1>4. CASE \E e : imports' = Append(imports, e)
  BY <1>1, <1>4 DEF FlagsStay
<1>5. CASE ReturnImport
  <2>1. CASE imports' = [imports EXCEPT ![Top.imp].name = Top.alias]
    <3>1. Top.alias \in Names
      BY DEF Frame
    <3>. QED BY <2>1, <3>1, FieldKeepsFlags
  <2>. QED BY <1>2, <1>5, <2>1 DEF ReturnImport
<1>6. CASE FinishTrack
  <2>1. imports' = [i \in 1 .. Len(imports) |->
                      IF imports[i].direct THEN imports[i] ELSE [imports[i] EXCEPT !.used = TRUE]]
    BY <1>6 DEF FinishTrack
  <2>2. \A i \in 1 .. Len(imports) : LET e == [imports[i] EXCEPT !.used = TRUE]
                                     IN  /\ e.isUsing = imports[i].isUsing /\ e.ignored = imports[i].ignored
                                         /\ e.entered = imports[i].entered /\ e.used
    <3>. TAKE i \in 1 .. Len(imports)
    <3>1. imports[i] \in Package
      OBVIOUS
    <3>. QED BY ONLY <3>1 DEF Package
  <2>. QED BY <2>1, <2>2 DEF FlagsStay
<1>7. CASE AutoImportRuntime \/ AutoImportIntrinsics \/ HandleImport \/ HandleImportNamed \/ HandleImportUsing
  BY <1>4, <1>7, Zenon DEF AutoImportRuntime, AutoImportIntrinsics, HandleImport, HandleImportNamed, HandleImportUsing, Analyse
<1>8. CASE TrackUsage
  BY <1>2, <1>3, <1>8, Zenon DEF TrackUsage
<1>9. CASE AnalyseDecl \/ AnalyseVar
  BY <1>2, <1>3, <1>9, Zenon DEF AnalyseDecl, AnalyseVar, EvalRef
<1>10. CASE \/ EnterPass1 \/ SkipPrelude \/ CopyRuntimeSymbols \/ PackageClause \/ ImportFails \/ ImportCycle
            \/ RegisterDecl \/ RegisterVar \/ RegisterGroup \/ EndPass1 \/ SkipImport \/ AnalyseGroup
            \/ CheckPass1 \/ IgnoredMain \/ CheckPass2
  BY <1>2, <1>10, Zenon DEF EnterPass1, SkipPrelude, CopyRuntimeSymbols, PackageClause, ImportFails, ImportCycle,
     RegisterDecl, RegisterVar, RegisterGroup, EndPass1, SkipImport, AnalyseGroup, CheckPass1, IgnoredMain, CheckPass2
<1>. QED BY <1>5, <1>6, <1>7, <1>8, <1>9, <1>10, Zenon DEF Next

\* The steps that stay in their call, and write only the frame on top.
Moves == \E st \in Stages \ {"enter"}, n \in Nat, from \in Nat : frames' = MoveTo(st, n, from)
Calls == AutoImportRuntime \/ AutoImportIntrinsics \/ HandleImport \/ HandleImportNamed \/ HandleImportUsing

\* A step calls, returns, moves, or ends an ignored main program.
LEMMA NextShapes ==
  ASSUME IInv, Next
  PROVE  \/ Calls \/ ReturnImport
         \/ IgnoredMain
         \/ Moves /\ Len(imports') = Len(imports) /\ (buildIgnored' = buildIgnored \/ EnterPass1)
<1>. USE StayFacts, StepForms
<1>1. \A st \in {"runtime", "intrinsics", "copy", "clause", "pass1", "check", "pass2", "track", "return"} :
        frames' = Goto(st) \/ frames' = GotoAt(st, 1) => Moves
  <2>. TAKE st \in {"runtime", "intrinsics", "copy", "clause", "pass1", "check", "pass2", "track", "return"}
  <2>1. st \in Stages \ {"enter"}
    BY DEF Stages
  <2>. QED BY <2>1 DEF Moves
<1>2. ASSUME frames' = NextDecl, Top.stage \in {"pass1", "pass2", "track"} PROVE Moves
  <2>1. Top.stage \in Stages \ {"enter"}
    BY <1>2
  <2>. QED BY <1>2, <2>1 DEF Moves
<1>3. CASE EnterPass1
  <2>1. CASE buildIgnored'
    BY <1>1, <1>3, <2>1 DEF EnterPass1
  <2>2. CASE ~ buildIgnored'
    <3>1. frames' = MoveTo("runtime", Top.pc, Len(pending)) /\ "runtime" \in Stages \ {"enter"}
      BY <1>3, <2>2, MoveForms DEF EnterPass1, Stages
    <3>2. Len(pending) \in Nat
      BY SnapshotFacts
    <3>. QED BY <1>3, <3>1, <3>2 DEF Moves, EnterPass1
  <2>. QED BY <1>3, <2>1, <2>2 DEF EnterPass1
<1>4. CASE SkipPrelude \/ CopyRuntimeSymbols \/ PackageClause \/ EndPass1
  <2>1. Moves
    BY <1>1, <1>4, Zenon DEF SkipPrelude, CopyRuntimeSymbols, PackageClause, EndPass1
  <2>. QED BY <1>4, <2>1 DEF SkipPrelude, CopyRuntimeSymbols, PackageClause, EndPass1
<1>5. CASE CheckPass1 \/ CheckPass2
  <2>1. Moves
    BY <1>1, <1>5, Zenon DEF CheckPass1, CheckPass2
  <2>. QED BY <1>5, <2>1 DEF CheckPass1, CheckPass2
<1>6. CASE FinishTrack
  <2>1. Moves
    BY <1>1, <1>6 DEF FinishTrack
  <2>2. Len(imports') = Len(imports)
    <3>1. DOMAIN imports = 1 .. Len(imports) /\ Len(imports) \in Nat
      BY DEF IInv, TypeOK
    <3>. QED BY <1>6, <3>1 DEF FinishTrack
  <2>. QED BY <1>6, <2>1, <2>2 DEF FinishTrack
<1>7. CASE \/ ImportFails \/ ImportCycle \/ RegisterDecl \/ RegisterVar \/ RegisterGroup \/ SkipImport \/ AnalyseGroup
  <2>1. Moves
    BY <1>2, <1>7 DEF ImportFails, ImportCycle, AtImport, RegisterDecl, RegisterVar, RegisterGroup, SkipImport, AnalyseGroup
  <2>. QED BY <1>7, <2>1 DEF ImportFails, ImportCycle, RegisterDecl, RegisterVar, RegisterGroup, SkipImport, AnalyseGroup
<1>8. CASE AnalyseDecl \/ AnalyseVar \/ TrackUsage
  <2>1. Moves
    BY <1>2, <1>8 DEF AnalyseDecl, AnalyseVar, TrackUsage
  <2>2. CASE imports' = imports
    BY <1>8, <2>1, <2>2 DEF AnalyseDecl, AnalyseVar, TrackUsage
  <2>3. CASE \E i : imports' = [imports EXCEPT ![i].used = TRUE]
    BY <1>8, <2>1, <2>3, FieldKeepsFlags DEF AnalyseDecl, AnalyseVar, TrackUsage
  <2>. QED BY <1>8, <2>2, <2>3, Zenon DEF AnalyseDecl, AnalyseVar, TrackUsage, EvalRef
<1>. QED BY <1>3, <1>4, <1>5, <1>6, <1>7, <1>8, Zenon DEF Next, Calls

\* What a package is registered as: a prelude is one of the two files, a package
\* is build-ignored or analysed; the call for a using import is for one that
\* says so; nothing is registered before the main program enters its pass 1.
RegistryInv ==
  /\ \A i \in 1 .. Len(imports) : /\ imports[i].prelude # "none" => Prelude(imports[i].file)
                                  /\ imports[i].ignored \/ imports[i].entered
  /\ \A n \in 2 .. Depth : frames[n].how = "using" => imports[frames[n].imp].isUsing
  /\ (Depth = 1 /\ Top.stage = "enter") \/ buildIgnored => imports = <<>>

\* The package and the frame of a call.
LEMMA CalledPackage ==
  ASSUME IInv, NEW pkg \in Package, NEW here \in Seq(Frame), NEW how, NEW alias, NEW stage,
         Analyse(pkg, here, how, alias, stage)
  PROVE  /\ Len(imports') = Len(imports) + 1 /\ Len(imports) \in Nat
         /\ imports'[Len(imports) + 1].file = pkg.file /\ imports'[Len(imports) + 1].prelude = pkg.prelude
         /\ imports'[Len(imports) + 1].ignored = pkg.ignored /\ imports'[Len(imports) + 1].isUsing = pkg.isUsing
         /\ imports'[Len(imports) + 1].entered = (stage = "enter")
         /\ Top'.how = how
<1>. DEFINE e == [pkg EXCEPT !.entered = (stage = "enter")]
            f == [imp |-> Len(imports) + 1, file |-> pkg.file, stage |-> stage, pc |-> 1,
                  savedName |-> pkgName, savedPending |-> 0, savedCount |-> Len(scopes),
                  how |-> how, alias |-> alias]
<1>1. /\ e.file = pkg.file /\ e.prelude = pkg.prelude /\ e.ignored = pkg.ignored /\ e.isUsing = pkg.isUsing
      /\ e.entered = (stage = "enter") /\ f.how = how
  BY DEF Package
<1>2. imports' = Append(imports, e) /\ frames' = Append(here, f)
  BY DEF Analyse
<1>3. imports \in Seq(Package)
  BY StayFacts
<1>. HIDE DEF e, f
<1>4. Len(imports') = Len(imports) + 1 /\ Len(imports) \in Nat /\ imports'[Len(imports) + 1] = e
  BY <1>2, <1>3
<1>5. Top' = f
  BY <1>2 DEF Top, Depth
<1>. QED BY <1>1, <1>4, <1>5

LEMMA NewPackage ==
  ASSUME IInv, Calls, NEW n, n = Len(imports) + 1
  PROVE  /\ imports'[n].prelude # "none" => Prelude(imports'[n].file)
         /\ imports'[n].ignored \/ imports'[n].entered
         /\ Top'.how = "using" => imports'[n].isUsing
         /\ Registering(Top) /\ buildIgnored' = buildIgnored
<1>. USE StayFacts
<1>0. \A st \in {"intrinsics", "copy"} : Goto(st) \in Seq(Frame)
  <2>. TAKE st \in {"intrinsics", "copy"}
  <2>1. st \in Stages /\ Goto(st) = MoveTo(st, Top.pc, Top.savedPending) /\ Top.pc \in Nat /\ Top.savedPending \in Nat
    BY StepForms
  <2>. QED BY <2>1, MoveType
<1>1. ASSUME NEW file \in Files PROVE Parsed(file) \in Package /\ Parsed(file).file = file
                                      /\ Parsed(file).prelude = "none" /\ Parsed(file).ignored = prog[file].ignore
                                      /\ Parsed(file).isUsing = FALSE
  BY ParsedType DEF Parsed
<1>2. CASE AutoImportRuntime
  <2>. DEFINE pkg == [Parsed(RuntimeFile) EXCEPT !.prelude = "runtime", !.isUsing = TRUE, !.name = RuntimeName]
  <2>1. RuntimeFile \in Files /\ RuntimeName \in Names
    BY <1>2, ConstantsAssumption DEF AutoImportRuntime, CanImportPrelude
  <2>2. pkg \in Package /\ pkg.file = RuntimeFile
    <3>1. Parsed(RuntimeFile) \in Package /\ Parsed(RuntimeFile).file = RuntimeFile
      BY <1>1, <2>1
    <3>. QED BY <2>1, <3>1 DEF Package
  <2>3. Analyse(pkg, Goto("intrinsics"), "prelude", RuntimeName, "enter")
    BY <1>2 DEF AutoImportRuntime
  <2>. HIDE DEF pkg
  <2>4. imports'[n].entered = TRUE /\ Top'.how = "prelude" /\ imports'[n].file = RuntimeFile
    BY <1>0, <2>2, <2>3, CalledPackage
  <2>. QED BY <1>2, <2>4 DEF Prelude, AutoImportRuntime, Registering
<1>3. CASE AutoImportIntrinsics
  <2>. DEFINE pkg == [Parsed(IntrinsicsFile) EXCEPT !.prelude = "intrinsics", !.name = IntrinsicsName]
  <2>1. IntrinsicsFile \in Files /\ IntrinsicsName \in Names
    BY <1>3, ConstantsAssumption DEF AutoImportIntrinsics, CanImportPrelude
  <2>2. pkg \in Package /\ pkg.file = IntrinsicsFile
    <3>1. Parsed(IntrinsicsFile) \in Package /\ Parsed(IntrinsicsFile).file = IntrinsicsFile
      BY <1>1, <2>1
    <3>. QED BY <2>1, <3>1 DEF Package
  <2>3. Analyse(pkg, Goto("copy"), "prelude", IntrinsicsName, "enter")
    BY <1>3 DEF AutoImportIntrinsics
  <2>. HIDE DEF pkg
  <2>4. imports'[n].entered = TRUE /\ Top'.how = "prelude" /\ imports'[n].file = IntrinsicsFile
    BY <1>0, <2>2, <2>3, CalledPackage
  <2>. QED BY <1>3, <2>4 DEF Prelude, AutoImportIntrinsics, Registering
<1>4. CASE HandleImport \/ HandleImportNamed \/ HandleImportUsing
  <2>1. CanImport /\ Decl.path \in Files /\ buildIgnored' = buildIgnored
    BY <1>4 DEF HandleImport, HandleImportNamed, HandleImportUsing, CanImport
  <2>2. NextDecl \in Seq(Frame) /\ Registering(Top) /\ IsDirect \in BOOLEAN
    <3>1. NextDecl = MoveTo(Top.stage, Top.pc + 1, Top.savedPending) /\ Top.pc + 1 \in Nat /\ Top.savedPending \in Nat
      BY StepForms
    <3>. QED BY <2>1, <3>1, MoveType, ImportFacts DEF IsDirect
  <2>. DEFINE plain == [Parsed(Decl.path) EXCEPT !.direct = IsDirect]
              using == [Parsed(Decl.path) EXCEPT !.direct = IsDirect, !.isUsing = TRUE]
  <2>3. /\ plain \in Package /\ plain.prelude = "none" /\ plain.ignored = prog[Decl.path].ignore
        /\ using \in Package /\ using.prelude = "none" /\ using.isUsing = TRUE
    <3>1. /\ Parsed(Decl.path) \in Package /\ Parsed(Decl.path).prelude = "none"
          /\ Parsed(Decl.path).ignored = prog[Decl.path].ignore
      BY <1>1, <2>1
    <3>. QED BY <2>2, <3>1 DEF Package
  <2>4. CASE HandleImport
    <3>1. Analyse(plain, NextDecl, "import", Decl.alias, "enter")
      BY <2>4 DEF HandleImport
    <3>. HIDE DEF plain, using
    <3>2. imports'[n].entered = TRUE /\ Top'.how = "import" /\ imports'[n].prelude = "none"
      BY <2>2, <2>3, <3>1, CalledPackage
    <3>. QED BY <2>1, <2>2, <3>2
  <2>5. CASE HandleImportNamed
    <3>. DEFINE stage == IF prog[Decl.path].ignore THEN "return" ELSE "enter"
    <3>1. Analyse(plain, NextDecl, "named", Decl.alias, stage)
      BY <2>5 DEF HandleImportNamed
    <3>2. (stage = "enter") = ~ prog[Decl.path].ignore /\ prog[Decl.path].ignore \in BOOLEAN
      <4>1. prog[Decl.path].ignore \in BOOLEAN
        BY <2>1 DEF TypeOK, SourceType
      <4>. QED BY <4>1
    <3>. HIDE DEF plain, using, stage
    <3>3. /\ imports'[n].entered = (stage = "enter") /\ Top'.how = "named" /\ imports'[n].prelude = "none"
          /\ imports'[n].ignored = prog[Decl.path].ignore
      BY <2>2, <2>3, <3>1, CalledPackage
    <3>. QED BY <2>1, <2>2, <3>2, <3>3
  <2>6. CASE HandleImportUsing
    <3>1. Analyse(using, NextDecl, "using", Decl.alias, "enter")
      BY <2>6 DEF HandleImportUsing
    <3>. HIDE DEF plain, using
    <3>2. imports'[n].entered = TRUE /\ imports'[n].isUsing = TRUE /\ imports'[n].prelude = "none"
      BY <2>2, <2>3, <3>1, CalledPackage
    <3>. QED BY <2>1, <2>2, <3>2
  <2>. QED BY <1>4, <2>4, <2>5, <2>6
<1>. QED BY <1>2, <1>3, <1>4 DEF Calls

\* The call of a package, in the terms of the call stack.
LEMMA CalledFrames ==
  ASSUME IInv, Calls
  PROVE  /\ Depth' = Depth + 1 /\ Depth \in Nat \ {0} /\ Len(imports') = Len(imports) + 1 /\ Len(imports) \in Nat
         /\ \A k \in 1 .. Depth + 1 : k \in 1 .. Depth \/ k = Depth + 1
         /\ \A k \in 1 .. Depth : /\ frames'[k].imp = frames[k].imp /\ frames'[k].how = frames[k].how
                                  /\ frames'[k].file = frames[k].file
         /\ Top' = frames'[Depth + 1] /\ Top'.imp = Len(imports) + 1 /\ Top'.stage \in {"enter", "return"}
         /\ Registering(Top)
         /\ syms' = [s \in 0 .. Len(imports) + 1 |-> IF s = Len(imports) + 1 THEN EmptyScope ELSE syms[s]]
<1>1. PICK pkg \in Package, st \in {"intrinsics", "copy", "pass1"}, n \in Nat \ {0},
           how \in {"prelude", "import", "named", "using"}, alias \in Names, stage \in {"enter", "return"} :
        /\ Analyse(pkg, MoveTo(st, n, Top.savedPending), how, alias, stage)
        /\ Registering(Top) /\ st \in Stages
  BY CallForms DEF Calls
<1>2. n \in Nat
  OBVIOUS
<1>3. /\ Depth' = Depth + 1 /\ Depth \in Nat \ {0} /\ Len(imports') = Len(imports) + 1 /\ Len(imports) \in Nat
      /\ \A k \in 1 .. Depth + 1 : k \in 1 .. Depth \/ k = Depth + 1
      /\ \A k \in 1 .. Depth : /\ frames'[k].imp = frames[k].imp /\ frames'[k].how = frames[k].how
                               /\ frames'[k].file = frames[k].file
      /\ Top' = frames'[Depth + 1] /\ Top'.imp = Len(imports) + 1 /\ Top'.stage = stage
  BY <1>1, <1>2, PushedFrames
<1>4. syms' = [s \in 0 .. Len(imports) + 1 |-> IF s = Len(imports) + 1 THEN EmptyScope ELSE syms[s]]
  BY <1>1 DEF Analyse
<1>. QED BY <1>1, <1>3, <1>4

LEMMA NextRegistry ==
  ASSUME IInv, IInv', SettledInv, RegistryInv, PackagesStay, FlagsStay, Next
  PROVE  RegistryInv'
<1>. USE StayFacts
<1>0. \A n \in 2 .. Depth : n \in 1 .. Depth /\ frames[n].imp \in 1 .. Len(imports)
  BY DEF CallsInv
<1>1. CASE Len(imports') = Len(imports)
  <2>1. \A i \in 1 .. Len(imports') : /\ imports'[i].prelude # "none" => Prelude(imports'[i].file)
                                      /\ imports'[i].ignored \/ imports'[i].entered
    BY <1>1 DEF PackagesStay, FlagsStay, RegistryInv
  <2>2. imports = <<>> => imports' = <<>>
    <3>1. imports' \in Seq(Package)
      BY DEF IInv, TypeOK
    <3>. QED BY <1>1, <3>1
  <2>3. ASSUME Depth' <= Depth, \A n \in 1 .. Depth' : frames'[n].imp = frames[n].imp /\ frames'[n].how = frames[n].how,
               (Depth' = 1 /\ Top'.stage = "enter") \/ buildIgnored' => imports = <<>>
        PROVE  RegistryInv'
    <3>1. ASSUME NEW n \in 2 .. Depth', frames'[n].how = "using" PROVE imports'[frames'[n].imp].isUsing
      <4>1. n \in 2 .. Depth /\ n \in 1 .. Depth' /\ Depth' \in Nat
        <5>1. Depth' \in Nat
          BY DEF IInv, TypeOK, Depth
        <5>. QED BY <2>3, <5>1
      <4>. QED BY <1>0, <2>3, <3>1, <4>1 DEF RegistryInv, FlagsStay
    <3>. QED BY <2>1, <2>2, <2>3, <3>1 DEF RegistryInv
  <2>4. CASE ReturnImport
    <3>1. Top'.stage # "enter" /\ buildIgnored' = buildIgnored
      BY <2>4, PoppedFrames DEF ReturnImport, Registering
    <3>. QED BY <2>3, <2>4, <3>1, PoppedFrames DEF RegistryInv
  <2>5. CASE IgnoredMain
    <3>1. Depth' = Depth /\ Top' = Top /\ frames' = frames /\ buildIgnored' = buildIgnored
      BY <2>5 DEF IgnoredMain, Depth, Top
    <3>. QED BY <2>3, <3>1 DEF RegistryInv
  <2>6. CASE Moves /\ (buildIgnored' = buildIgnored \/ EnterPass1)
    <3>1. PICK st \in Stages \ {"enter"}, n \in Nat, from \in Nat : frames' = MoveTo(st, n, from)
      BY <2>6 DEF Moves
    <3>2. /\ Depth' = Depth /\ Top'.stage = st
          /\ \A k \in 1 .. Depth : frames'[k].imp = frames[k].imp /\ frames'[k].how = frames[k].how
      BY <3>1, MovedFrames
    <3>3. CASE buildIgnored' = buildIgnored
      BY <2>3, <3>2, <3>3 DEF RegistryInv
    <3>4. CASE EnterPass1
      <4>1. buildIgnored' => Depth = 1 /\ Top.stage = "enter"
        <5>1. SUFFICES ASSUME buildIgnored' PROVE Depth = 1
          BY <3>4 DEF EnterPass1
        <5>2. ~ buildIgnored /\ regDepth = Depth - 1
          BY <3>4, Going DEF EnterPass1, IInv, ControlInv, ScopesMatchCalls, Registering
        <5>3. regDepth = 0
          BY <3>4, <5>1, <5>2, Zenon DEF EnterPass1
        <5>. QED BY <5>2, <5>3
      <4>. QED BY <2>3, <3>2, <4>1 DEF RegistryInv
    <3>. QED BY <2>6, <3>3, <3>4
  <2>7. CASE Calls
    BY <1>1, <2>7, CalledFrames
  <2>. QED BY <2>4, <2>5, <2>6, <2>7, NextShapes
<1>2. CASE Calls
  <2>1. /\ Depth' = Depth + 1 /\ Len(imports') = Len(imports) + 1 /\ Len(imports) \in Nat
        /\ \A k \in 1 .. Depth + 1 : k \in 1 .. Depth \/ k = Depth + 1
        /\ \A k \in 1 .. Depth : frames'[k].imp = frames[k].imp /\ frames'[k].how = frames[k].how
        /\ Top' = frames'[Depth + 1] /\ Top'.imp = Len(imports) + 1
    BY <1>2, CalledFrames
  <2>. DEFINE m == Len(imports) + 1
  <2>2. /\ imports'[m].prelude # "none" => Prelude(imports'[m].file)
        /\ imports'[m].ignored \/ imports'[m].entered
        /\ Top'.how = "using" => imports'[m].isUsing
        /\ Registering(Top) /\ buildIgnored' = buildIgnored
    BY <1>2, NewPackage
  <2>3. ~ buildIgnored'
    <3>1. Top.stage # "return"
      BY <2>2 DEF Registering
    <3>. QED BY <2>2, <3>1, Going
  <2>4. Depth' # 1
    BY <2>1
  <2>5. \A i \in 1 .. m : i \in 1 .. Len(imports) \/ i = m
    BY <2>1
  <2>6. \A i \in 1 .. m : /\ imports'[i].prelude # "none" => Prelude(imports'[i].file)
                          /\ imports'[i].ignored \/ imports'[i].entered
    BY <2>2, <2>5 DEF PackagesStay, FlagsStay, RegistryInv
  <2>7. ASSUME NEW n \in 2 .. Depth + 1, frames'[n].how = "using" PROVE imports'[frames'[n].imp].isUsing
    <3>1. n \in 2 .. Depth \/ n = Depth + 1
      BY <2>1
    <3>2. CASE n = Depth + 1
      BY <2>1, <2>2, <2>7, <3>2
    <3>3. CASE n \in 2 .. Depth
      BY <1>0, <2>1, <2>7, <3>3 DEF RegistryInv, FlagsStay
    <3>. QED BY <3>1, <3>2, <3>3
  <2>. QED BY <2>1, <2>3, <2>4, <2>6, <2>7 DEF RegistryInv
<1>3. Len(imports') = Len(imports) \/ Calls
  BY NextShapes, PoppedFrames DEF IgnoredMain
<1>. QED BY <1>1, <1>2, <1>3

-----------------------------------------------------------------------------
(* Where what a scope says of a name comes from.                           *)

\* The file has such a declaration of the name.
DeclaresAs(file, kind, id) ==
  \E k \in DOMAIN prog[file].decls : prog[file].decls[k].op = kind /\ prog[file].decls[k].id = id
Generated == {"proc", "var"}

\* What a step does to an entry: it keeps its value and its name, ...
Kept(old, new) == new # NoSym => old # NoSym /\ new.val = old.val /\ new.llvm = old.llvm
\* ... writes what the file of the scope declares, ...
OwnEntry(e, file, id) ==
  e # NoSym /\ e.val.kind \in Generated => e.val.file = file /\ DeclaresAs(file, e.val.kind, id)
\* ... or takes the value of package j, and the name if it has one.
TakenFrom(e, i, j, id) ==
  /\ j \in 1 .. Len(imports) /\ j # i /\ syms[j][id] # NoSym
  /\ e.val = syms[j][id].val /\ (syms[j][id].llvm # NoLlvm => e.llvm = syms[j][id].llvm)
  /\ imports[j].prelude # "none" \/ (imports[j].isUsing /\ Finished(j)')
\* Only the entry of id is another one.
OnlyAt(old, new, id) ==
  \A j \in Ids : j # id => ((new[j] = NoSym) <=> (old[j] = NoSym)) /\ Kept(old[j], new[j])
\* A step writes the scope of at most one call on the stack.
Writes ==
  \E i \in 0 .. Len(imports), new \in Scope :
    /\ syms' = [syms EXCEPT ![i] = new] /\ \E n \in 1 .. Depth : frames[n].imp = i
    /\ \A id \in Ids :
         /\ syms[i][id] # NoSym => new[id] # NoSym
         /\ \/ Kept(syms[i][id], new[id])
            \/ OwnEntry(new[id], FileOf(i), id)
            \/ \E j \in 1 .. Len(imports) : TakenFrom(new[id], i, j, id)

\* The executing call.
LEMMA HereFacts ==
  ASSUME IInv, SettledInv, MangledInv
  PROVE  /\ CurrentScope = Top.imp /\ Top.imp \in 0 .. Len(imports) /\ syms[Top.imp] \in Scope
         /\ \E n \in 1 .. Depth : frames[n].imp = Top.imp
         /\ Top.file = FileOf(Top.imp) /\ Top.file \in Files
         /\ [syms EXCEPT ![Top.imp] = syms[Top.imp]] = syms
<1>1. Depth \in 1 .. Depth /\ Top.file \in Files
  BY CallTypes, StayFacts DEF Frame
<1>. QED BY <1>1, TopScope DEF SettledInv, FilesMatch, Top

\* A step that writes no scope.
LEMMA NoWrite ==
  ASSUME IInv, SettledInv, MangledInv, syms' = syms
  PROVE  Writes
<1>1. PICK i \in 0 .. Len(imports), old \in Scope : i = Top.imp /\ old = syms[i] /\ \E n \in 1 .. Depth : frames[n].imp = i
  BY HereFacts
<1>2. syms' = [syms EXCEPT ![i] = old]
  BY <1>1, HereFacts
<1>3. \A id \in Ids : Kept(syms[i][id], old[id])
  BY <1>1 DEF Kept
<1>. QED BY <1>1, <1>2, <1>3 DEF Writes

\* The value of the declaration at hand is written.
LEMMA OwnWrite ==
  ASSUME IInv, SettledInv, MangledInv, AtDecl,
         NEW i, i = CurrentScope, NEW new \in Scope, syms' = [syms EXCEPT ![i] = new],
         NEW id \in Ids, Decl.id = id, new[id] # NoSym, new[id].val.file = Top.file,
         new[id].val.kind \in Generated => Decl.op = new[id].val.kind,
         OnlyAt(syms[i], new, id)
  PROVE  Writes
<1>1. i = Top.imp /\ i \in 0 .. Len(imports) /\ \E n \in 1 .. Depth : frames[n].imp = i
  BY HereFacts
<1>2. PICK file \in Files : file = Top.file /\ file = FileOf(i)
  BY <1>1, HereFacts
<1>3. Decl = prog[file].decls[Top.pc] /\ Top.pc \in DOMAIN prog[file].decls
  <2>1. prog[file].decls \in Seq(DeclType) /\ Top.pc \in Nat \ {0}
    BY StayFacts DEF TypeOK, SourceType
  <2>. QED BY <1>2, <2>1 DEF AtDecl, Decl, Decls
<1>4. OwnEntry(new[id], file, id)
  BY <1>2, <1>3 DEF OwnEntry, DeclaresAs
<1>. QED BY <1>1, <1>2, <1>4 DEF Writes, OnlyAt

\* Pass 1 writes declarations, ...
LEMMA RegisterWrites ==
  ASSUME IInv, SettledInv, MangledInv, RegisterDecl \/ RegisterVar \/ RegisterGroup
  PROVE  Writes
<1>1. PICK i \in 0 .. Len(imports), old \in Scope, file \in Files : i = CurrentScope /\ old = syms[i] /\ file = Top.file
  BY HereFacts
<1>2. PICK id \in Ids : id = Decl.id
  BY StayFacts, DeclFields DEF RegisterDecl, RegisterVar, RegisterGroup
<1>3. AtDecl
  BY DEF RegisterDecl, RegisterVar, RegisterGroup
<1>4. ASSUME NEW kind \in {"proc", "group", "null"}, kind = "proc" => Decl.op = "proc", NEW p,
             syms' = [syms EXCEPT ![i] = SetPrivate(AddEntry(old, id, [file |-> file, id |-> id, kind |-> kind]), id, p)]
      PROVE  Writes
  <2>. DEFINE v == [file |-> file, id |-> id, kind |-> kind]
  <2>1. v \in Values /\ v.file = file /\ v.kind = kind
    BY DEF Values
  <2>2. syms' = [syms EXCEPT ![i] = SetPrivate(AddEntry(old, id, v), id, p)]
    BY <1>4
  <2>. HIDE DEF v
  <2>3. PICK mid \in Scope : /\ mid = AddEntry(old, id, v) /\ mid[id] # NoSym /\ mid[id].val = v
                             /\ \A j \in Ids : j # id => mid[j] = old[j]
    BY <2>1, AddEntryFacts
  <2>4. PICK new \in Scope : /\ new = SetPrivate(mid, id, p)
                             /\ \A j \in Ids : /\ (new[j] = NoSym) <=> (mid[j] = NoSym)
                                               /\ mid[j] # NoSym => new[j].val = mid[j].val /\ new[j].llvm = mid[j].llvm
    BY SetPrivateFacts
  <2>5. new[id] # NoSym /\ new[id].val = v
    BY <2>3, <2>4
  <2>6. OnlyAt(syms[i], new, id)
    BY <1>1, <2>3, <2>4 DEF Kept, OnlyAt
  <2>7. syms' = [syms EXCEPT ![i] = new]
    BY <2>2, <2>3, <2>4
  <2>8. new[id].val.kind \in Generated => Decl.op = new[id].val.kind
    BY <1>4, <2>1, <2>5 DEF Generated
  <2>9. new[id].val.file = Top.file
    BY <1>1, <2>1, <2>5
  <2>. QED BY <1>1, <1>2, <1>3, <2>5, <2>6, <2>7, <2>8, <2>9, OwnWrite
<1>5. CASE RegisterDecl
  <2>1. PICK kind \in {"proc", "group", "null"} : kind = IF Decl.op = "proc" THEN "proc" ELSE "null"
    OBVIOUS
  <2>2. syms' = [syms EXCEPT ![i] = SetPrivate(AddEntry(old, id, [file |-> file, id |-> id, kind |-> kind]), id, Decl.priv)]
    BY <1>1, <1>2, <1>5, <2>1 DEF RegisterDecl
  <2>. QED BY <1>4, <2>1, <2>2
<1>6. CASE RegisterVar
  <2>. DEFINE s == AddEntry(old, id, [file |-> file, id |-> id, kind |-> "null"])
  <2>1. syms' = [syms EXCEPT ![i] = s]
    BY <1>1, <1>2, <1>6 DEF RegisterVar
  <2>2. s = SetPrivate(s, id, FALSE)
    BY DEF SetPrivate
  <2>. QED BY <1>4, <2>1, <2>2
<1>7. CASE RegisterGroup
  <2>1. PICK kind \in {"group", "null"} :
          syms' = [syms EXCEPT ![CurrentScope] =
                     SetPrivate(AddEntry(syms[CurrentScope], Decl.id, [file |-> Top.file, id |-> Decl.id, kind |-> kind]),
                                Decl.id, Decl.priv)]
    BY <1>7, Zenon DEF RegisterGroup
  <2>2. syms' = [syms EXCEPT ![i] = SetPrivate(AddEntry(old, id, [file |-> file, id |-> id, kind |-> kind]), id, Decl.priv)]
    BY <1>1, <1>2, <2>1
  <2>. QED BY <1>4, <2>2
<1>. QED BY <1>5, <1>6, <1>7

\* ... at its end it says what a bundle is, ...
LEMMA EndPass1Writes ==
  ASSUME IInv, SettledInv, MangledInv, EndPass1
  PROVE  Writes
<1>1. PICK i \in 0 .. Len(imports), old \in Scope :
        i = Top.imp /\ CurrentScope = i /\ old = syms[i] /\ \E n \in 1 .. Depth : frames[n].imp = i
  BY HereFacts
<1>2. PICK found, kind : /\ syms' = [syms EXCEPT ![i] = [id \in Ids |->
                               IF found[id] /\ old[id] # NoSym THEN [old[id] EXCEPT !.val.kind = kind[id]] ELSE old[id]]]
                         /\ \A id \in Ids : kind[id] \in {"group", "null"}
  <2>. DEFINE found == [id \in Ids |-> \E j \in Deferred(Top) : prog[pending[j].file].decls[pending[j].at].id = id]
              kind == [id \in Ids |-> IF \E j \in Deferred(Top) : /\ prog[pending[j].file].decls[pending[j].at].id = id
                                                                  /\ ValidCandidates(prog[pending[j].file].decls[pending[j].at]) # {}
                                        THEN "group" ELSE "null"]
  <2>1. \A id \in Ids : kind[id] \in {"group", "null"}
    OBVIOUS
  <2>2. syms' = [syms EXCEPT ![i] = [id \in Ids |->
                  IF found[id] /\ old[id] # NoSym THEN [old[id] EXCEPT !.val.kind = kind[id]] ELSE old[id]]]
    BY <1>1 DEF EndPass1
  <2>. HIDE DEF found, kind
  <2>. QED BY <2>1, <2>2
<1>. DEFINE new == [id \in Ids |-> IF found[id] /\ old[id] # NoSym THEN [old[id] EXCEPT !.val.kind = kind[id]] ELSE old[id]]
<1>3. syms' = [syms EXCEPT ![i] = new]
  BY <1>2
<1>4. ASSUME NEW id \in Ids, found[id], old[id] # NoSym
      PROVE  new[id] \in Symbols /\ new[id].val.kind \notin Generated
  <2>1. old[id] \in Symbols
    BY <1>4 DEF Scope
  <2>2. kind[id] \in {"group", "null"}
    BY <1>2
  <2>3. [old[id].val EXCEPT !.kind = kind[id]] \in Values /\ [old[id].val EXCEPT !.kind = kind[id]].kind = kind[id]
    BY <2>1, <2>2 DEF Symbols, Values
  <2>4. new[id] = [old[id] EXCEPT !.val = [old[id].val EXCEPT !.kind = kind[id]]]
    BY <1>4
  <2>. QED BY <2>1, <2>2, <2>3, <2>4 DEF Symbols, Generated
<1>5. \A id \in Ids : ~ (found[id] /\ old[id] # NoSym) => new[id] = old[id]
  OBVIOUS
<1>6. new \in Scope
  <2>1. \A id \in Ids : new[id] \in Symbols \cup {NoSym}
    BY <1>4, <1>5 DEF Scope
  <2>2. new = [id \in Ids |-> new[id]]
    OBVIOUS
  <2>. HIDE DEF new
  <2>. QED BY <2>1, <2>2 DEF Scope
<1>. HIDE DEF new
<1>7. \A id \in Ids : /\ old[id] # NoSym => new[id] # NoSym
                      /\ Kept(old[id], new[id]) \/ OwnEntry(new[id], FileOf(i), id)
  BY <1>4, <1>5, SymbolIsSome DEF Kept, OwnEntry
<1>. QED BY <1>1, <1>3, <1>6, <1>7 DEF Writes

\* ... and pass 2 writes declarations again.
LEMMA AnalysedWrites ==
  ASSUME IInv, SettledInv, MangledInv, AnalyseDecl \/ AnalyseGroup \/ AnalyseVar
  PROVE  Writes
<1>0. TypeOK
  BY DEF IInv
<1>1. PICK i \in 0 .. Len(imports), old \in Scope, file \in Files : i = CurrentScope /\ old = syms[i] /\ file = Top.file
  BY HereFacts
<1>2. PICK id \in Ids : id = Decl.id
  BY StayFacts, DeclFields DEF AnalyseDecl, AnalyseGroup, AnalyseVar
<1>3. AtDecl
  BY DEF AnalyseDecl, AnalyseGroup, AnalyseVar
<1>4. ASSUME NEW kind \in {"proc", "const", "var", "group", "null"}, kind \in Generated => Decl.op = kind,
             NEW mid \in Scope, (mid[id] = NoSym) <=> (old[id] = NoSym), \A j \in Ids : j # id => mid[j] = old[j],
             syms' = [syms EXCEPT ![i] = AddEntry(mid, id, [file |-> file, id |-> id, kind |-> kind])]
      PROVE  Writes
  <2>. DEFINE v == [file |-> file, id |-> id, kind |-> kind]
  <2>1. v \in Values /\ v.file = file /\ v.kind = kind
    BY DEF Values
  <2>2. syms' = [syms EXCEPT ![i] = AddEntry(mid, id, v)]
    BY <1>4
  <2>. HIDE DEF v
  <2>3. PICK new \in Scope : /\ new = AddEntry(mid, id, v) /\ new[id] # NoSym /\ new[id].val = v
                             /\ \A j \in Ids : j # id => new[j] = mid[j]
    BY <2>1, AddEntryFacts
  <2>4. OnlyAt(syms[i], new, id)
    BY <1>1, <1>4, <2>3 DEF Kept, OnlyAt
  <2>5. syms' = [syms EXCEPT ![i] = new]
    BY <2>2, <2>3
  <2>6. new[id].val.kind \in Generated => Decl.op = new[id].val.kind
    BY <1>4, <2>1, <2>3
  <2>7. new[id].val.file = Top.file
    BY <1>1, <2>1, <2>3
  <2>. QED BY <1>1, <1>2, <1>3, <2>3, <2>4, <2>5, <2>6, <2>7, OwnWrite
<1>5. PICK mangled \in Scope : /\ mangled = Mangle(old, id) /\ ((mangled[id] = NoSym) <=> (old[id] = NoSym))
                               /\ \A j \in Ids : j # id => mangled[j] = old[j]
  BY <1>0, MangleFacts
<1>6. CASE AnalyseDecl
  <2>1. PICK kind \in {"proc", "const"} : kind = Decl.op
    BY <1>6 DEF AnalyseDecl
  <2>2. syms' = [syms EXCEPT ![i] = AddEntry(mangled, id, [file |-> file, id |-> id, kind |-> kind])]
    BY <1>1, <1>2, <1>5, <1>6, <2>1 DEF AnalyseDecl
  <2>. QED BY <1>4, <1>5, <2>1, <2>2
<1>7. CASE AnalyseGroup
  <2>1. PICK kind \in {"group", "null"} : kind = IF ValidCandidates(Decl) # {} THEN "group" ELSE "null"
    OBVIOUS
  <2>2. syms' = [syms EXCEPT ![i] = AddEntry(mangled, id, [file |-> file, id |-> id, kind |-> kind])]
    BY <1>1, <1>2, <1>5, <1>7, <2>1 DEF AnalyseGroup
  <2>3. kind \notin Generated
    BY DEF Generated
  <2>. QED BY <1>4, <1>5, <2>2, <2>3
<1>8. CASE AnalyseVar
  <2>1. syms' = [syms EXCEPT ![i] = AddEntry(old, id, [file |-> file, id |-> id, kind |-> "var"])] /\ Decl.op = "var"
    BY <1>1, <1>2, <1>8 DEF AnalyseVar
  <2>. QED BY <1>4, <2>1
<1>. QED BY <1>6, <1>7, <1>8

\* A copied entry has the value of the package's, and its name if it has one.
LEMMA CopyTakes ==
  ASSUME NEW from \in Scope, NEW to \in Scope, NEW id \in Ids
  PROVE  /\ to[id] # NoSym => CopyUsing(from, to)[id] # NoSym
         /\ \/ ~ Exported(from[id]) /\ CopyUsing(from, to)[id] = to[id]
            \/ /\ Exported(from[id]) /\ from[id] # NoSym /\ CopyUsing(from, to)[id] # NoSym
               /\ CopyUsing(from, to)[id].val = from[id].val
               /\ from[id].llvm # NoLlvm => CopyUsing(from, to)[id].llvm = from[id].llvm
<1>1. CASE ~ Exported(from[id])
  BY <1>1 DEF CopyUsing
<1>2. CASE Exported(from[id])
  <2>1. from[id] \in Symbols
    BY <1>2 DEF Exported, Scope
  <2>2. from[id].val \in Values /\ from[id].llvm \in (Names \X Ids) \cup {NoLlvm} /\ from[id] # NoSym
    BY <1>2, <2>1 DEF Symbols, Exported
  <2>3. PICK old \in Symbols : old = AddEntry(to, id, from[id].val)[id] /\ old.val = from[id].val
    BY <2>2, AddEntryFacts DEF Scope
  <2>4. CopyUsing(from, to)[id] = IF from[id].llvm = NoLlvm THEN old ELSE [old EXCEPT !.llvm = from[id].llvm]
    BY <1>2, <2>3 DEF CopyUsing
  <2>5. /\ CopyUsing(from, to)[id] \in Symbols /\ CopyUsing(from, to)[id].val = from[id].val
        /\ from[id].llvm # NoLlvm => CopyUsing(from, to)[id].llvm = from[id].llvm
    BY <2>2, <2>3, <2>4 DEF Symbols
  <2>. QED BY <1>2, <2>2, <2>5, SymbolIsSome
<1>. QED BY <1>1, <1>2

\* A copy from package j into the scope of a call.
LEMMA CopyWrites ==
  ASSUME IInv, NEW i \in 0 .. Len(imports), NEW n \in 1 .. Depth, frames[n].imp = i,
         NEW j \in 1 .. Len(imports), j # i,
         syms' = [syms EXCEPT ![i] = CopyUsing(syms[j], @)],
         imports[j].prelude # "none" \/ (imports[j].isUsing /\ Finished(j)')
  PROVE  Writes
<1>1. j \in 0 .. Len(imports) /\ Len(imports) \in Nat
  BY CallTypes
<1>2. PICK from \in Scope, old \in Scope : from = syms[j] /\ old = syms[i]
  BY <1>1, StayFacts
<1>3. PICK new \in Scope : new = CopyUsing(from, old)
  BY CopyUsingType
<1>4. syms' = [syms EXCEPT ![i] = new]
  BY <1>2, <1>3
<1>5. \A id \in Ids : /\ old[id] # NoSym => new[id] # NoSym
                      /\ Kept(old[id], new[id]) \/ TakenFrom(new[id], i, j, id)
  <2>. TAKE id \in Ids
  <2>1. \/ new[id] = old[id]
        \/ from[id] # NoSym /\ new[id].val = from[id].val /\ (from[id].llvm # NoLlvm => new[id].llvm = from[id].llvm)
    BY <1>3, CopyTakes
  <2>2. old[id] # NoSym => new[id] # NoSym
    BY <1>3, CopyTakes
  <2>3. new[id] = old[id] => Kept(old[id], new[id])
    BY DEF Kept
  <2>4. from[id] # NoSym /\ new[id].val = from[id].val /\ (from[id].llvm # NoLlvm => new[id].llvm = from[id].llvm)
          => TakenFrom(new[id], i, j, id)
    BY <1>2 DEF TakenFrom
  <2>. QED BY <2>1, <2>2, <2>3, <2>4
<1>6. \A id \in Ids : /\ syms[i][id] # NoSym => new[id] # NoSym
                      /\ \/ Kept(syms[i][id], new[id])
                         \/ OwnEntry(new[id], FileOf(i), id)
                         \/ \E k \in 1 .. Len(imports) : TakenFrom(new[id], i, k, id)
  BY <1>2, <1>5
<1>. QED BY <1>4, <1>6 DEF Writes

\* The runtime package is registered.
LEMMA RuntimeType ==
  ASSUME TypeOK, HasPrelude("runtime")
  PROVE  RuntimeAt \in 1 .. Len(imports) /\ imports[RuntimeAt].prelude = "runtime"
<1>. DEFINE T == {j \in 1 .. Len(imports) : imports[j].prelude = "runtime"}
<1>0. imports \in Seq(Package) /\ Len(imports) \in Nat
  BY DEF TypeOK
<1>1. T \in SUBSET Nat /\ T # {} /\ DOMAIN imports = 1 .. Len(imports)
  BY <1>0 DEF HasPrelude
<1>2. PICK x \in T : \A y \in T : x <= y
  BY <1>1, Least
<1>3. \A j \in 1 .. x - 1 : imports[j].prelude # "runtime"
  <2>1. \A j \in 1 .. x - 1 : j \in 1 .. Len(imports) /\ ~ (x <= j)
    BY <1>0, <1>1, <1>2
  <2>. QED BY <1>2, <2>1
<1>. QED BY <1>1, <1>2, <1>3 DEF RuntimeAt

LEMMA CopyRuntimeWrites ==
  ASSUME IInv, SettledInv, MangledInv, CopyRuntimeSymbols
  PROVE  Writes
<1>1. CASE HasPrelude("runtime") /\ CurrentScope # RuntimeAt
  <2>1. PICK i \in 0 .. Len(imports), n \in 1 .. Depth : i = CurrentScope /\ frames[n].imp = i
    BY HereFacts
  <2>2. RuntimeAt \in 1 .. Len(imports) /\ imports[RuntimeAt].prelude = "runtime"
    BY <1>1, RuntimeType, StayFacts
  <2>3. syms' = [syms EXCEPT ![i] = CopyUsing(syms[RuntimeAt], @)]
    BY <1>1, <2>1 DEF CopyRuntimeSymbols
  <2>. QED BY <1>1, <2>1, <2>2, <2>3, CopyWrites
<1>2. CASE ~ (HasPrelude("runtime") /\ CurrentScope # RuntimeAt)
  BY <1>2, NoWrite DEF CopyRuntimeSymbols
<1>. QED BY <1>1, <1>2

\* A package that returns is finished.
LEMMA ReturnWrites ==
  ASSUME IInv, IInv', SettledInv, NamesInv, MangledInv, RegistryInv, ReturnImport
  PROVE  Writes
<1>1. /\ Depth' = Depth - 1 /\ Depth - 1 \in Nat \ {0} /\ Depth \in Nat \ {0} /\ Depth \in 1 .. Depth
      /\ \A k \in 1 .. Depth - 1 : k \in 1 .. Depth /\ frames'[k] = frames[k]
      /\ Depth - 1 \in 1 .. Depth - 1 /\ Len(imports') = Len(imports)
  BY PoppedFrames, CallTypes
<1>2. PICK j \in 1 .. Len(imports) : j = Top.imp
  BY <1>1, CallTypes
<1>3. \A k \in 1 .. Depth - 1 : frames[k].imp \in 0 .. Len(imports) /\ frames[k].imp # j
  <2>1. \A k \in 1 .. Depth - 1 : k < Depth
    BY <1>1
  <2>2. \A k \in 1 .. Depth : frames[k].imp \in Nat
    BY CallTypes
  <2>. QED BY <1>1, <1>2, <2>1, <2>2, CallTypes DEF NamesInv, CallsAscend, Top
<1>4. Finished(j)'
  <2>1. DOMAIN frames' = 1 .. Depth - 1
    <3>1. FramesOK'
      BY DEF IInv, TypeOK, FramesOK
    <3>. QED BY <1>1, <3>1 DEF Depth, FramesOK
  <2>. QED BY <1>1, <1>3, <2>1 DEF Finished
<1>. DEFINE into == IF Len(scopes') > 0 THEN scopes'[Len(scopes')] ELSE 0
<1>5. syms' = IF Top.how = "using" THEN [syms EXCEPT ![into] = CopyUsing(syms[Top.imp], @)] ELSE syms
  BY DEF ReturnImport
<1>6. into = frames[Depth - 1].imp
  <2>1. Len(scopes') = Depth - 2 /\ \A k \in DOMAIN scopes' : scopes'[k] = frames'[k + 1].imp
    BY <1>1 DEF IInv, ControlInv, ScopesMatchCalls
  <2>2. scopes' \in Seq(1 .. Len(imports')) /\ frames[1].imp = 0
    BY StayFacts DEF IInv, TypeOK, CallsInv
  <2>3. CASE Depth = 2
    BY <1>1, <2>1, <2>2, <2>3
  <2>4. CASE Depth # 2
    <3>1. Depth - 2 \in 1 .. Len(scopes') /\ (Depth - 2) + 1 = Depth - 1 /\ Depth - 2 > 0
      BY <1>1, <2>1, <2>4
    <3>2. scopes'[Depth - 2] = frames'[(Depth - 2) + 1].imp
      BY <2>1, <2>2, <3>1
    <3>. QED BY <1>1, <2>1, <3>1, <3>2
  <2>. QED BY <2>3, <2>4
<1>. HIDE DEF into
<1>7. CASE Top.how = "using"
  <2>1. imports[j].isUsing
    <3>1. Depth \in 2 .. Depth
      BY <1>1
    <3>. QED BY <1>2, <1>7, <3>1 DEF RegistryInv, Top
  <2>2. into \in 0 .. Len(imports) /\ into # j /\ Depth - 1 \in 1 .. Depth
    BY <1>1, <1>3, <1>6
  <2>3. syms' = [syms EXCEPT ![into] = CopyUsing(syms[j], @)]
    BY <1>2, <1>5, <1>7
  <2>. QED BY <1>4, <1>6, <2>1, <2>2, <2>3, CopyWrites
<1>8. CASE Top.how # "using"
  BY <1>5, <1>8, NoWrite
<1>. QED BY <1>7, <1>8

\* Every step but a call writes so.
LEMMA NextWrites ==
  ASSUME IInv, IInv', SettledInv, NamesInv, MangledInv, RegistryInv, Next
  PROVE  Calls \/ Writes
<1>1. syms' = syms => Writes
  BY NoWrite
<1>2. CASE \/ EnterPass1 \/ SkipPrelude \/ PackageClause \/ ImportFails \/ ImportCycle \/ SkipImport
           \/ CheckPass1 \/ IgnoredMain \/ CheckPass2 \/ TrackUsage \/ FinishTrack
  BY <1>1, <1>2, Zenon DEF EnterPass1, SkipPrelude, PackageClause, ImportFails, ImportCycle, SkipImport,
     CheckPass1, IgnoredMain, CheckPass2, TrackUsage, FinishTrack
<1>. QED BY <1>2, RegisterWrites, EndPass1Writes, AnalysedWrites, CopyRuntimeWrites, ReturnWrites, Zenon DEF Next, Calls

\* The symbols of a scope stay.
SymbolsStay ==
  \A s \in 0 .. Len(imports), id \in Ids : syms[s][id] # NoSym => syms'[s][id] # NoSym
\* A package that is finished is so for good, and its scope is closed.
FinishedStays ==
  \A j \in 1 .. Len(imports) : Finished(j) => Finished(j)' /\ syms'[j] = syms[j]

LEMMA WritesStay ==
  ASSUME IInv, Writes
  PROVE  /\ SymbolsStay
         /\ \A j \in 1 .. Len(imports) : Finished(j) => syms'[j] = syms[j]
<1>1. PICK i \in 0 .. Len(imports), new \in Scope :
        /\ syms' = [syms EXCEPT ![i] = new] /\ \E n \in 1 .. Depth : frames[n].imp = i
        /\ \A id \in Ids : syms[i][id] # NoSym => new[id] # NoSym
  BY DEF Writes
<1>2. syms \in [0 .. Len(imports) -> Scope] /\ Len(imports) \in Nat /\ DOMAIN frames = 1 .. Depth
  BY StayFacts, CallTypes DEF FramesOK, Depth
<1>3. SymbolsStay
  BY <1>1, <1>2 DEF SymbolsStay
<1>4. \A j \in 1 .. Len(imports) : Finished(j) => j # i
  BY <1>1, <1>2 DEF Finished
<1>. QED BY <1>1, <1>2, <1>3, <1>4

LEMMA NextStays ==
  ASSUME IInv, IInv', SettledInv, NamesInv, MangledInv, RegistryInv, Next
  PROVE  SymbolsStay /\ FinishedStays
<1>1. DOMAIN frames = 1 .. Depth /\ DOMAIN frames' = 1 .. Depth' /\ Len(imports) \in Nat
      /\ syms \in [0 .. Len(imports) -> Scope]
  <2>1. FramesOK /\ FramesOK'
    BY DEF IInv, TypeOK, FramesOK
  <2>. QED BY <2>1, StayFacts, CallTypes DEF Depth, FramesOK
<1>2. CASE Calls
  <2>1. /\ Depth' = Depth + 1 /\ Len(imports) \in Nat
        /\ \A k \in 1 .. Depth + 1 : k \in 1 .. Depth \/ k = Depth + 1
        /\ \A k \in 1 .. Depth : frames'[k].imp = frames[k].imp
        /\ frames'[Depth + 1].imp = Len(imports) + 1
        /\ syms' = [s \in 0 .. Len(imports) + 1 |-> IF s = Len(imports) + 1 THEN EmptyScope ELSE syms[s]]
    BY <1>2, CalledFrames
  <2>2. \A s \in 0 .. Len(imports) : syms'[s] = syms[s]
    BY <2>1
  <2>3. \A j \in 1 .. Len(imports) : j \in 0 .. Len(imports) /\ j # Len(imports) + 1
    BY <2>1
  <2>4. \A j \in 1 .. Len(imports) : Finished(j) => Finished(j)'
    BY <1>1, <2>1, <2>3 DEF Finished
  <2>. QED BY <2>2, <2>3, <2>4 DEF SymbolsStay, FinishedStays
<1>3. CASE ~ Calls
  <2>1. SymbolsStay /\ \A j \in 1 .. Len(imports) : Finished(j) => syms'[j] = syms[j]
    BY <1>3, NextWrites, WritesStay
  <2>2. \A n \in 1 .. Depth' : n \in 1 .. Depth /\ frames'[n].imp = frames[n].imp
    <3>1. CASE ReturnImport
      BY <3>1, PoppedFrames
    <3>2. CASE IgnoredMain
      BY <3>2 DEF IgnoredMain, Depth
    <3>3. CASE Moves
      BY <3>3, StayFacts, MovedFrames DEF Moves
    <3>. QED BY <1>3, <3>1, <3>2, <3>3, NextShapes
  <2>3. \A j \in 1 .. Len(imports) : Finished(j) => Finished(j)'
    BY <1>1, <2>2 DEF Finished
  <2>. QED BY <2>1, <2>3 DEF FinishedStays
<1>. QED BY <1>2, <1>3

\* The declaration of the file is in the scope of a using import of the file
\* that is finished, so it has its name.
Home(file, id) ==
  \E j \in 1 .. Len(imports) :
    imports[j].file = file /\ imports[j].isUsing /\ Finished(j) /\ syms[j][id] # NoSym
\* What a scope of file `here' says of a procedure or a variable comes from a
\* file that declares it; a procedure of another package bears its name, and
\* is called under it.
Known(e, here, id) ==
  e # NoSym /\ e.val.kind \in Generated =>
    /\ DeclaresAs(e.val.file, e.val.kind, id)
    /\ e.val.kind = "proc" /\ e.val.file # here /\ ~ Prelude(e.val.file) =>
         e.llvm = <<prog[e.val.file].clause, id>> /\ Home(e.val.file, id)
OriginInv == \A s \in 0 .. Len(imports), id \in Ids : Known(syms[s][id], FileOf(s), id)

\* A declaration that is known stays so.
LEMMA KnownStays ==
  ASSUME PackagesStay, FlagsStay, SymbolsStay, FinishedStays, Len(imports) \in Nat, Len(imports') \in Nat,
         NEW e, NEW here, NEW id \in Ids, Known(e, here, id), NEW e2, e2 = e
  PROVE  e2 # NoSym /\ e2.val.kind \in Generated =>
           /\ DeclaresAs(e2.val.file, e2.val.kind, id)'
           /\ e2.val.kind = "proc" /\ e2.val.file # here /\ ~ Prelude(e2.val.file) =>
                e2.llvm = <<prog'[e2.val.file].clause, id>> /\ Home(e2.val.file, id)'
<1>1. prog' = prog
  BY DEF PackagesStay
<1>2. \A file, kind : DeclaresAs(file, kind, id) => DeclaresAs(file, kind, id)'
  BY <1>1 DEF DeclaresAs
<1>3. \A file : Home(file, id) => Home(file, id)'
  <2>1. SUFFICES ASSUME NEW file, Home(file, id) PROVE Home(file, id)'
    OBVIOUS
  <2>2. PICK j \in 1 .. Len(imports) :
          imports[j].file = file /\ imports[j].isUsing /\ Finished(j) /\ syms[j][id] # NoSym
    BY <2>1 DEF Home
  <2>3. j \in 1 .. Len(imports') /\ imports'[j].file = file /\ imports'[j].isUsing
    BY <2>2 DEF PackagesStay, FlagsStay
  <2>4. Finished(j)' /\ syms'[j][id] # NoSym
    BY <2>2 DEF FinishedStays
  <2>. QED BY <2>3, <2>4 DEF Home
<1>. QED BY <1>1, <1>2, <1>3 DEF Known

\* What is taken from a package is known there.
LEMMA TakenKnown ==
  ASSUME IInv', PackagesStay, FlagsStay, SymbolsStay, FinishedStays, RegistryInv, OriginInv, MangledInv',
         Len(imports) \in Nat, Len(imports') \in Nat,
         NEW i \in 0 .. Len(imports), \A s \in 0 .. Len(imports) : s # i => syms'[s] = syms[s],
         NEW id \in Ids, NEW e, NEW j \in 1 .. Len(imports), TakenFrom(e, i, j, id), NEW here
  PROVE  e # NoSym /\ e.val.kind \in Generated =>
           /\ DeclaresAs(e.val.file, e.val.kind, id)'
           /\ e.val.kind = "proc" /\ e.val.file # here /\ ~ Prelude(e.val.file) =>
                e.llvm = <<prog'[e.val.file].clause, id>> /\ Home(e.val.file, id)'
<1>1. PICK from : /\ from = syms[j][id] /\ from # NoSym /\ e.val = from.val /\ (from.llvm # NoLlvm => e.llvm = from.llvm)
                  /\ j # i /\ (imports[j].prelude # "none" \/ (imports[j].isUsing /\ Finished(j)'))
  BY DEF TakenFrom
<1>2. Known(from, FileOf(j), id) /\ FileOf(j) = imports[j].file /\ syms'[j] = syms[j]
      /\ j \in 1 .. Len(imports') /\ imports'[j].file = imports[j].file
      /\ prog' = prog /\ imports'[j].prelude = imports[j].prelude
  <2>1. j \in 0 .. Len(imports) /\ j # 0 /\ j # i
    BY <1>1 DEF TakenFrom
  <2>2. j \in 1 .. Len(imports') /\ imports'[j].file = imports[j].file /\ prog' = prog
        /\ imports'[j].prelude = imports[j].prelude
    BY DEF PackagesStay
  <2>. QED BY <1>1, <2>1, <2>2 DEF OriginInv, FileOf
<1>3. from.val.kind \in Generated =>
        /\ DeclaresAs(from.val.file, from.val.kind, id)'
        /\ from.val.kind = "proc" /\ from.val.file # imports[j].file /\ ~ Prelude(from.val.file) =>
             from.llvm = <<prog'[from.val.file].clause, id>> /\ Home(from.val.file, id)'
  BY <1>1, <1>2, KnownStays
<1>4. ASSUME from.val.kind = "proc", ~ Prelude(from.val.file), from.val.file = imports[j].file
      PROVE  from.llvm = <<prog'[from.val.file].clause, id>> /\ Home(from.val.file, id)'
  <2>1. imports[j].prelude = "none"
    BY <1>4 DEF RegistryInv
  <2>2. imports[j].isUsing /\ Finished(j)'
    BY <1>1, <2>1
  <2>3. DeclaredBy(imports[j].file, id)'
    <3>1. DeclaresAs(from.val.file, "proc", id)'
      BY <1>3, <1>4 DEF Generated
    <3>. QED BY <1>2, <1>4, <3>1 DEF DeclaresAs, DeclaredBy, Declares
  <2>4. syms'[j][id] # NoSym /\ syms'[j][id].llvm = from.llvm
    BY <1>1, <1>2
  <2>5. from.llvm = <<prog'[imports'[j].file].clause, id>>
    BY <1>2, <2>1, <2>2, <2>3, <2>4 DEF MangledInv, FinishedMangled
  <2>6. Home(from.val.file, id)'
    <3>1. imports'[j].isUsing
      BY <2>2 DEF FlagsStay
    <3>. QED BY <1>2, <1>4, <2>2, <2>4, <3>1 DEF Home
  <2>. QED BY <1>2, <1>4, <2>5, <2>6
<1>5. ASSUME from.val.kind = "proc", ~ Prelude(from.val.file)
      PROVE  from.llvm = <<prog'[from.val.file].clause, id>> /\ Home(from.val.file, id)'
  BY <1>3, <1>4, <1>5 DEF Generated
<1>6. from.val.kind = "proc" /\ ~ Prelude(from.val.file) => from.llvm # NoLlvm
  <2>1. SUFFICES ASSUME from.val.kind = "proc", ~ Prelude(from.val.file) PROVE from.llvm # NoLlvm
    OBVIOUS
  <2>0. /\ syms' \in [0 .. Len(imports') -> Scope] /\ prog' \in [Files -> SourceType] /\ j \in 0 .. Len(imports')
        /\ \A f \in Files : prog'[f].clause \in Names
    <3>1. syms' \in [0 .. Len(imports') -> Scope] /\ prog' \in [Files -> SourceType]
      BY DEF IInv, TypeOK
    <3>2. \A f \in Files : prog'[f].clause \in Names
      BY <3>1 DEF SourceType
    <3>3. j \in 0 .. Len(imports')
      BY <1>2
    <3>. QED BY <3>1, <3>2, <3>3
  <2>2. from.val.file \in Files
    <3>1. syms'[j] \in Scope /\ from = syms'[j][id]
      BY <1>1, <1>2, <2>0
    <3>2. from \in Symbols
      BY <1>1, <3>1 DEF Scope
    <3>. QED BY <3>2 DEF Symbols, Values
  <2>3. prog'[from.val.file].clause \in Names
    BY <2>0, <2>2
  <2>4. <<prog'[from.val.file].clause, id>> \in Names \X Ids
    BY <2>3
  <2>5. from.llvm = <<prog'[from.val.file].clause, id>>
    BY <1>5, <2>1
  <2>6. NoLlvm \notin Names \X Ids
    BY ConstantsAssumption
  <2>. QED BY <2>4, <2>5, <2>6
<1>. QED BY <1>1, <1>3, <1>5, <1>6

\* So it stays when a scope is written ...
LEMMA WritesKeepOrigin ==
  ASSUME IInv, IInv', MangledInv', RegistryInv, OriginInv, PackagesStay, FlagsStay, SymbolsStay, FinishedStays,
         Len(imports') = Len(imports), Writes
  PROVE  OriginInv'
<1>1. Len(imports) \in Nat /\ Len(imports') \in Nat /\ syms \in [0 .. Len(imports) -> Scope]
  BY DEF IInv, TypeOK
<1>2. \A s \in 0 .. Len(imports) : FileOf(s)' = FileOf(s)
  BY <1>1 DEF PackagesStay, FileOf
<1>3. SUFFICES ASSUME NEW s \in 0 .. Len(imports), NEW id \in Ids, NEW e, e = syms'[s][id], NEW here, here = FileOf(s)',
                      e # NoSym, e.val.kind \in Generated
               PROVE  /\ DeclaresAs(e.val.file, e.val.kind, id)'
                      /\ e.val.kind = "proc" /\ e.val.file # here /\ ~ Prelude(e.val.file) =>
                           e.llvm = <<prog'[e.val.file].clause, id>> /\ Home(e.val.file, id)'
  BY DEF OriginInv, Known
<1>4. PICK i \in 0 .. Len(imports), new \in Scope :
        /\ syms' = [syms EXCEPT ![i] = new]
        /\ \A x \in Ids : \/ Kept(syms[i][x], new[x])
                          \/ OwnEntry(new[x], FileOf(i), x)
                          \/ \E j \in 1 .. Len(imports) : TakenFrom(new[x], i, j, x)
  BY DEF Writes
<1>5. syms'[i] = new /\ \A k \in 0 .. Len(imports) : k # i => syms'[k] = syms[k]
  BY <1>1, <1>4
<1>6. Known(syms[s][id], here, id) /\ here = FileOf(s)
  BY <1>2, <1>3 DEF OriginInv
<1>7. CASE e = syms[s][id]
  BY <1>1, <1>3, <1>6, <1>7, KnownStays
<1>8. CASE s = i
  <2>1. e = new[id]
    BY <1>3, <1>5, <1>8
  <2>2. CASE Kept(syms[i][id], new[id])
    <3>1. syms[i][id] # NoSym /\ e.val = syms[i][id].val /\ e.llvm = syms[i][id].llvm
      BY <1>3, <2>1, <2>2 DEF Kept
    <3>2. Known(e, here, id)
      BY <1>6, <1>8, <3>1 DEF Known
    <3>. QED BY <1>1, <1>3, <3>2, KnownStays
  <2>3. CASE OwnEntry(new[id], FileOf(i), id)
    <3>1. e.val.file = here /\ DeclaresAs(e.val.file, e.val.kind, id)
      BY <1>3, <1>6, <1>8, <2>1, <2>3 DEF OwnEntry
    <3>2. DeclaresAs(e.val.file, e.val.kind, id)'
      BY <3>1 DEF DeclaresAs, PackagesStay
    <3>. QED BY <3>1, <3>2
  <2>4. ASSUME NEW j \in 1 .. Len(imports), TakenFrom(new[id], i, j, id)
        PROVE  /\ DeclaresAs(e.val.file, e.val.kind, id)'
               /\ e.val.kind = "proc" /\ e.val.file # here /\ ~ Prelude(e.val.file) =>
                    e.llvm = <<prog'[e.val.file].clause, id>> /\ Home(e.val.file, id)'
    BY <1>1, <1>3, <1>5, <2>1, <2>4, TakenKnown
  <2>. QED BY <1>4, <2>2, <2>3, <2>4
<1>9. CASE s # i
  BY <1>3, <1>5, <1>7, <1>9
<1>. QED BY <1>8, <1>9

\* ... and in every step.
LEMMA NextOrigin ==
  ASSUME IInv, IInv', SettledInv, NamesInv, MangledInv, MangledInv', RegistryInv, OriginInv,
         PackagesStay, FlagsStay, SymbolsStay, FinishedStays, Next
  PROVE  OriginInv'
<1>1. Len(imports) \in Nat /\ Len(imports') \in Nat /\ syms \in [0 .. Len(imports) -> Scope]
  BY DEF IInv, TypeOK
<1>2. \A s \in 0 .. Len(imports) : FileOf(s)' = FileOf(s)
  BY <1>1 DEF PackagesStay, FileOf
<1>3. CASE Calls
  <2>0. SUFFICES ASSUME NEW s \in 0 .. Len(imports'), NEW id \in Ids, NEW e, e = syms'[s][id], NEW here, here = FileOf(s)',
                        e # NoSym, e.val.kind \in Generated
                 PROVE  /\ DeclaresAs(e.val.file, e.val.kind, id)'
                        /\ e.val.kind = "proc" /\ e.val.file # here /\ ~ Prelude(e.val.file) =>
                             e.llvm = <<prog'[e.val.file].clause, id>> /\ Home(e.val.file, id)'
    BY DEF OriginInv, Known
  <2>1. /\ Len(imports') = Len(imports) + 1
        /\ syms' = [k \in 0 .. Len(imports) + 1 |-> IF k = Len(imports) + 1 THEN EmptyScope ELSE syms[k]]
    BY <1>3, CalledFrames
  <2>2. CASE s = Len(imports) + 1
    BY <2>0, <2>1, <2>2 DEF EmptyScope
  <2>3. CASE s # Len(imports) + 1
    <3>1. s \in 0 .. Len(imports) /\ e = syms[s][id]
      BY <1>1, <2>0, <2>1, <2>3
    <3>2. Known(syms[s][id], here, id)
      BY <1>2, <2>0, <3>1 DEF OriginInv
    <3>. QED BY <1>1, <2>0, <3>1, <3>2, KnownStays
  <2>. QED BY <2>2, <2>3
<1>4. CASE Writes /\ ~ Calls
  <2>1. Len(imports') = Len(imports)
    BY <1>4, NextShapes, PoppedFrames DEF IgnoredMain
  <2>. QED BY <1>4, <2>1, WritesKeepOrigin
<1>. QED BY <1>3, <1>4, NextWrites

\* Nothing is known before anything is registered.
LEMMA InitOrigin == Init => RegistryInv /\ OriginInv
<1>. SUFFICES ASSUME Init PROVE RegistryInv /\ OriginInv
  OBVIOUS
<1>1. imports = <<>> /\ Len(imports) = 0 /\ syms = [s \in {0} |-> EmptyScope]
  BY DEF Init
<1>2. OriginInv
  <2>1. SUFFICES ASSUME NEW s \in 0 .. 0, NEW id \in Ids PROVE Known(syms[s][id], FileOf(s), id)
    BY <1>1 DEF OriginInv
  <2>2. syms[s][id] = NoSym
    BY <1>1 DEF EmptyScope
  <2>. QED BY <2>2 DEF Known
<1>3. Depth = 1
  BY DEF Init, Depth
<1>. QED BY <1>1, <1>2, <1>3 DEF RegistryInv

\* The declarations whose body or initialiser is evaluated.
Evaluated == {"proc", "const", "var"}
\* An annotation is for a reference of a declaration, and leads to a symbol: of
\* the same scope, or of a registered package that is marked as used.
ResolvedRight(r) ==
  /\ r.from \in 0 .. Len(imports) /\ r.to \in 0 .. Len(imports)
  /\ syms[r.to][r.id] # NoSym
  /\ r.at \in DOMAIN prog[FileOf(r.from)].decls
  /\ LET d == prog[FileOf(r.from)].decls[r.at]
     IN  /\ d.op \in Evaluated /\ d.ref # NoRef /\ d.ref.id = r.id
         /\ d.ref.pkg = NoName => r.to = r.from
         /\ d.ref.pkg # NoName => r.to \in 1 .. Len(imports) /\ imports[r.to].used
ResolvedInv == \A r \in resolved : ResolvedRight(r)

\* It does so for good.
LEMMA ResolvedStays ==
  ASSUME IInv, PackagesStay, FlagsStay, SymbolsStay, Len(imports') \in Nat, NEW r \in Resolution, ResolvedRight(r)
  PROVE  ResolvedRight(r)'
<1>1. Len(imports) \in Nat /\ Len(imports) <= Len(imports') /\ prog' = prog
  BY SequenceTypes, StayFacts DEF PackagesStay
<1>2. PICK from \in 0 .. Len(imports), to \in 0 .. Len(imports), id \in Ids : r.from = from /\ r.to = to /\ r.id = id
  BY DEF ResolvedRight, Resolution
<1>3. FileOf(from)' = FileOf(from)
  BY <1>1 DEF PackagesStay, FileOf
<1>4. syms'[to][id] # NoSym
  BY <1>2 DEF ResolvedRight, SymbolsStay
<1>5. from \in 0 .. Len(imports') /\ to \in 0 .. Len(imports')
  BY <1>1
<1>6. to \in 1 .. Len(imports) /\ imports[to].used => to \in 1 .. Len(imports') /\ imports'[to].used
  BY <1>1 DEF FlagsStay
<1>. QED BY <1>1, <1>2, <1>3, <1>4, <1>5, <1>6 DEF ResolvedRight

\* The annotation that the evaluation of a reference adds.
LEMMA AnnotatedRight ==
  ASSUME IInv, SettledInv, MangledInv, PackagesStay, SymbolsStay, AtDecl, Decl.op \in Evaluated, Decl.ref \in RefType,
         EvalRef(Decl.ref), Decl.ref # NoRef, Resolves(Decl.ref), Len(imports') = Len(imports),
         NEW r, r = [from |-> Top.imp, at |-> Top.pc, to |-> Target(Decl.ref), id |-> Decl.ref.id]
  PROVE  ResolvedRight(r)'
<1>1. PICK i \in 0 .. Len(imports), file \in Files :
        i = Top.imp /\ CurrentScope = i /\ file = Top.file /\ file = FileOf(i) /\ syms[i] \in Scope
  BY HereFacts
<1>2. PICK q \in RefType : q = Decl.ref /\ q # NoRef /\ q.id \in Ids
  BY DEF RefType
<1>3. prog' = prog /\ Len(imports) \in Nat /\ FileOf(i)' = FileOf(i)
  BY <1>1, CallTypes DEF PackagesStay, FileOf
<1>4. Decl = prog[file].decls[Top.pc] /\ Top.pc \in DOMAIN prog[file].decls
  <2>1. prog[file].decls \in Seq(DeclType) /\ Top.pc \in Nat \ {0}
    BY StayFacts DEF TypeOK, SourceType
  <2>. QED BY <1>1, <2>1 DEF AtDecl, Decl, Decls
<1>5. PICK t : t = Target(q) /\ t # NoName /\ syms[t][q.id] # NoSym
  BY <1>2 DEF Resolves
<1>6. q.pkg = NoName => t = i
  BY <1>1, <1>5 DEF Target, Qualified
<1>7. q.pkg # NoName => t \in 1 .. Len(imports) /\ imports'[t].used
  <2>1. SUFFICES ASSUME q.pkg # NoName PROVE t \in 1 .. Len(imports) /\ imports'[t].used
    OBVIOUS
  <2>2. Qualified(q)
    BY <1>2, <2>1 DEF Qualified
  <2>3. t \in 1 .. Len(imports)
    BY <1>5, <2>2, StayFacts, FindImportType DEF Target
  <2>4. imports' = [imports EXCEPT ![t].used = TRUE]
    BY <1>2, <1>5, <2>2 DEF EvalRef
  <2>. QED BY <2>3, <2>4, StayFacts, MarkGrows
<1>8. t \in 0 .. Len(imports)
  BY <1>3, <1>6, <1>7
<1>9. syms'[t][q.id] # NoSym
  BY <1>2, <1>5, <1>8 DEF SymbolsStay
<1>10. r.from = i /\ r.at = Top.pc /\ r.to = t /\ r.id = q.id
  BY <1>1, <1>2, <1>5
<1>. QED BY <1>1, <1>2, <1>3, <1>4, <1>6, <1>7, <1>8, <1>9, <1>10 DEF ResolvedRight

\* So all of them do in every step.
LEMMA NextResolved ==
  ASSUME IInv, IInv', SettledInv, MangledInv, PackagesStay, FlagsStay, SymbolsStay, ResolvedInv, Next
  PROVE  ResolvedInv'
<1>1. Len(imports') \in Nat /\ resolved \subseteq Resolution
  BY DEF IInv, TypeOK
<1>2. \A r \in resolved : ResolvedRight(r)'
  BY <1>1, ResolvedStays DEF ResolvedInv
<1>3. CASE resolved' = resolved
  BY <1>2, <1>3 DEF ResolvedInv
<1>4. CASE AnalyseDecl \/ AnalyseVar
  <2>1. AtDecl /\ EvalRef(Decl.ref) /\ Decl.op \in Evaluated
    BY <1>4 DEF AnalyseDecl, AnalyseVar, Evaluated
  <2>2. Decl.ref \in RefType
    BY <2>1, StayFacts, DeclFields DEF Evaluated
  <2>3. Len(imports') = Len(imports)
    <3>1. CASE imports' = imports
      BY <3>1
    <3>2. CASE \E i : imports' = [imports EXCEPT ![i].used = TRUE]
      BY <3>2, FieldKeepsFlags, StayFacts
    <3>. QED BY <2>1, <3>1, <3>2, Zenon DEF EvalRef
  <2>4. CASE Decl.ref # NoRef /\ Resolves(Decl.ref)
    <3>1. PICK r : r = [from |-> Top.imp, at |-> Top.pc, to |-> Target(Decl.ref), id |-> Decl.ref.id]
      OBVIOUS
    <3>2. resolved' = resolved \cup {r}
      BY <2>1, <2>4, <3>1 DEF EvalRef
    <3>3. ResolvedRight(r)'
      BY <2>1, <2>2, <2>3, <2>4, <3>1, AnnotatedRight
    <3>. QED BY <1>2, <3>2, <3>3 DEF ResolvedInv
  <2>5. CASE Decl.ref = NoRef \/ ~ Resolves(Decl.ref)
    BY <1>3, <2>1, <2>5 DEF EvalRef
  <2>. QED BY <2>4, <2>5
<1>5. CASE ~ (AnalyseDecl \/ AnalyseVar)
  <2>1. resolved' = resolved
    BY <1>5, Zenon DEF Next, EnterPass1, AutoImportRuntime, AutoImportIntrinsics, SkipPrelude, CopyRuntimeSymbols,
       PackageClause, ImportFails, ImportCycle, HandleImport, HandleImportNamed, HandleImportUsing, ReturnImport,
       RegisterDecl, RegisterVar, RegisterGroup, EndPass1, SkipImport, AnalyseGroup,
       CheckPass1, IgnoredMain, CheckPass2, TrackUsage, FinishTrack
  <2>. QED BY <1>3, <2>1
<1>. QED BY <1>4, <1>5

\* Declaration k of scope s is in its scope, if it is one that is evaluated.
Present(s, k) == LET d == prog[FileOf(s)].decls[k] IN d.op \in Evaluated => syms[s][d.id] # NoSym
AllPresent(s) == \A k \in DOMAIN prog[FileOf(s)].decls : Present(s, k)
\* What pass 2 has passed is present, ...
PresentSoFar ==
  Top.stage = "pass2" => \A k \in DOMAIN prog[FileOf(Top.imp)].decls : k < Top.pc => Present(Top.imp, k)
\* ... so everything in the packages that were left ...
LeftPresent ==
  \A s \in 1 .. Len(imports) : imports[s].entered => (\E n \in 1 .. Depth : frames[n].imp = s) \/ AllPresent(s)
\* ... and in an accepted main program.
MainPresent == Top.stage = "track" \/ (semOk = "ok" /\ ~ buildIgnored) => AllPresent(0)
PresentInv == PresentSoFar /\ LeftPresent /\ MainPresent

\* What is present stays so.
LEMMA PresentStays ==
  ASSUME TypeOK, PackagesStay, SymbolsStay, NEW s \in 0 .. Len(imports)
  PROVE  /\ \A k \in DOMAIN prog[FileOf(s)].decls : Present(s, k) => Present(s, k)'
         /\ AllPresent(s) => AllPresent(s)'
         /\ FileOf(s)' = FileOf(s) /\ prog' = prog
<1>1. FileOf(s)' = FileOf(s) /\ prog' = prog /\ FileOf(s) \in Files
  <2>1. Main \in Files /\ imports \in Seq(Package) /\ Len(imports) \in Nat
    BY ConstantsAssumption DEF TypeOK
  <2>2. s # 0 => s \in 1 .. Len(imports) /\ imports[s] \in Package
    BY <2>1
  <2>. QED BY <2>1, <2>2 DEF PackagesStay, FileOf, Package
<1>2. PICK file \in Files : file = FileOf(s)
  BY <1>1
<1>3. ASSUME NEW k \in DOMAIN prog[file].decls, Present(s, k) PROVE Present(s, k)'
  <2>1. prog[file].decls[k].op \in Evaluated => prog[file].decls[k].id \in Ids
    BY DeclaredIds DEF Evaluated, Declares
  <2>. QED BY <1>1, <1>2, <1>3, <2>1 DEF Present, SymbolsStay
<1>. QED BY <1>1, <1>2, <1>3 DEF AllPresent

\* The executing frame moves; what pass 2 passes is present.
LEMMA MoveKeepsPresent ==
  ASSUME IInv, SettledInv, PackagesStay, FlagsStay, SymbolsStay, PresentInv, Len(imports') = Len(imports),
         NEW st \in Stages, NEW n \in Nat, NEW from \in Nat, frames' = MoveTo(st, n, from),
         NEW i, i = Top.imp, NEW at, at = Top.pc,
         st = "pass2" => n = 1 \/ (Top.stage = "pass2" /\ n = at + 1 /\ Present(i, at)'),
         st = "track" \/ (semOk' = "ok" /\ ~ buildIgnored') => AllPresent(0)
  PROVE  PresentInv'
<1>1. /\ Depth' = Depth /\ Depth \in 1 .. Depth /\ Top' = frames'[Depth] /\ Top'.stage = st /\ Top'.pc = n
      /\ \A k \in 1 .. Depth : frames'[k].imp = frames[k].imp
  BY StayFacts, MovedFrames
<1>2. i \in 0 .. Len(imports) /\ Top'.imp = i /\ Len(imports) \in Nat /\ TypeOK /\ 0 \in 0 .. Len(imports)
  BY <1>1, CallTypes, StayFacts DEF Top
<1>3. MainPresent'
  BY <1>1, <1>2, PresentStays DEF MainPresent
<1>4. LeftPresent'
  <2>1. ASSUME NEW s \in 1 .. Len(imports), imports'[s].entered
        PROVE  (\E k \in 1 .. Depth : frames'[k].imp = s) \/ AllPresent(s)'
    <3>1. imports[s].entered /\ s \in 0 .. Len(imports)
      BY <2>1 DEF FlagsStay
    <3>2. AllPresent(s) => AllPresent(s)'
      BY <1>2, <3>1, PresentStays
    <3>. QED BY <1>1, <3>1, <3>2 DEF PresentInv, LeftPresent
  <2>. QED BY <1>1, <2>1 DEF LeftPresent
<1>5. PresentSoFar'
  <2>1. FileOf(i)' = FileOf(i) /\ prog' = prog /\ FileOf(Top.imp)' = FileOf(i)' /\ \A k : Present(Top.imp, k)' <=> Present(i, k)'
    BY <1>2, PresentStays DEF FileOf, Present
  <2>2. SUFFICES ASSUME st = "pass2", NEW k \in DOMAIN prog[FileOf(i)].decls, k < n PROVE Present(i, k)'
    BY <1>1, <1>2, <2>1 DEF PresentSoFar
  <2>3. k \in Nat \ {0} /\ at \in Nat
    <3>1. PICK file \in Files : file = FileOf(i)
      BY HereFacts, CallTypes, StayFacts DEF SettledInv, FilesMatch, Top, Frame
    <3>2. prog[file].decls \in Seq(DeclType)
      BY <1>2 DEF TypeOK, SourceType
    <3>. QED BY <3>1, <3>2, StayFacts
  <2>4. Top.stage = "pass2" /\ n = at + 1 /\ Present(i, at)'
    BY <2>2, <2>3
  <2>5. CASE k = at
    BY <2>4, <2>5
  <2>6. CASE k # at
    <3>1. k < Top.pc
      BY <2>2, <2>3, <2>4, <2>6
    <3>2. Present(i, k)
      BY <2>4, <3>1 DEF PresentInv, PresentSoFar
    <3>. QED BY <1>2, <3>2, PresentStays
  <2>. QED BY <2>5, <2>6
<1>. QED BY <1>3, <1>4, <1>5 DEF PresentInv

\* A call: the package that is registered is on the call stack.
LEMMA CallsKeepPresent ==
  ASSUME IInv, SettledInv, PackagesStay, FlagsStay, SymbolsStay, PresentInv, Calls
  PROVE  PresentInv'
<1>1. /\ Depth' = Depth + 1 /\ Depth \in Nat \ {0} /\ Len(imports') = Len(imports) + 1 /\ Len(imports) \in Nat
      /\ \A k \in 1 .. Depth : frames'[k].imp = frames[k].imp
      /\ Top' = frames'[Depth + 1] /\ Top'.imp = Len(imports) + 1 /\ Top'.stage \in {"enter", "return"}
      /\ Registering(Top) /\ TypeOK
  BY CalledFrames, StayFacts
<1>2. MainPresent' /\ PresentSoFar'
  <2>1. semOk' = semOk
    BY DEF Calls, AutoImportRuntime, AutoImportIntrinsics, HandleImport, HandleImportNamed, HandleImportUsing
  <2>2. semOk = "running"
    BY <1>1, Going DEF Registering
  <2>. QED BY <1>1, <2>1, <2>2 DEF MainPresent, PresentSoFar
<1>3. ASSUME NEW s \in 1 .. Len(imports) + 1, imports'[s].entered
      PROVE  (\E k \in 1 .. Depth + 1 : frames'[k].imp = s) \/ AllPresent(s)'
  <2>1. CASE s = Len(imports) + 1
    BY <1>1, <2>1
  <2>2. CASE s # Len(imports) + 1
    <3>1. s \in 1 .. Len(imports) /\ s \in 0 .. Len(imports)
      BY <1>1, <2>2
    <3>2. AllPresent(s) => AllPresent(s)'
      BY <1>1, <3>1, PresentStays
    <3>3. imports[s].entered
      BY <1>3, <3>1 DEF FlagsStay
    <3>4. \A k \in 1 .. Depth : k \in 1 .. Depth + 1
      BY <1>1
    <3>. QED BY <1>1, <3>1, <3>2, <3>3, <3>4 DEF PresentInv, LeftPresent
  <2>. QED BY <2>1, <2>2
<1>. QED BY <1>1, <1>2, <1>3 DEF PresentInv, LeftPresent

\* When pass 2 is over, everything is present.
LEMMA OverPresent ==
  ASSUME IInv, SettledInv, PresentInv, Top.stage = "pass2", ~ AtDecl, NEW i, i = Top.imp
  PROVE  AllPresent(i)
<1>1. Top.file = FileOf(Top.imp) /\ Top.file \in Files
  BY CallTypes, StayFacts DEF SettledInv, FilesMatch, Top, Frame
<1>2. prog[Top.file].decls \in Seq(DeclType) /\ Top.pc \in Nat
  BY <1>1, StayFacts DEF TypeOK, SourceType
<1>3. \A k \in DOMAIN prog[Top.file].decls : k < Top.pc
  BY <1>2 DEF AtDecl, Decls
<1>. QED BY <1>1, <1>3 DEF PresentInv, PresentSoFar, AllPresent

\* A return: the package was never entered, or its pass 2 is over.
LEMMA ReturnKeepsPresent ==
  ASSUME IInv, SettledInv, PackagesStay, FlagsStay, SymbolsStay, PresentInv, ReturnImport
  PROVE  PresentInv'
<1>1. /\ Depth' = Depth - 1 /\ Depth - 1 \in Nat \ {0} /\ Depth \in Nat \ {0} /\ Depth \in 1 .. Depth
      /\ \A k \in 1 .. Depth - 1 : k \in 1 .. Depth /\ frames'[k] = frames[k] /\ Registering(frames[k])
      /\ Top' = frames[Depth - 1] /\ Depth - 1 \in 1 .. Depth - 1
      /\ Len(imports') = Len(imports) /\ TypeOK
  BY PoppedFrames, CallTypes, StayFacts
<1>2. MainPresent' /\ PresentSoFar'
  <2>1. semOk' = semOk /\ Depth # 1
    BY <1>1 DEF ReturnImport
  <2>2. semOk = "running"
    BY <2>1, Going
  <2>3. Registering(Top')
    BY <1>1
  <2>. QED BY <2>1, <2>2, <2>3 DEF MainPresent, PresentSoFar, Registering
<1>3. ASSUME NEW s \in 1 .. Len(imports), imports'[s].entered
      PROVE  (\E k \in 1 .. Depth - 1 : frames'[k].imp = s) \/ AllPresent(s)'
  <2>1. imports[s].entered /\ s \in 0 .. Len(imports)
    BY <1>3 DEF FlagsStay
  <2>2. AllPresent(s) => AllPresent(s)'
    BY <1>1, <2>1, PresentStays
  <2>3. CASE AllPresent(s)
    BY <2>2, <2>3
  <2>4. CASE \E k \in 1 .. Depth : frames[k].imp = s
    <3>1. PICK k \in 1 .. Depth : frames[k].imp = s
      BY <2>4
    <3>2. CASE k = Depth
      <4>1. Top.imp = s /\ Depth \in 2 .. Depth
        BY <1>1, <3>1, <3>2 DEF Top
      <4>2. Top.stage # "return"
        BY <2>1, <4>1 DEF SettledInv, CalleeStages, Registering, Top
      <4>3. AllPresent(s)
        BY <4>1, <4>2, OverPresent DEF ReturnImport
      <4>. QED BY <2>2, <4>3
    <3>3. CASE k # Depth
      <4>1. k \in 1 .. Depth - 1
        BY <1>1, <3>3
      <4>. QED BY <1>1, <3>1, <4>1
    <3>. QED BY <3>2, <3>3
  <2>. QED BY <2>1, <2>3, <2>4 DEF PresentInv, LeftPresent
<1>. QED BY <1>1, <1>2, <1>3 DEF PresentInv, LeftPresent

\* What pass 2 passes is present.
LEMMA PassedPresent ==
  ASSUME IInv, SettledInv, MangledInv, PackagesStay, SkipImport \/ AnalyseDecl \/ AnalyseGroup \/ AnalyseVar,
         NEW i, i = Top.imp, NEW at, at = Top.pc
  PROVE  Present(i, at)'
<1>1. /\ CurrentScope = i /\ i \in 0 .. Len(imports) /\ syms[i] \in Scope /\ Top.file = FileOf(i) /\ Top.file \in Files
      /\ syms \in [0 .. Len(imports) -> Scope]
  BY HereFacts, StayFacts
<1>2. prog' = prog /\ FileOf(i)' = FileOf(i) /\ Decl = prog[FileOf(i)].decls[at] /\ AtDecl
  <2>1. Len(imports) \in Nat
    BY CallTypes
  <2>2. AtDecl
    BY Zenon DEF SkipImport, AnalyseDecl, AnalyseGroup, AnalyseVar
  <2>3. prog' = prog /\ FileOf(i)' = FileOf(i)
    BY <1>1, <2>1 DEF PackagesStay, FileOf
  <2>4. Decl = prog[FileOf(i)].decls[at]
    BY <1>1 DEF Decl, Decls
  <2>. QED BY <2>2, <2>3, <2>4
<1>3. CASE SkipImport
  <2>1. Decl.op \notin Evaluated
    BY <1>3 DEF SkipImport, ImportOps, Evaluated
  <2>. QED BY <1>2, <2>1 DEF Present
<1>4. CASE AnalyseDecl \/ AnalyseGroup \/ AnalyseVar
  <2>1. PICK id \in Ids, file \in Files, old \in Scope : id = Decl.id /\ file = Top.file /\ old = syms[i]
    BY <1>1, <1>2, <1>4, StayFacts, DeclFields DEF AnalyseDecl, AnalyseGroup, AnalyseVar
  <2>2. PICK new \in Scope : syms' = [syms EXCEPT ![i] = new] /\ Analysed(old, new, id)
    BY <1>1, <1>4, <2>1, AnalysedForms
  <2>3. syms'[i][id] # NoSym
    BY <1>1, <2>2 DEF Analysed
  <2>. QED BY <1>2, <2>1, <2>3 DEF Present
<1>. QED BY <1>3, <1>4

\* So it is in every step.
LEMMA NextPresent ==
  ASSUME IInv, SettledInv, MangledInv, PackagesStay, FlagsStay, SymbolsStay, PresentInv, Next
  PROVE  PresentInv'
<1>. USE StayFacts, StepForms
<1>0. PICK i \in 0 .. Len(imports), at \in Nat : i = Top.imp /\ at = Top.pc
  BY CallTypes
<1>1. ASSUME NEW st \in Stages, NEW n \in Nat, NEW from \in Nat, frames' = MoveTo(st, n, from),
             Len(imports') = Len(imports),
             st = "pass2" => n = 1 \/ (Top.stage = "pass2" /\ n = at + 1 /\ Present(i, at)'),
             st = "track" \/ (semOk' = "ok" /\ ~ buildIgnored') => AllPresent(0)
      PROVE  PresentInv'
  BY <1>0, <1>1, MoveKeepsPresent
<1>2. CASE EnterPass1
  <2>1. semOk' = "running" /\ Len(imports') = Len(imports) /\ Len(pending) \in Nat
    BY <1>2, Going, SnapshotFacts DEF EnterPass1
  <2>2. CASE buildIgnored'
    <3>1. frames' = MoveTo("return", Top.pc, Top.savedPending)
      BY <1>2, <2>2, MoveForms DEF EnterPass1
    <3>2. "return" \in Stages /\ Top.pc \in Nat /\ Top.savedPending \in Nat
      BY TopType, SequenceTypes DEF Stages, Frame
    <3>. QED BY <1>1, <2>1, <2>2, <3>1, <3>2
  <2>3. CASE ~ buildIgnored'
    <3>1. frames' = MoveTo("runtime", Top.pc, Len(pending))
      BY <1>2, <2>3, MoveForms DEF EnterPass1
    <3>. QED BY <1>1, <2>1, <3>1
  <2>. QED BY <2>2, <2>3
<1>3. CASE SkipPrelude \/ CopyRuntimeSymbols \/ PackageClause
  <2>1. semOk' = "running" /\ Len(imports') = Len(imports)
    BY <1>3, Going DEF SkipPrelude, CopyRuntimeSymbols, PackageClause
  <2>2. \E st \in {"intrinsics", "copy", "clause", "pass1"} : frames' = Goto(st) \/ frames' = GotoAt(st, 1)
    BY <1>3, Zenon DEF SkipPrelude, CopyRuntimeSymbols, PackageClause
  <2>3. PICK st \in {"intrinsics", "copy", "clause", "pass1"}, n \in Nat : frames' = MoveTo(st, n, Top.savedPending) /\ st \in Stages
    BY <2>2
  <2>. QED BY <1>1, <2>1, <2>3
<1>4. CASE ImportFails \/ ImportCycle \/ RegisterDecl \/ RegisterVar \/ RegisterGroup
  <2>1. Top.stage = "pass1" /\ frames' = NextDecl
    BY <1>4 DEF ImportFails, ImportCycle, AtImport, RegisterDecl, RegisterVar, RegisterGroup
  <2>2. semOk' = "running" /\ Len(imports') = Len(imports)
    BY <1>4, <2>1, Going DEF ImportFails, ImportCycle, RegisterDecl, RegisterVar, RegisterGroup
  <2>. QED BY <1>1, <2>1, <2>2
<1>5. CASE EndPass1
  <2>1. semOk' = "running" /\ Len(imports') = Len(imports)
    BY <1>5, Going DEF EndPass1
  <2>2. CASE frames' = Goto("check")
    BY <1>1, <2>1, <2>2
  <2>3. CASE frames' = GotoAt("pass2", 1)
    BY <1>1, <2>1, <2>3
  <2>. QED BY <1>5, <2>2, <2>3 DEF EndPass1
<1>6. CASE SkipImport \/ AnalyseDecl \/ AnalyseGroup \/ AnalyseVar
  <2>1. Top.stage = "pass2" /\ frames' = NextDecl
    BY <1>6 DEF SkipImport, AnalyseDecl, AnalyseGroup, AnalyseVar
  <2>2. semOk' = "running"
    BY <1>6, <2>1, Going DEF SkipImport, AnalyseDecl, AnalyseGroup, AnalyseVar
  <2>3. Len(imports') = Len(imports)
    <3>1. CASE imports' = imports
      BY <3>1
    <3>2. CASE \E x : imports' = [imports EXCEPT ![x].used = TRUE]
      BY <3>2, FieldKeepsFlags
    <3>. QED BY <1>6, <3>1, <3>2, Zenon DEF SkipImport, AnalyseDecl, AnalyseGroup, AnalyseVar, EvalRef
  <2>4. Present(i, at)'
    BY <1>0, <1>6, PassedPresent
  <2>5. frames' = MoveTo("pass2", at + 1, Top.savedPending) /\ at + 1 \in Nat
    BY <1>0, <2>1
  <2>. QED BY <1>1, <2>1, <2>2, <2>3, <2>4, <2>5
<1>7. CASE CheckPass1
  <2>1. Len(imports') = Len(imports) /\ semOk = "running"
    BY <1>7, Going DEF CheckPass1
  <2>2. CASE errors # {}
    BY <1>1, <1>7, <2>1, <2>2 DEF CheckPass1
  <2>3. CASE errors = {}
    BY <1>1, <1>7, <2>1, <2>3 DEF CheckPass1
  <2>. QED BY <2>2, <2>3
<1>8. CASE CheckPass2
  <2>1. Len(imports') = Len(imports) /\ semOk = "running" /\ AllPresent(0)
    <3>1. Top.imp = 0
      BY <1>8, CallTypes DEF CheckPass2
    <3>. QED BY <1>8, <3>1, Going, OverPresent DEF CheckPass2
  <2>2. CASE errors # {}
    BY <1>1, <1>8, <2>1, <2>2 DEF CheckPass2
  <2>3. CASE errors = {}
    BY <1>1, <1>8, <2>1, <2>3 DEF CheckPass2
  <2>. QED BY <2>2, <2>3
<1>9. CASE TrackUsage \/ FinishTrack
  <2>1. AllPresent(0)
    BY <1>9 DEF TrackUsage, FinishTrack, PresentInv, MainPresent
  <2>2. Len(imports') = Len(imports)
    <3>1. Len(imports') = Len(imports) \/ Calls \/ ReturnImport \/ IgnoredMain
      BY NextShapes
    <3>2. Len(imports') = Len(imports) \/ Calls
      BY <3>1, PoppedFrames DEF IgnoredMain
    <3>3. ~ Calls
      <4>1. Top.stage = "track"
        BY <1>9 DEF TrackUsage, FinishTrack
      <4>. QED BY <4>1, CalledFrames DEF Registering
    <3>. QED BY <3>2, <3>3
  <2>3. CASE frames' = NextDecl
    <3>1. Top.stage = "track"
      BY <1>9 DEF TrackUsage, FinishTrack
    <3>. QED BY <1>1, <2>1, <2>2, <2>3, <3>1
  <2>4. CASE frames' = Goto("return")
    BY <1>1, <2>1, <2>2, <2>4
  <2>. QED BY <1>9, <2>3, <2>4 DEF TrackUsage, FinishTrack
<1>10. CASE IgnoredMain
  <2>1. /\ UNCHANGED <<prog, imports, syms, frames, buildIgnored>> /\ buildIgnored
    BY <1>10 DEF IgnoredMain, SettledInv, MainEnds
  <2>2. Depth' = Depth /\ Top' = Top
    BY <2>1 DEF Depth, Top
  <2>3. \A s : AllPresent(s) => AllPresent(s)'
    BY <2>1 DEF AllPresent, Present, FileOf
  <2>4. Top.stage = "return"
    BY <1>10 DEF IgnoredMain
  <2>. QED BY <2>1, <2>2, <2>3, <2>4 DEF PresentInv, PresentSoFar, LeftPresent, MainPresent
<1>. QED BY <1>2, <1>3, <1>4, <1>5, <1>6, <1>7, <1>8, <1>9, <1>10, CallsKeepPresent, ReturnKeepsPresent, Zenon DEF Next, Calls

\* Nothing is annotated, and nothing is passed, when sem_analyse starts.
LEMMA InitPresent == Init => ResolvedInv /\ PresentInv
<1>. SUFFICES ASSUME Init PROVE ResolvedInv /\ PresentInv
  OBVIOUS
<1>. DEFINE f == [imp |-> 0, file |-> Main, stage |-> "enter", pc |-> 1, savedName |-> NoName,
                  savedPending |-> 0, savedCount |-> 0, how |-> "main", alias |-> RuntimeName]
<1>1. frames = <<f>> /\ f.stage = "enter"
  BY DEF Init
<1>. HIDE DEF f
<1>2. Top.stage = "enter"
  BY <1>1 DEF Depth, Top
<1>3. imports = <<>> /\ semOk = "running" /\ resolved = {}
  BY DEF Init
<1>. QED BY <1>2, <1>3 DEF ResolvedInv, PresentInv, PresentSoFar, LeftPresent, MainPresent

\* What the analysis leaves to the generator.
AnalysisInv ==
  IInv /\ SettledInv /\ NamesInv /\ MangledInv /\ RegistryInv /\ OriginInv /\ ResolvedInv /\ PresentInv

LEMMA InitAnalysis == Init => AnalysisInv
BY InitInv, InitSettled, InitNames, InitMangled, InitOrigin, InitPresent DEF AnalysisInv

LEMMA NextAnalysis ==
  ASSUME AnalysisInv, Next
  PROVE  AnalysisInv'
<1>1. IInv /\ SettledInv /\ NamesInv /\ MangledInv /\ RegistryInv /\ OriginInv /\ ResolvedInv /\ PresentInv
  BY DEF AnalysisInv
<1>2. IInv' /\ SettledInv' /\ NamesInv' /\ PackagesStay /\ FlagsStay
  BY <1>1, NextInv, NextSettled, NextKeepsNames, NextKeepsPackages, NextKeepsFlags
<1>3. MangledInv' /\ RegistryInv' /\ SymbolsStay /\ FinishedStays
  BY <1>1, <1>2, NextMangled, NextRegistry, NextStays
<1>4. OriginInv'
  BY <1>1, <1>2, <1>3, NextOrigin
<1>5. ResolvedInv' /\ PresentInv'
  BY <1>1, <1>2, <1>3, NextResolved, NextPresent
<1>. QED BY <1>2, <1>3, <1>4, <1>5 DEF AnalysisInv

\* The steps of the generator that write no scope.
LEMMA StillAnalysis ==
  ASSUME AnalysisInv, UNCHANGED vars
  PROVE  AnalysisInv'
<1>1. IInv /\ SettledInv /\ NamesInv /\ MangledInv /\ RegistryInv /\ OriginInv /\ ResolvedInv /\ PresentInv
  BY DEF AnalysisInv
<1>2. IInv' /\ SettledInv' /\ NamesInv' /\ MangledInv'
  BY <1>1, NextInv, NextSettled, NextKeepsNames, NextMangled
<1>3. Depth' = Depth /\ Top' = Top /\ prog' = prog /\ imports' = imports /\ syms' = syms /\ frames' = frames
      /\ resolved' = resolved /\ semOk' = semOk /\ buildIgnored' = buildIgnored
  BY DEF vars, Depth, Top
<1>4. RegistryInv'
  BY <1>1, <1>3 DEF RegistryInv
<1>5. OriginInv'
  <2>1. \A e, here, id : Known(e, here, id) => Known(e, here, id)'
    BY <1>3 DEF Known, DeclaresAs, Home, Finished
  <2>2. ASSUME NEW s \in 0 .. Len(imports), NEW id \in Ids PROVE Known(syms[s][id], FileOf(s), id)'
    <3>1. PICK e, here : e = syms[s][id] /\ here = FileOf(s)
      OBVIOUS
    <3>2. Known(e, here, id)
      BY <1>1, <3>1 DEF OriginInv
    <3>3. Known(e, here, id)'
      BY <2>1, <3>2
    <3>4. e = syms'[s][id] /\ here = FileOf(s)'
      BY <1>3, <3>1 DEF FileOf
    <3>. QED BY <3>3, <3>4 DEF Known
  <2>. QED BY <1>3, <2>2 DEF OriginInv
<1>6. ResolvedInv'
  BY <1>1, <1>3 DEF ResolvedInv, ResolvedRight, FileOf
<1>7. PresentInv'
  <2>1. \A s, k : Present(s, k) => Present(s, k)'
    BY <1>3 DEF Present, FileOf
  <2>2. \A s : AllPresent(s) => AllPresent(s)'
    BY <1>3, <2>1 DEF AllPresent, FileOf
  <2>3. PresentSoFar'
    BY <1>1, <1>3, <2>1 DEF PresentInv, PresentSoFar, FileOf
  <2>. QED BY <1>1, <1>3, <2>2, <2>3 DEF PresentInv, LeftPresent, MainPresent
<1>. QED BY <1>2, <1>4, <1>5, <1>6, <1>7 DEF AnalysisInv

\* Once the main program is accepted the analysis has ended.
LEMMA AnalysisEnds ==
  ASSUME IInv, SettledInv, semOk = "ok"
  PROVE  /\ Depth = 1 /\ Top.stage = "return" /\ Top.imp = 0
         /\ \A s \in 1 .. Len(imports) : Finished(s)
         /\ ~ Next
<1>1. Depth = 1 /\ Top.stage = "return"
  BY DEF SettledInv, MainEnds
<1>2. Top.imp = 0 /\ frames[1].imp = 0
  BY <1>1, CallTypes DEF Top
<1>3. DOMAIN frames = 1 .. 1
  BY <1>1, StayFacts DEF FramesOK, Depth
<1>4. \A s \in 1 .. Len(imports) : Finished(s)
  BY <1>2, <1>3 DEF Finished
<1>5. ~ Next
  BY <1>1 DEF Next, EnterPass1, AutoImportRuntime, AutoImportIntrinsics, SkipPrelude, CopyRuntimeSymbols,
     PackageClause, ImportFails, ImportCycle, HandleImport, HandleImportNamed, HandleImportUsing, ReturnImport,
     RegisterDecl, RegisterVar, RegisterGroup, EndPass1, SkipImport, AnalyseDecl, AnalyseGroup, AnalyseVar,
     CheckPass1, IgnoredMain, CheckPass2, TrackUsage, FinishTrack, CanImport, AtImport
<1>. QED BY <1>1, <1>2, <1>4, <1>5

\* The generator copies the using imports again into the scope of the main program.
LEMMA CopiedAnalysis ==
  ASSUME AnalysisInv, semOk = "ok", NEW j \in 1 .. Len(imports), imports[j].isUsing,
         syms' = [syms EXCEPT ![0] = CopyUsing(syms[j], @)],
         UNCHANGED <<prog, imports, scopes, importStack, regDepth, pkgName, pending, resolved, errors,
                     buildIgnored, frames, semOk>>
  PROVE  AnalysisInv'
<1>1. IInv /\ SettledInv /\ NamesInv /\ MangledInv /\ RegistryInv /\ OriginInv /\ ResolvedInv /\ PresentInv
  BY DEF AnalysisInv
<1>2. /\ Depth = 1 /\ Depth' = 1 /\ Top.stage = "return" /\ Top' = Top /\ Top.imp = 0
      /\ \A s \in 1 .. Len(imports) : Finished(s) /\ Finished(s)'
  <2>1. Depth = 1 /\ Top.stage = "return" /\ Top.imp = 0 /\ \A s \in 1 .. Len(imports) : Finished(s)
    BY <1>1, AnalysisEnds
  <2>. QED BY <2>1 DEF Depth, Top, Finished
<1>3. Len(imports) \in Nat /\ syms \in [0 .. Len(imports) -> Scope] /\ TypeOK /\ j \in 0 .. Len(imports) /\ j # 0
      /\ imports' = imports /\ prog' = prog
  BY <1>1, StayFacts, CallTypes
<1>4. CopyUsing(syms[j], syms[0]) \in Scope
  BY <1>3, CopyUsingType
<1>5. syms' \in [0 .. Len(imports) -> Scope] /\ \A s \in 1 .. Len(imports) : syms'[s] = syms[s]
  BY <1>3, <1>4
<1>6. IInv'
  <2>1. TypeOK'
    BY <1>3, <1>5 DEF TypeOK
  <2>2. ControlInv' /\ DirectIffDeclaredByMain'
    BY <1>1 DEF IInv, ControlInv, CallsInv, ScopesMatchCalls, DirectIffDeclaredByMain, Depth, Top, Registering
  <2>. QED BY <2>1, <2>2 DEF IInv
<1>7. SettledInv'
  <2>1. FilesMatch' /\ CalleeStages' /\ LeftSettled' /\ SettledSoFar' /\ (AllSettled(0) => AllSettled(0)')
    BY <1>1, StutterKeepsSettled
  <2>2. MainEnds'
    BY <1>1, <1>2, <2>1 DEF SettledInv, MainEnds
  <2>. QED BY <2>1, <2>2 DEF SettledInv
<1>8. NamesInv'
  BY <1>1, StutterKeepsNames
<1>9. MangledInv'
  <2>1. ScopesDefined'
    <3>1. frames'[1].stage = "return"
      BY <1>2 DEF Top
    <3>. QED BY <1>2, <3>1 DEF ScopesDefined, DefinedSoFar
  <2>2. UnenteredEmpty' /\ TopMangled'
    BY <1>2 DEF UnenteredEmpty, TopMangled
  <2>3. ValuesDeclared'
    <3>1. SUFFICES ASSUME NEW s \in 1 .. Len(imports), NEW id \in Ids PROVE FromFile(syms[s], id)'
      BY <1>3 DEF ValuesDeclared
    <3>2. FromFile(syms[s], id)
      BY <1>1, <1>2 DEF MangledInv, ValuesDeclared
    <3>. QED BY <1>3, <1>5, <3>2 DEF FromFile, DeclaredBy
  <2>4. FinishedMangled'
    <3>1. SUFFICES ASSUME NEW s \in 1 .. Len(imports), NEW id \in Ids,
                          imports[s].prelude = "none", syms'[s][id] # NoSym, DeclaredBy(imports[s].file, id)'
                   PROVE  syms'[s][id].llvm = <<prog[imports[s].file].clause, id>>
      BY <1>3 DEF FinishedMangled
    <3>2. DeclaredBy(imports[s].file, id)
      BY <1>3, <3>1 DEF DeclaredBy
    <3>. QED BY <1>1, <1>2, <1>5, <3>1, <3>2 DEF MangledInv, FinishedMangled
  <2>. QED BY <2>1, <2>2, <2>3, <2>4 DEF MangledInv
<1>10. RegistryInv'
  BY <1>1, <1>2 DEF RegistryInv
<1>11. PackagesStay /\ FlagsStay
  BY <1>3 DEF PackagesStay, FlagsStay
<1>12. Writes
  <2>1. 1 \in 1 .. Depth /\ frames[1].imp = 0 /\ 0 \in 0 .. Len(imports)
    BY <1>2, <1>3 DEF Top
  <2>. QED BY <1>1, <1>2, <1>3, <2>1, CopyWrites
<1>13. SymbolsStay /\ FinishedStays
  <2>1. SymbolsStay
    BY <1>1, <1>12, WritesStay
  <2>. QED BY <1>2, <1>5, <2>1 DEF FinishedStays
<1>14. OriginInv'
  BY <1>1, <1>3, <1>6, <1>9, <1>11, <1>12, <1>13, WritesKeepOrigin
<1>15. ResolvedInv'
  <2>1. Len(imports') \in Nat /\ resolved \subseteq Resolution /\ resolved' = resolved
    BY <1>3 DEF TypeOK
  <2>. QED BY <1>1, <1>11, <1>13, <2>1, ResolvedStays DEF ResolvedInv
<1>16. PresentInv'
  <2>1. \A s \in 0 .. Len(imports) : AllPresent(s) => AllPresent(s)'
    BY <1>3, <1>11, <1>13, PresentStays
  <2>2. LeftPresent'
    <3>1. \A s \in 1 .. Len(imports) : s \in 0 .. Len(imports)
      BY <1>3
    <3>. QED BY <1>1, <1>2, <1>3, <2>1, <3>1 DEF PresentInv, LeftPresent
  <2>3. 0 \in 0 .. Len(imports)
    BY <1>3
  <2>. QED BY <1>1, <1>2, <2>1, <2>2, <2>3 DEF PresentInv, PresentSoFar, MainPresent
<1>. QED BY <1>6, <1>7, <1>8, <1>9, <1>10, <1>14, <1>15, <1>16 DEF AnalysisInv

-----------------------------------------------------------------------------
(* The generator: which packages it has generated, which names have a body *)
(* and which symbols a value, and what the references became.              *)

Slots  == LlvmNames \cup {NoVal}
Bodies == [scope : Nat, file : Files, id : Ids]
ValueTables == [0 .. Len(imports) -> [Ids -> Slots]]

\* The declarations of a scope that are generated.
Emits(s) ==
  \/ s = 0 /\ phase \in {"main", "done"} /\ ~ buildIgnored
  \/ s \in 1 .. Len(imports) /\ ~ Skipped(s)

GenTypes ==
  /\ phase \in {"off", "imports", "recopy", "main", "done"}
  /\ gi \in Nat \ {0} /\ gpc \in Nat \ {0} /\ done \subseteq 1 .. Len(imports)
  /\ bodies \in [LlvmNames -> Seq(Bodies)]
  /\ phase # "off" => val \in ValueTables
\* The packages behind gi were generated or left out; a declaration is being
\* generated in a package that is not left out, or in the main program.
GenPhases ==
  /\ phase = "off" => done = {} /\ gi = 1 /\ gpc = 1 /\ emitted = {}
  /\ phase # "off" => semOk = "ok"
  /\ phase = "imports" => \A i \in 1 .. Len(imports) : i < gi => i \in done \/ Skipped(i)
  /\ phase \in {"recopy", "main", "done"} => \A i \in 1 .. Len(imports) : i \in done \/ Skipped(i)
  /\ \A i \in done : ~ Skipped(i) /\ (phase = "imports" => i < gi)
  /\ phase = "imports" /\ gpc # 1 => gi \in 1 .. Len(imports) /\ ~ Skipped(gi)
  /\ phase = "main" => ~ buildIgnored

\* Declaration k of scope s has a body, and a variable a value.
Has(s, k) ==
  LET d == prog[FileOf(s)].decls[k]
  IN  d.op \in Generated => bodies[NameOf(s, d.id)] # <<>> /\ (d.op = "var" => val[s][d.id] # NoVal)
HasAll(s) == \A k \in DOMAIN prog[FileOf(s)].decls : Has(s, k)
GenProgress ==
  /\ \A i \in done : HasAll(i)
  /\ phase = "imports" /\ gi \in 1 .. Len(imports) => \A k \in DOMAIN prog[FileOf(gi)].decls : k < gpc => Has(gi, k)
  /\ phase = "main" => \A k \in DOMAIN prog[Main].decls : k < gpc => Has(0, k)
  /\ phase = "done" /\ ~ buildIgnored => HasAll(0)

\* The name n is that of the symbol, or of the symbol of a using import that the
\* main program's was copied from.
Denotes(t, id, n) ==
  \/ n = NameOf(t, id)
  \/ t = 0 /\ \E j \in 1 .. Len(imports) : /\ imports[j].isUsing /\ syms[j][id] # NoSym /\ syms[0][id] # NoSym
                                           /\ syms[j][id].val = syms[0][id].val /\ n = NameOf(j, id)
Explained(v) ==
  v \in ValueTables /\ \A t \in 0 .. Len(imports), id \in Ids : v[t][id] = NoVal \/ Denotes(t, id, v[t][id])
GenValues == phase # "off" => Explained(val)

\* A reference was emitted for a declaration that is generated, and denotes the
\* procedure it was resolved to; a variable of a package generated before has
\* its value.
Origin(e) ==
  /\ Emits(e.from) /\ e.at \in DOMAIN prog[FileOf(e.from)].decls
  /\ prog[FileOf(e.from)].decls[e.at].op \in Evaluated /\ RefOf(e) # NoRef
RightAt(e, t, id) ==
  LET v == syms[t][id].val
  IN  /\ v.kind = "proc" => Denotes(t, id, e.name)
      /\ t \in 1 .. Len(imports) /\ ~ Skipped(t) /\ (e.from = 0 \/ t < e.from) /\ v.file = FileOf(t) /\ v.kind = "var"
           => e.name # NoVal
GenRefs == \A e \in emitted : Origin(e) /\ RightAt(e, ScopeOf(e), RefOf(e).id)

GenInv == GenTypes /\ GenPhases /\ GenProgress /\ GenValues /\ GenRefs

-----------------------------------------------------------------------------
\* A symbol is generated under an LLVM name.
LEMMA NameType ==
  ASSUME TypeOK, NEW s \in 0 .. Len(imports), NEW id \in Ids, syms[s][id] # NoSym
  PROVE  NameOf(s, id) \in LlvmNames /\ NameOf(s, id) # NoVal
<1>1. syms \in [0 .. Len(imports) -> Scope]
  BY DEF TypeOK
<1>2. PICK x \in Symbols : x = syms[s][id]
  BY <1>1 DEF Scope
<1>3. x.llvm \in (Names \X Ids) \cup {NoLlvm}
  BY DEF Symbols
<1>4. NameOf(s, id) = IF x.llvm # NoLlvm THEN x.llvm ELSE <<NoName, id>>
  BY <1>2 DEF NameOf
<1>5. Names \X Ids \subseteq LlvmNames /\ <<NoName, id>> \in LlvmNames
  BY DEF LlvmNames
<1>6. NameOf(s, id) \in LlvmNames
  BY <1>3, <1>4, <1>5
<1>. QED BY <1>6, CodegenAssumption

\* A scope that is generated was analysed to its end.
LEMMA EmitsFacts ==
  ASSUME AnalysisInv, GenPhases, phase # "off", NEW s, Emits(s)
  PROVE  /\ s \in 0 .. Len(imports) /\ AllPresent(s) /\ AllSettled(s) /\ errors = {} /\ FileOf(s) \in Files
         /\ Len(imports) \in Nat /\ TypeOK
<1>1. IInv /\ SettledInv /\ RegistryInv /\ PresentInv /\ semOk = "ok"
  BY DEF AnalysisInv, GenPhases
<1>2. Len(imports) \in Nat /\ TypeOK /\ imports \in Seq(Package)
  BY <1>1, StayFacts, CallTypes
<1>3. Depth = 1 /\ \A i \in 1 .. Len(imports) : Finished(i)
  BY <1>1, AnalysisEnds
<1>4. DOMAIN frames = 1 .. Depth
  BY <1>1, StayFacts DEF FramesOK, Depth
<1>5. ~ buildIgnored
  <2>1. s = 0 \/ s \in 1 .. Len(imports)
    BY DEF Emits
  <2>2. buildIgnored => imports = <<>>
    BY <1>1 DEF RegistryInv
  <2>. QED BY <1>2, <2>1, <2>2 DEF Emits
<1>6. errors = {} /\ AllSettled(0) /\ AllPresent(0)
  BY <1>1, <1>5 DEF SettledInv, MainEnds, PresentInv, MainPresent
<1>7. CASE s = 0
  BY <1>2, <1>6, <1>7, ConstantsAssumption DEF FileOf
<1>8. CASE s \in 1 .. Len(imports) /\ ~ Skipped(s)
  <2>1. imports[s].entered
    BY <1>1, <1>8 DEF RegistryInv, Skipped
  <2>2. \A n \in 1 .. Depth : frames[n].imp # s
    BY <1>3, <1>4, <1>8 DEF Finished
  <2>3. AllSettled(s) /\ AllPresent(s)
    BY <1>1, <1>8, <2>1, <2>2 DEF SettledInv, LeftSettled, PresentInv, LeftPresent
  <2>4. FileOf(s) \in Files /\ s \in 0 .. Len(imports)
    <3>1. imports[s] \in Package /\ s # 0 /\ s \in 0 .. Len(imports)
      BY <1>2, <1>8
    <3>. QED BY <3>1 DEF FileOf, Package
  <2>. QED BY <1>2, <1>6, <2>3, <2>4
<1>. QED BY <1>7, <1>8 DEF Emits

\* What the reference of a declaration that is generated leads to.
LEMMA LooksUpFacts ==
  ASSUME AnalysisInv, GenPhases, phase # "off", NEW s, Emits(s),
         NEW k \in DOMAIN prog[FileOf(s)].decls, NEW r, r = prog[FileOf(s)].decls[k].ref, r # NoRef,
         prog[FileOf(s)].decls[k].op \in Evaluated, NEW t, t = LooksUp(s, k, r)
  PROVE  /\ t \in 0 .. Len(imports) /\ r.id \in Ids /\ syms[t][r.id] # NoSym
         /\ t = 0 => s = 0
         /\ t # s => t \in 1 .. Len(imports) /\ imports[t].used
<1>1. s \in 0 .. Len(imports) /\ AllSettled(s) /\ errors = {} /\ FileOf(s) \in Files /\ TypeOK /\ Len(imports) \in Nat
  BY EmitsFacts
<1>2. PICK x \in resolved : x.from = s /\ x.at = k /\ x.id = r.id
  BY <1>1 DEF AllSettled, Settled, Evaluated
<1>3. \A y \in resolved : y.from = s /\ y.at = k /\ y.id = r.id =>
        /\ y.to \in 0 .. Len(imports) /\ syms[y.to][r.id] # NoSym
        /\ r.pkg = NoName => y.to = s
        /\ r.pkg # NoName => y.to \in 1 .. Len(imports) /\ imports[y.to].used
  BY DEF AnalysisInv, ResolvedInv, ResolvedRight
<1>4. r.id \in Ids
  <2>1. resolved \subseteq Resolution
    BY <1>1 DEF TypeOK
  <2>. QED BY <1>2, <2>1 DEF Resolution
<1>5. CASE r.pkg = NoName
  BY <1>1, <1>2, <1>3, <1>4, <1>5 DEF LooksUp
<1>6. CASE r.pkg # NoName
  <2>. DEFINE P(y) == y.from = s /\ y.at = k /\ y.id = r.id
  <2>1. PICK y \in resolved : P(y) /\ y = CHOOSE z \in resolved : P(z)
    BY <1>2
  <2>2. t = y.to
    BY <1>6, <2>1 DEF LooksUp
  <2>. HIDE DEF P
  <2>3. y.from = s /\ y.at = k /\ y.id = r.id
    BY <2>1 DEF P
  <2>4. t \in 1 .. Len(imports) /\ imports[t].used /\ syms[t][r.id] # NoSym
    BY <1>3, <1>6, <2>2, <2>3
  <2>. QED BY <1>1, <1>4, <2>4
<1>. QED BY <1>5, <1>6

\* The table v with the value n for symbol id of scope s.
Given(v, s, id, n) == [v EXCEPT ![s][id] = n]

\* A symbol is given a value: its own, or none when it had none.
LEMMA SetValue ==
  ASSUME NEW v, Explained(v), NEW s \in 0 .. Len(imports), NEW id \in Ids, NEW n \in Slots,
         n = NoVal \/ Denotes(s, id, n)
  PROVE  /\ Explained(Given(v, s, id, n)) /\ Given(v, s, id, n)[s][id] = n
         /\ \A t \in 0 .. Len(imports), x \in Ids : (t # s \/ x # id) => Given(v, s, id, n)[t][x] = v[t][x]
<1>0. PICK w : w = [v EXCEPT ![s][id] = n] /\ w = Given(v, s, id, n)
  BY DEF Given
<1>1. v \in ValueTables
  BY DEF Explained
<1>2. v[s] \in [Ids -> Slots]
  BY <1>1 DEF ValueTables
<1>3. w = [v EXCEPT ![s] = [v[s] EXCEPT ![id] = n]]
  BY <1>0
<1>4. [v[s] EXCEPT ![id] = n] \in [Ids -> Slots]
  BY <1>2
<1>5. w \in ValueTables
  BY <1>1, <1>3, <1>4 DEF ValueTables
<1>6. w[s] = [v[s] EXCEPT ![id] = n] /\ \A t \in 0 .. Len(imports) : t # s => w[t] = v[t]
  BY <1>1, <1>3 DEF ValueTables
<1>7. w[s][id] = n /\ \A x \in Ids : x # id => w[s][x] = v[s][x]
  BY <1>2, <1>6
<1>8. \A t \in 0 .. Len(imports), x \in Ids : (t # s \/ x # id) => w[t][x] = v[t][x]
  BY <1>6, <1>7
<1>9. \A t \in 0 .. Len(imports), x \in Ids : w[t][x] = NoVal \/ Denotes(t, x, w[t][x])
  <2>. TAKE t \in 0 .. Len(imports), x \in Ids
  <2>1. CASE t = s /\ x = id
    BY <1>7, <2>1
  <2>2. CASE t # s \/ x # id
    BY <1>8, <2>2 DEF Explained
  <2>. QED BY <2>1, <2>2
<1>. QED BY <1>0, <1>5, <1>7, <1>8, <1>9 DEF Explained

\* What the generator reads, it does not change.
LEMMA Statics ==
  ASSUME UNCHANGED vars
  PROVE  /\ \A i : Skipped(i)' <=> Skipped(i)
         /\ \A s : FileOf(s)' = FileOf(s)
         /\ \A s, id : NameOf(s, id)' = NameOf(s, id)
         /\ \A t, id, n : Denotes(t, id, n)' <=> Denotes(t, id, n)
         /\ \A v : Explained(v)' <=> Explained(v)
         /\ \A e : RefOf(e)' = RefOf(e) /\ ScopeOf(e)' = ScopeOf(e)
         /\ \A e, t, id : RightAt(e, t, id)' <=> RightAt(e, t, id)
         /\ prog' = prog /\ imports' = imports /\ syms' = syms /\ buildIgnored' = buildIgnored /\ semOk' = semOk
<1>1. prog' = prog /\ imports' = imports /\ syms' = syms /\ buildIgnored' = buildIgnored /\ semOk' = semOk
      /\ resolved' = resolved
  BY DEF vars
<1>2. \A i : Skipped(i)' <=> Skipped(i)
  BY <1>1 DEF Skipped
<1>3. \A s : FileOf(s)' = FileOf(s)
  BY <1>1 DEF FileOf
<1>4. \A s, id : NameOf(s, id)' = NameOf(s, id)
  BY <1>1 DEF NameOf
<1>5. \A t, id, n : Denotes(t, id, n)' <=> Denotes(t, id, n)
  BY <1>1, <1>4 DEF Denotes
<1>6. \A v : Explained(v)' <=> Explained(v)
  BY <1>1, <1>5 DEF Explained, ValueTables
<1>7. \A e : RefOf(e)' = RefOf(e)
  BY <1>1, <1>3 DEF RefOf
<1>8. \A s, k, r : LooksUp(s, k, r)' = LooksUp(s, k, r)
  BY <1>1 DEF LooksUp
<1>9. \A e : ScopeOf(e)' = ScopeOf(e)
  BY <1>7, <1>8 DEF ScopeOf
<1>10. \A e, t, id : RightAt(e, t, id)' <=> RightAt(e, t, id)
  BY <1>1, <1>2, <1>3, <1>5 DEF RightAt
<1>. QED BY <1>1, <1>2, <1>3, <1>4, <1>5, <1>6, <1>7, <1>9, <1>10

\* The value a reference takes: that of its symbol, or the name of a procedure.
LEMMA TargetFacts ==
  ASSUME TypeOK, NEW v, Explained(v), NEW t \in 0 .. Len(imports), NEW id \in Ids, syms[t][id] # NoSym,
         NEW target, target = ValueOf(v, t, id)
  PROVE  /\ target \in Slots /\ (target = NoVal \/ Denotes(t, id, target))
         /\ v[t][id] # NoVal => target # NoVal
         /\ syms[t][id].val.kind = "proc" => Denotes(t, id, target)
<1>1. NameOf(t, id) \in LlvmNames /\ NameOf(t, id) # NoVal
  BY NameType
<1>2. v[t][id] \in Slots
  BY DEF Explained, ValueTables
<1>3. CASE v[t][id] = NoVal /\ syms[t][id].val.kind = "proc"
  BY <1>1, <1>3 DEF ValueOf, Denotes, Slots
<1>4. CASE ~ (v[t][id] = NoVal /\ syms[t][id].val.kind = "proc")
  BY <1>2, <1>4 DEF ValueOf, Explained
<1>. QED BY <1>3, <1>4

\* A variable of a package that was generated before has its value.
LEMMA VariableHasValue ==
  ASSUME AnalysisInv, GenInv, NEW t \in done, NEW id \in Ids, syms[t][id] # NoSym,
         syms[t][id].val.file = FileOf(t), syms[t][id].val.kind = "var"
  PROVE  val[t][id] # NoVal
<1>1. t \in 1 .. Len(imports) /\ t \in 0 .. Len(imports) /\ HasAll(t)
  <2>1. t \in 1 .. Len(imports) /\ Len(imports) \in Nat
    BY CallTypes DEF GenInv, GenTypes, AnalysisInv
  <2>. QED BY <2>1 DEF GenInv, GenProgress
<1>2. DeclaresAs(FileOf(t), "var", id)
  BY <1>1 DEF AnalysisInv, OriginInv, Known, Generated
<1>3. PICK k \in DOMAIN prog[FileOf(t)].decls :
        prog[FileOf(t)].decls[k].op = "var" /\ prog[FileOf(t)].decls[k].id = id
  BY <1>2 DEF DeclaresAs
<1>. QED BY <1>1, <1>3 DEF HasAll, Has, Generated

\* What the generation of a declaration does to the values of the symbols, and
\* what its reference becomes.
LEMMA DeclValues ==
  ASSUME AnalysisInv, GenInv, phase # "off", NEW s, Emits(s), NEW file, file = FileOf(s),
         NEW k \in DOMAIN prog[file].decls, NEW d, d = prog[file].decls[k], d.op \in Evaluated,
         GenerateDecl(s, file, k),
         \A t \in 1 .. Len(imports) : ~ Skipped(t) /\ (s = 0 \/ t < s) => t \in done
  PROVE  /\ Explained(val') /\ val'[s][d.id] # NoVal
         /\ \A t \in 0 .. Len(imports), id \in Ids : val[t][id] # NoVal => val'[t][id] # NoVal
         /\ \/ emitted' = emitted
            \/ \E name : /\ emitted' = emitted \cup {[from |-> s, at |-> k, name |-> name]} /\ d.ref # NoRef
                         /\ \A e : e = [from |-> s, at |-> k, name |-> name] => RightAt(e, LooksUp(s, k, d.ref), d.ref.id)
<1>1. /\ s \in 0 .. Len(imports) /\ AllPresent(s) /\ file \in Files /\ TypeOK
      /\ Explained(val) /\ GenPhases
  BY EmitsFacts DEF GenInv, GenValues
<1>2. PICK id \in Ids : id = d.id /\ syms[s][id] # NoSym
  <2>1. d.id \in Ids
    BY <1>1, DeclaredIds DEF Evaluated, Declares
  <2>. QED BY <1>1, <2>1 DEF AllPresent, Present
<1>3. PICK n \in Slots : n = NameOf(s, id) /\ n # NoVal /\ Denotes(s, id, n)
  BY <1>1, <1>2, NameType DEF Slots, Denotes
<1>. DEFINE own(v) == [v EXCEPT ![s][id] = n]
<1>4. PICK before : /\ before = (IF d.op = "proc" THEN own(val) ELSE val) /\ Explained(before)
                    /\ \A t \in 0 .. Len(imports), x \in Ids : val[t][x] # NoVal => before[t][x] # NoVal
  <2>1. CASE d.op = "proc"
    <3>1. PICK w : w = Given(val, s, id, n)
      OBVIOUS
    <3>2. Explained(val)
      BY <1>1
    <3>3. /\ Explained(w) /\ w[s][id] = n
          /\ \A t \in 0 .. Len(imports), x \in Ids : (t # s \/ x # id) => w[t][x] = val[t][x]
      BY <1>1, <1>3, <3>1, <3>2, SetValue
    <3>4. w = IF d.op = "proc" THEN own(val) ELSE val
      BY <2>1, <3>1 DEF Given
    <3>5. \A t \in 0 .. Len(imports), x \in Ids : val[t][x] # NoVal => w[t][x] # NoVal
      BY <1>3, <3>3
    <3>. HIDE DEF own
    <3>. QED BY <3>3, <3>4, <3>5
  <2>2. CASE d.op # "proc"
    BY <1>1, <2>2
  <2>. QED BY <2>1, <2>2
<1>. DEFINE t == LooksUp(s, k, d.ref)
            target == ValueOf(before, t, d.ref.id)
<1>5. \/ /\ d.ref # NoRef
         /\ val' = own([before EXCEPT ![t][d.ref.id] = target])
         /\ emitted' = emitted \cup {[from |-> s, at |-> k, name |-> target]}
      \/ val' = own(before) /\ emitted' = emitted
  <2>1. CASE Refers(s, k, d.ref)
    BY <1>2, <1>3, <1>4, <2>1 DEF GenerateDecl, Refers, Evaluated
  <2>2. CASE ~ Refers(s, k, d.ref)
    BY <1>2, <1>3, <1>4, <2>2 DEF GenerateDecl, Evaluated
  <2>. QED BY <2>1, <2>2
<1>6. ASSUME NEW mid, Explained(mid), val' = own(mid),
             \A q \in 0 .. Len(imports), x \in Ids : before[q][x] # NoVal => mid[q][x] # NoVal
      PROVE  /\ Explained(val') /\ val'[s][id] # NoVal
             /\ \A q \in 0 .. Len(imports), x \in Ids : val[q][x] # NoVal => val'[q][x] # NoVal
  <2>1. PICK w : w = val' /\ w = Given(mid, s, id, n)
    BY <1>6 DEF Given
  <2>2. /\ Explained(w) /\ w[s][id] = n
        /\ \A q \in 0 .. Len(imports), x \in Ids : (q # s \/ x # id) => w[q][x] = mid[q][x]
    <3>1. Explained(mid) /\ s \in 0 .. Len(imports) /\ (n = NoVal \/ Denotes(s, id, n))
      BY <1>1, <1>3, <1>6
    <3>. HIDE DEF own
    <3>. QED BY <2>1, <3>1, SetValue
  <2>3. \A q \in 0 .. Len(imports), x \in Ids : val[q][x] # NoVal => w[q][x] # NoVal
    BY <1>3, <1>4, <1>6, <2>2
  <2>. HIDE DEF own
  <2>. QED BY <1>3, <2>1, <2>2, <2>3
<1>7. CASE val' = own(before) /\ emitted' = emitted
  BY <1>2, <1>4, <1>6, <1>7
<1>8. CASE /\ d.ref # NoRef
           /\ val' = own([before EXCEPT ![t][d.ref.id] = target])
           /\ emitted' = emitted \cup {[from |-> s, at |-> k, name |-> target]}
  <2>1. PICK r : r = d.ref /\ r # NoRef
    BY <1>8
  <2>2. PICK q, x : q = LooksUp(s, k, r) /\ x = r.id
    OBVIOUS
  <2>3. q \in 0 .. Len(imports) /\ x \in Ids /\ syms[q][x] # NoSym
    BY <1>1, <2>1, <2>2, LooksUpFacts
  <2>4. PICK name : name = target /\ name = ValueOf(before, q, x)
    BY <2>1, <2>2
  <2>5. /\ name \in Slots /\ (name = NoVal \/ Denotes(q, x, name))
        /\ before[q][x] # NoVal => name # NoVal
        /\ syms[q][x].val.kind = "proc" => Denotes(q, x, name)
    <3>1. name = ValueOf(before, q, x)
      BY <2>4
    <3>2. Explained(before) /\ TypeOK
      BY <1>1, <1>4
    <3>. HIDE DEF own, t, target
    <3>. QED BY <2>3, <3>1, <3>2, TargetFacts
  <2>6. PICK mid : mid = Given(before, q, x, name)
    OBVIOUS
  <2>7. /\ Explained(mid) /\ mid[q][x] = name
        /\ \A p \in 0 .. Len(imports), y \in Ids : (p # q \/ y # x) => mid[p][y] = before[p][y]
    <3>1. Explained(before)
      BY <1>4
    <3>. HIDE DEF own, t, target
    <3>. QED BY <2>3, <2>5, <2>6, <3>1, SetValue
  <2>8. val' = own(mid)
    BY <1>8, <2>1, <2>2, <2>4, <2>6 DEF Given
  <2>9. \A p \in 0 .. Len(imports), y \in Ids : before[p][y] # NoVal => mid[p][y] # NoVal
    BY <2>5, <2>7
  <2>10. ASSUME q \in 1 .. Len(imports), ~ Skipped(q), s = 0 \/ q < s, syms[q][x].val.file = FileOf(q),
                syms[q][x].val.kind = "var"
         PROVE  name # NoVal
    <3>1. val[q][x] # NoVal
      BY <2>3, <2>10, VariableHasValue
    <3>. QED BY <1>4, <2>3, <2>5, <3>1
  <2>11. \A e : e = [from |-> s, at |-> k, name |-> name] => RightAt(e, q, x)
    <3>. SUFFICES ASSUME NEW e, e.from = s, e.name = name PROVE RightAt(e, q, x)
      OBVIOUS
    <3>. QED BY <2>5, <2>10 DEF RightAt
  <2>. HIDE DEF own
  <2>. QED BY <1>2, <1>6, <1>8, <2>1, <2>2, <2>4, <2>7, <2>8, <2>9, <2>11
<1>. QED BY <1>5, <1>7, <1>8

\* What has a body and a value keeps it.
LEMMA HasStays ==
  ASSUME TypeOK, UNCHANGED vars, NEW s \in 0 .. Len(imports), AllPresent(s), FileOf(s) \in Files,
         \A n \in LlvmNames : bodies[n] # <<>> => bodies'[n] # <<>>,
         \A t \in 0 .. Len(imports), id \in Ids : val[t][id] # NoVal => val'[t][id] # NoVal
  PROVE  \A k \in DOMAIN prog[FileOf(s)].decls : Has(s, k) => Has(s, k)'
<1>1. FileOf(s)' = FileOf(s) /\ prog' = prog /\ \A id : NameOf(s, id)' = NameOf(s, id)
  BY Statics
<1>2. ASSUME NEW k \in DOMAIN prog[FileOf(s)].decls, Has(s, k) PROVE Has(s, k)'
  <2>1. PICK file, d : file = FileOf(s) /\ d = prog[file].decls[k]
    OBVIOUS
  <2>2. SUFFICES ASSUME d.op \in Generated
                 PROVE  bodies'[NameOf(s, d.id)] # <<>> /\ (d.op = "var" => val'[s][d.id] # NoVal)
    BY <1>1, <2>1 DEF Has
  <2>3. d.op \in Evaluated /\ d.id \in Ids
    BY <2>1, <2>2, DeclaredIds DEF Generated, Declares, Evaluated
  <2>4. syms[s][d.id] # NoSym
    BY <2>1, <2>3 DEF AllPresent, Present
  <2>5. NameOf(s, d.id) \in LlvmNames
    BY <2>3, <2>4, NameType
  <2>6. bodies[NameOf(s, d.id)] # <<>> /\ (d.op = "var" => val[s][d.id] # NoVal)
    BY <1>2, <2>1, <2>2 DEF Has
  <2>. QED BY <2>3, <2>5, <2>6
<1>. QED BY <1>2

\* The generation of a declaration adds at most one definition to a name.
LEMMA DeclBodies ==
  ASSUME AnalysisInv, GenInv, phase # "off", NEW s, Emits(s), NEW file, file = FileOf(s),
         NEW k \in DOMAIN prog[file].decls, NEW d, d = prog[file].decls[k], GenerateDecl(s, file, k)
  PROVE  /\ bodies' \in [LlvmNames -> Seq(Bodies)]
         /\ \A n \in LlvmNames : bodies[n] # <<>> => bodies'[n] # <<>>
         /\ d.op \in Generated => bodies'[NameOf(s, d.id)] # <<>>
         /\ d.op \notin Evaluated => UNCHANGED <<bodies, val, emitted>>
<1>1. bodies \in [LlvmNames -> Seq(Bodies)]
  BY DEF GenInv, GenTypes
<1>2. /\ s \in 0 .. Len(imports) /\ AllPresent(s) /\ file \in Files /\ TypeOK /\ Len(imports) \in Nat
  BY EmitsFacts DEF GenInv
<1>3. d.op \notin Evaluated => UNCHANGED <<bodies, val, emitted>>
  BY DEF GenerateDecl, Evaluated
<1>4. CASE d.op \in Generated
  <2>1. d.id \in Ids
    BY <1>2, <1>4, DeclaredIds DEF Generated, Declares
  <2>2. syms[s][d.id] # NoSym
    BY <1>2, <1>4, <2>1 DEF AllPresent, Present, Generated, Evaluated
  <2>3. NameOf(s, d.id) \in LlvmNames
    BY <1>2, <2>1, <2>2, NameType
  <2>4. PICK n, b : n = NameOf(s, d.id) /\ b = [scope |-> s, file |-> file, id |-> d.id]
    OBVIOUS
  <2>5. bodies' = [bodies EXCEPT ![n] = Append(bodies[n], b)]
    BY <1>4, <2>4 DEF GenerateDecl, Generated
  <2>6. b \in Bodies /\ n \in LlvmNames
    BY <1>2, <2>1, <2>3, <2>4 DEF Bodies
  <2>7. Append(bodies[n], b) \in Seq(Bodies) /\ Append(bodies[n], b) # <<>>
    BY <1>1, <2>6
  <2>. QED BY <1>1, <1>3, <2>4, <2>5, <2>6, <2>7
<1>5. CASE d.op \notin Generated
  <2>1. bodies' = bodies
    BY <1>5 DEF GenerateDecl, Generated
  <2>. QED BY <1>1, <1>3, <1>5, <2>1
<1>. QED BY <1>4, <1>5

\* A declaration is generated: it has its body and its value, everything else
\* keeps them, and its reference is right.
LEMMA OneDecl ==
  ASSUME AnalysisInv, GenInv, phase # "off", UNCHANGED vars, phase' = phase,
         NEW s, Emits(s), NEW file, file = FileOf(s),
         NEW k \in DOMAIN prog[file].decls, GenerateDecl(s, file, k),
         \A t \in 1 .. Len(imports) : ~ Skipped(t) /\ (s = 0 \/ t < s) => t \in done
  PROVE  /\ bodies' \in [LlvmNames -> Seq(Bodies)] /\ Explained(val)' /\ GenRefs' /\ Has(s, k)'
         /\ \A t : Emits(t) => \A m \in DOMAIN prog[FileOf(t)].decls : Has(t, m) => Has(t, m)'
<1>1. PICK d : d = prog[file].decls[k]
  OBVIOUS
<1>2. /\ s \in 0 .. Len(imports) /\ file \in Files /\ TypeOK /\ Len(imports) \in Nat /\ Explained(val) /\ GenRefs
  BY EmitsFacts DEF GenInv, GenValues
<1>3. /\ bodies' \in [LlvmNames -> Seq(Bodies)]
      /\ \A n \in LlvmNames : bodies[n] # <<>> => bodies'[n] # <<>>
      /\ d.op \in Generated => bodies'[NameOf(s, d.id)] # <<>>
      /\ d.op \notin Evaluated => UNCHANGED <<bodies, val, emitted>>
  BY <1>1, DeclBodies
<1>4. \A v : Explained(v)' <=> Explained(v)
  BY Statics
<1>5. /\ \A e : RefOf(e)' = RefOf(e) /\ ScopeOf(e)' = ScopeOf(e)
      /\ \A e, t, id : RightAt(e, t, id)' <=> RightAt(e, t, id)
      /\ \A t : FileOf(t)' = FileOf(t)
      /\ \A t, id : NameOf(t, id)' = NameOf(t, id)
      /\ prog' = prog /\ imports' = imports
  BY Statics
<1>6. \A t : Emits(t)' <=> Emits(t)
  BY Statics DEF Emits
<1>7. \A e : Origin(e)' <=> Origin(e)
  BY <1>5, <1>6 DEF Origin
<1>8. ASSUME NEW e, Origin(e) /\ RightAt(e, ScopeOf(e), RefOf(e).id)
      PROVE  (Origin(e) /\ RightAt(e, ScopeOf(e), RefOf(e).id))'
  <2>1. PICK t, id : t = ScopeOf(e) /\ id = RefOf(e).id
    OBVIOUS
  <2>2. RightAt(e, t, id)' /\ Origin(e)'
    BY <1>5, <1>7, <1>8, <2>1
  <2>3. t = ScopeOf(e)' /\ id = RefOf(e)'.id
    BY <1>5, <2>1
  <2>. QED BY <2>2, <2>3
<1>9. CASE d.op \in Evaluated
  <2>1. /\ Explained(val') /\ val'[s][d.id] # NoVal
        /\ \A t \in 0 .. Len(imports), id \in Ids : val[t][id] # NoVal => val'[t][id] # NoVal
        /\ \/ emitted' = emitted
           \/ \E name : /\ emitted' = emitted \cup {[from |-> s, at |-> k, name |-> name]} /\ d.ref # NoRef
                        /\ \A e : e = [from |-> s, at |-> k, name |-> name] => RightAt(e, LooksUp(s, k, d.ref), d.ref.id)
    BY <1>1, <1>9, DeclValues
  <2>2. GenRefs'
    <3>1. CASE emitted' = emitted
      BY <1>2, <1>8, <3>1 DEF GenRefs
    <3>2. ASSUME NEW name, emitted' = emitted \cup {[from |-> s, at |-> k, name |-> name]}, d.ref # NoRef,
                 \A e : e = [from |-> s, at |-> k, name |-> name] => RightAt(e, LooksUp(s, k, d.ref), d.ref.id)
          PROVE  GenRefs'
      <4>1. PICK e : e = [from |-> s, at |-> k, name |-> name]
        OBVIOUS
      <4>2. e.from = s /\ e.at = k
        BY <4>1
      <4>3. RefOf(e) = d.ref /\ ScopeOf(e) = LooksUp(s, k, d.ref)
        BY <1>1, <4>2 DEF RefOf, ScopeOf
      <4>4. RightAt(e, ScopeOf(e), RefOf(e).id)
        BY <3>2, <4>1, <4>3
      <4>5. Origin(e)
        BY <1>1, <1>9, <3>2, <4>2, <4>3 DEF Origin
      <4>. QED BY <1>2, <1>8, <3>2, <4>1, <4>4, <4>5 DEF GenRefs
    <3>. QED BY <2>1, <3>1, <3>2
  <2>3. ASSUME NEW t, Emits(t) PROVE \A m \in DOMAIN prog[FileOf(t)].decls : Has(t, m) => Has(t, m)'
    <3>1. t \in 0 .. Len(imports) /\ AllPresent(t) /\ FileOf(t) \in Files
      BY <2>3, EmitsFacts DEF GenInv
    <3>. QED BY <1>2, <1>3, <2>1, <3>1, HasStays
  <2>4. Has(s, k)'
    <3>1. prog'[FileOf(s)'].decls[k] = d
      BY <1>1, <1>5
    <3>2. d.op \in Generated => bodies'[NameOf(s, d.id)'] # <<>>
      BY <1>3, <1>5
    <3>. QED BY <2>1, <3>1, <3>2 DEF Has
  <2>. QED BY <1>3, <1>4, <2>1, <2>2, <2>3, <2>4
<1>10. CASE d.op \notin Evaluated
  <2>1. bodies' = bodies /\ val' = val /\ emitted' = emitted
    BY <1>3, <1>10
  <2>2. Explained(val)'
    BY <1>2, <1>4, <2>1
  <2>3. GenRefs'
    BY <1>2, <1>8, <2>1 DEF GenRefs
  <2>4. \A t, m : Has(t, m) => Has(t, m)'
    BY <1>5, <2>1 DEF Has
  <2>5. Has(s, k)
    BY <1>1, <1>10 DEF Has, Generated, Evaluated
  <2>. QED BY <1>3, <2>2, <2>3, <2>4, <2>5
<1>. QED BY <1>9, <1>10

\* A step that only moves the generator on.
LEMMA QuietStep ==
  ASSUME GenInv, phase # "off", UNCHANGED vars, UNCHANGED <<bodies, val, emitted>>,
         phase \in {"main", "done"} => phase' \in {"main", "done"}
  PROVE  /\ Explained(val)' /\ GenRefs' /\ bodies' \in [LlvmNames -> Seq(Bodies)]
         /\ \A s, k : Has(s, k)' <=> Has(s, k)
         /\ \A s : HasAll(s)' <=> HasAll(s)
<1>1. /\ \A e : RefOf(e)' = RefOf(e) /\ ScopeOf(e)' = ScopeOf(e)
      /\ \A e, t, id : RightAt(e, t, id)' <=> RightAt(e, t, id)
      /\ \A t : FileOf(t)' = FileOf(t)
      /\ \A t, id : NameOf(t, id)' = NameOf(t, id)
      /\ \A v : Explained(v)' <=> Explained(v)
      /\ \A i : Skipped(i)' <=> Skipped(i)
      /\ prog' = prog /\ imports' = imports /\ buildIgnored' = buildIgnored
  BY Statics
<1>2. Explained(val)'
  BY <1>1 DEF GenInv, GenValues
<1>3. \A t : Emits(t) => Emits(t)'
  BY <1>1 DEF Emits
<1>4. ASSUME NEW e, Origin(e) /\ RightAt(e, ScopeOf(e), RefOf(e).id)
      PROVE  (Origin(e) /\ RightAt(e, ScopeOf(e), RefOf(e).id))'
  <2>1. PICK t, id : t = ScopeOf(e) /\ id = RefOf(e).id
    OBVIOUS
  <2>2. RightAt(e, t, id)' /\ Origin(e)'
    BY <1>1, <1>3, <1>4, <2>1 DEF Origin
  <2>3. t = ScopeOf(e)' /\ id = RefOf(e)'.id
    BY <1>1, <2>1
  <2>. QED BY <2>2, <2>3
<1>5. GenRefs'
  BY <1>4 DEF GenRefs, GenInv
<1>6. \A s, k : Has(s, k)' <=> Has(s, k)
  BY <1>1 DEF Has
<1>7. \A s : HasAll(s)' <=> HasAll(s)
  BY <1>1, <1>6 DEF HasAll
<1>8. bodies' \in [LlvmNames -> Seq(Bodies)]
  BY DEF GenInv, GenTypes
<1>. QED BY <1>2, <1>5, <1>6, <1>7, <1>8

\* The declarations of a scope are numbered from 1.
LEMMA DeclsFrom1 ==
  ASSUME TypeOK
  PROVE  /\ \A s \in 0 .. Len(imports) :
              /\ FileOf(s) \in Files /\ Len(prog[FileOf(s)].decls) \in Nat
              /\ DOMAIN prog[FileOf(s)].decls = 1 .. Len(prog[FileOf(s)].decls)
         /\ Len(imports) \in Nat /\ DOMAIN imports = 1 .. Len(imports) /\ FileOf(0) = Main
<1>1. imports \in Seq(Package) /\ Len(imports) \in Nat /\ DOMAIN imports = 1 .. Len(imports)
  BY DEF TypeOK
<1>2. ASSUME NEW s \in 0 .. Len(imports) PROVE FileOf(s) \in Files
  <2>1. CASE s = 0
    BY <2>1, ConstantsAssumption DEF FileOf
  <2>2. CASE s # 0
    <3>1. s \in 1 .. Len(imports)
      BY <1>1, <2>2
    <3>2. imports[s] \in Package
      BY <1>1, <3>1
    <3>. QED BY <2>2, <3>2 DEF FileOf, Package
  <2>. QED BY <2>1, <2>2
<1>3. ASSUME NEW file \in Files
      PROVE  Len(prog[file].decls) \in Nat /\ DOMAIN prog[file].decls = 1 .. Len(prog[file].decls)
  <2>1. prog[file] \in SourceType
    BY DEF TypeOK
  <2>2. prog[file].decls \in Seq(DeclType)
    BY <2>1 DEF SourceType
  <2>. QED BY <2>2
<1>. QED BY <1>1, <1>2, <1>3 DEF FileOf

\* The parts of the invariant that only the steps of the generator move.
LEMMA QuietGen ==
  ASSUME AnalysisInv, GenInv, phase # "off", UNCHANGED vars, UNCHANGED <<bodies, val, emitted>>,
         FinishImport \/ SkipUnused \/ EndImports \/ EndRecopy \/ EndMain
           \/ (phase = "recopy" /\ UNCHANGED <<phase, gpc, done>> /\ gi' = gi + 1)
           \/ UNCHANGED gvars
  PROVE  GenInv'
<1>1. /\ \A i : Skipped(i)' <=> Skipped(i)
      /\ \A t : FileOf(t)' = FileOf(t)
      /\ prog' = prog /\ imports' = imports /\ buildIgnored' = buildIgnored /\ semOk' = semOk
  BY Statics
<1>2. Len(imports) \in Nat /\ GenTypes /\ GenPhases /\ GenProgress /\ DOMAIN imports = 1 .. Len(imports)
      /\ TypeOK /\ FileOf(0) = Main
  BY StayFacts, DeclsFrom1 DEF GenInv, AnalysisInv
<1>3. phase \in {"main", "done"} => phase' \in {"main", "done"}
  BY DEF FinishImport, SkipUnused, EndImports, EndRecopy, EndMain, gvars
<1>4. /\ Explained(val)' /\ GenRefs' /\ bodies' \in [LlvmNames -> Seq(Bodies)]
      /\ \A s, k : Has(s, k)' <=> Has(s, k)
      /\ \A s : HasAll(s)' <=> HasAll(s)
  BY <1>3, QuietStep
<1>5. val' \in ValueTables'
  BY <1>4 DEF Explained
<1>6. \A s \in 0 .. Len(imports) : \A k \in DOMAIN prog[FileOf(s)].decls : k \in Nat \ {0}
  BY <1>2, DeclsFrom1
<1>7. GenProgress' <=>
        /\ \A i \in done' : HasAll(i)
        /\ phase' = "imports" /\ gi' \in 1 .. Len(imports) => \A k \in DOMAIN prog[FileOf(gi')].decls : k < gpc' => Has(gi', k)
        /\ phase' = "main" => \A k \in DOMAIN prog[Main].decls : k < gpc' => Has(0, k)
        /\ phase' = "done" /\ ~ buildIgnored => HasAll(0)
  <2>1. PICK g : g = gi'
    OBVIOUS
  <2>2. \A k : Has(gi, k)' <=> Has(g, k)
    <3>1. \A k : Has(g, k)' <=> Has(g, k)
      BY <1>4
    <3>2. \A k : Has(gi, k)' <=> Has(g, k)'
      BY <2>1 DEF Has
    <3>. QED BY <3>1, <3>2
  <2>. QED BY <1>1, <1>4, <2>1, <2>2 DEF GenProgress, FileOf
<1>8. GenValues' /\ (GenTypes' /\ GenPhases' /\ GenProgress' => GenInv')
  BY <1>4 DEF GenInv, GenValues
<1>9. CASE FinishImport
  <2>1. /\ phase = "imports" /\ phase' = "imports" /\ gi \in 1 .. Len(imports) /\ ~ Skipped(gi)
        /\ gpc > Len(prog[FileOf(gi)].decls) /\ done' = done \cup {gi} /\ gi' = gi + 1 /\ gpc' = 1
    BY <1>2, <1>9 DEF FinishImport, Generates, Skipped, FileOf
  <2>2. GenTypes'
    BY <1>1, <1>2, <1>4, <1>5, <2>1 DEF GenTypes
  <2>3. GenPhases'
    BY <1>1, <1>2, <2>1 DEF GenPhases, GenTypes
  <2>4. HasAll(gi)
    <3>1. gi \in 0 .. Len(imports)
      BY <1>2, <2>1
    <3>2. \A k \in DOMAIN prog[FileOf(gi)].decls : k < gpc
      BY <1>2, <2>1, <3>1, DeclsFrom1 DEF GenTypes
    <3>. QED BY <1>2, <2>1, <3>2 DEF GenProgress, HasAll
  <2>5. \A s \in 1 .. Len(imports) : \A k \in DOMAIN prog[FileOf(s)].decls : ~ (k < 1)
    <3>1. \A s \in 1 .. Len(imports) : s \in 0 .. Len(imports)
      BY <1>2
    <3>. QED BY <1>6, <3>1
  <2>6. GenProgress'
    BY <1>2, <1>7, <2>1, <2>4, <2>5 DEF GenProgress
  <2>. QED BY <1>8, <2>2, <2>3, <2>6
<1>10. CASE SkipUnused \/ EndImports
  <2>1. phase = "imports" /\ gpc' = gpc /\ done' = done /\ gpc = 1
    BY <1>2, <1>10 DEF SkipUnused, EndImports, Generates, Skipped, GenPhases, GenTypes
  <2>2. GenTypes'
    <3>1. phase' \in {"imports", "recopy"} /\ (gi' = gi + 1 \/ gi' = 1)
      BY <1>10 DEF SkipUnused, EndImports
    <3>. QED BY <1>1, <1>2, <1>4, <1>5, <2>1, <3>1 DEF GenTypes
  <2>3. GenPhases'
    <3>1. CASE SkipUnused
      BY <1>1, <1>2, <3>1 DEF GenPhases, GenTypes, SkipUnused, Generates, Skipped
    <3>2. CASE EndImports
      BY <1>1, <1>2, <2>1, <3>2 DEF GenPhases, GenTypes, EndImports
    <3>. QED BY <1>10, <3>1, <3>2
  <2>4. \A s \in 1 .. Len(imports) : \A k \in DOMAIN prog[FileOf(s)].decls : ~ (k < 1)
    <3>1. \A s \in 1 .. Len(imports) : s \in 0 .. Len(imports)
      BY <1>2
    <3>. QED BY <1>6, <3>1
  <2>5. phase' \in {"imports", "recopy"}
    BY <1>10 DEF SkipUnused, EndImports
  <2>6. GenProgress'
    BY <1>2, <1>7, <2>1, <2>4, <2>5 DEF GenProgress
  <2>. QED BY <1>8, <2>2, <2>3, <2>6
<1>11. CASE EndRecopy
  <2>1. phase = "recopy" /\ phase' = (IF buildIgnored THEN "done" ELSE "main") /\ gpc' = 1 /\ gi' = gi /\ done' = done
    BY <1>11 DEF EndRecopy
  <2>2. GenTypes'
    BY <1>1, <1>2, <1>4, <1>5, <2>1 DEF GenTypes
  <2>3. GenPhases'
    BY <1>1, <1>2, <2>1 DEF GenPhases
  <2>4. \A k \in DOMAIN prog[Main].decls : ~ (k < 1)
    <3>1. 0 \in 0 .. Len(imports)
      BY <1>2
    <3>. QED BY <1>2, <1>6, <3>1
  <2>5. GenProgress'
    BY <1>2, <1>7, <2>1, <2>4 DEF GenProgress
  <2>. QED BY <1>8, <2>2, <2>3, <2>5
<1>12. CASE EndMain
  <2>1. phase = "main" /\ phase' = "done" /\ gpc > Len(prog[Main].decls) /\ gpc' = gpc /\ gi' = gi /\ done' = done
    BY <1>12 DEF EndMain
  <2>2. GenTypes'
    BY <1>1, <1>2, <1>4, <1>5, <2>1 DEF GenTypes
  <2>3. GenPhases'
    BY <1>1, <1>2, <2>1 DEF GenPhases
  <2>4. HasAll(0)
    <3>1. 0 \in 0 .. Len(imports)
      BY <1>2
    <3>2. \A k \in DOMAIN prog[Main].decls : k < gpc
      BY <1>2, <2>1, <3>1, DeclsFrom1 DEF GenTypes
    <3>. QED BY <1>2, <2>1, <3>2 DEF GenProgress, HasAll
  <2>5. GenProgress'
    BY <1>2, <1>7, <2>1, <2>4 DEF GenProgress
  <2>. QED BY <1>8, <2>2, <2>3, <2>5
<1>13. CASE phase = "recopy" /\ UNCHANGED <<phase, gpc, done>> /\ gi' = gi + 1
  <2>1. GenTypes'
    BY <1>1, <1>2, <1>4, <1>5, <1>13 DEF GenTypes
  <2>2. GenPhases'
    BY <1>1, <1>2, <1>13 DEF GenPhases
  <2>3. GenProgress'
    BY <1>2, <1>7, <1>13 DEF GenProgress
  <2>. QED BY <1>8, <2>1, <2>2, <2>3
<1>14. CASE UNCHANGED gvars
  <2>1. phase' = phase /\ gpc' = gpc /\ gi' = gi /\ done' = done
    BY <1>14 DEF gvars
  <2>2. GenTypes'
    BY <1>1, <1>2, <1>4, <1>5, <2>1 DEF GenTypes
  <2>3. GenPhases'
    BY <1>1, <1>2, <2>1 DEF GenPhases
  <2>4. GenProgress'
    BY <1>2, <1>7, <2>1 DEF GenProgress
  <2>. QED BY <1>8, <2>2, <2>3, <2>4
<1>. QED BY <1>9, <1>10, <1>11, <1>12, <1>13, <1>14

\* One declaration of a package, or of the main program, is generated.
LEMMA DeclGen ==
  ASSUME AnalysisInv, GenInv, GenerateImportDecl \/ GenerateMainDecl
  PROVE  GenInv'
<1>1. /\ phase # "off" /\ phase' = phase /\ gi' = gi /\ done' = done /\ gpc' = gpc + 1 /\ UNCHANGED vars
  BY DEF GenerateImportDecl, GenerateMainDecl
<1>2. /\ \A i : Skipped(i)' <=> Skipped(i)
      /\ \A t : FileOf(t)' = FileOf(t)
      /\ prog' = prog /\ imports' = imports /\ buildIgnored' = buildIgnored /\ semOk' = semOk
  BY <1>1, Statics
<1>3. GenTypes /\ GenPhases /\ GenProgress /\ TypeOK
  BY StayFacts DEF GenInv, AnalysisInv
<1>4. Len(imports) \in Nat /\ DOMAIN imports = 1 .. Len(imports) /\ FileOf(0) = Main
  BY <1>3, DeclsFrom1
<1>5. PICK s : \/ s = 0 /\ phase = "main" /\ GenerateDecl(0, Main, gpc) /\ gpc <= Len(prog[Main].decls)
               \/ /\ s = gi /\ phase = "imports" /\ gi \in 1 .. Len(imports) /\ ~ Skipped(gi)
                  /\ GenerateDecl(gi, imports[gi].file, gpc) /\ gpc <= Len(prog[imports[gi].file].decls)
  <2>1. CASE GenerateMainDecl
    BY <2>1 DEF GenerateMainDecl
  <2>2. CASE GenerateImportDecl
    BY <1>4, <2>2 DEF GenerateImportDecl, Generates, Skipped
  <2>. QED BY <2>1, <2>2
<1>6. PICK file : file = FileOf(s)
  OBVIOUS
<1>7. /\ s \in 0 .. Len(imports) /\ Emits(s) /\ gpc <= Len(prog[file].decls) /\ GenerateDecl(s, file, gpc)
  <2>1. CASE s = 0 /\ phase = "main" /\ GenerateDecl(0, Main, gpc) /\ gpc <= Len(prog[Main].decls)
    BY <1>3, <1>4, <1>6, <2>1 DEF Emits, GenPhases
  <2>2. CASE /\ s = gi /\ phase = "imports" /\ gi \in 1 .. Len(imports) /\ ~ Skipped(gi)
             /\ GenerateDecl(gi, imports[gi].file, gpc) /\ gpc <= Len(prog[imports[gi].file].decls)
    <3>1. file = imports[gi].file /\ s # 0 /\ s \in 0 .. Len(imports)
      BY <1>4, <1>6, <2>2 DEF FileOf
    <3>. QED BY <2>2, <3>1 DEF Emits
  <2>. QED BY <1>5, <2>1, <2>2
<1>8. gpc \in DOMAIN prog[file].decls
  BY <1>3, <1>6, <1>7, DeclsFrom1 DEF GenTypes
<1>9. \A t \in 1 .. Len(imports) : ~ Skipped(t) /\ (s = 0 \/ t < s) => t \in done
  BY <1>3, <1>4, <1>5 DEF GenPhases
<1>15. PICK at : at = gpc
  OBVIOUS
<1>10. /\ bodies' \in [LlvmNames -> Seq(Bodies)] /\ Explained(val)' /\ GenRefs' /\ Has(s, at)'
       /\ \A t : Emits(t) => \A m \in DOMAIN prog[FileOf(t)].decls : Has(t, m) => Has(t, m)'
  BY <1>1, <1>6, <1>7, <1>8, <1>9, <1>15, OneDecl
<1>11. GenTypes'
  <2>1. val' \in ValueTables'
    BY <1>10 DEF Explained
  <2>. QED BY <1>1, <1>2, <1>3, <1>10, <2>1 DEF GenTypes
<1>12. GenPhases'
  <2>1. phase = "imports" => gi \in 1 .. Len(imports) /\ ~ Skipped(gi)
    BY <1>5
  <2>. QED BY <1>1, <1>2, <1>3, <2>1 DEF GenPhases
<1>13. GenProgress'
  <2>1. ASSUME NEW i \in done' PROVE HasAll(i)'
    <3>1. HasAll(i) /\ Emits(i)
      BY <1>1, <1>3, <2>1 DEF GenProgress, GenPhases, GenTypes, Emits
    <3>. QED BY <1>2, <1>10, <3>1 DEF HasAll
  <2>2. \A k \in DOMAIN prog[FileOf(s)].decls : k < gpc + 1 => k < gpc \/ k = gpc
    BY <1>3, <1>7, DeclsFrom1 DEF GenTypes
  <2>3. ASSUME phase' = "imports", gi' \in 1 .. Len(imports')
        PROVE  \A k \in DOMAIN prog'[FileOf(gi)'].decls : k < gpc' => Has(gi, k)'
    <3>1. gi \in 1 .. Len(imports) /\ s = gi /\ phase = "imports" /\ FileOf(gi)' = FileOf(s)
      <4>1. s = gi
        BY <1>1, <1>5, <2>3
      <4>. QED BY <1>1, <1>2, <2>3, <4>1 DEF FileOf
    <3>2. ASSUME NEW k \in DOMAIN prog[FileOf(s)].decls, k < gpc + 1 PROVE Has(s, k)'
      <4>1. CASE k = gpc
        BY <1>10, <1>15, <4>1
      <4>2. CASE k < gpc
        <5>1. Has(s, k)
          BY <1>3, <3>1, <3>2, <4>2 DEF GenProgress
        <5>. QED BY <1>7, <1>10, <5>1
      <4>. QED BY <2>2, <3>2, <4>1, <4>2
    <3>3. \A k : Has(gi, k)' <=> Has(s, k)'
      BY <1>1, <3>1 DEF Has
    <3>. QED BY <1>1, <1>2, <3>1, <3>2, <3>3
  <2>4. ASSUME phase' = "main"
        PROVE  \A k \in DOMAIN prog'[Main].decls : k < gpc' => Has(0, k)'
    <3>1. s = 0 /\ phase = "main" /\ FileOf(s) = Main
      BY <1>1, <1>4, <1>5, <2>4
    <3>2. ASSUME NEW k \in DOMAIN prog[FileOf(s)].decls, k < gpc + 1 PROVE Has(s, k)'
      <4>1. CASE k = gpc
        BY <1>10, <1>15, <4>1
      <4>2. CASE k < gpc
        <5>1. Has(s, k)
          BY <1>3, <3>1, <3>2, <4>2 DEF GenProgress
        <5>. QED BY <1>7, <1>10, <5>1
      <4>. QED BY <2>2, <3>2, <4>1, <4>2
    <3>. QED BY <1>1, <1>2, <3>1, <3>2
  <2>5. phase' # "done"
    BY <1>1, <1>5
  <2>. QED BY <2>1, <2>3, <2>4, <2>5 DEF GenProgress
<1>14. GenValues'
  BY <1>10 DEF GenValues
<1>. QED BY <1>10, <1>11, <1>12, <1>13, <1>14 DEF GenInv

\* The symbols of the using import gi are copied again into the scope of the
\* main program, the names they denote with them; nothing of the main program
\* has been generated, so no reference was looked up there.
LEMMA RecopyGen ==
  ASSUME AnalysisInv, GenInv, RecopyUsing, imports[gi].isUsing
  PROVE  GenInv'
<1>1. /\ phase = "recopy" /\ phase' = "recopy" /\ gi \in 1 .. Len(imports) /\ gi' = gi + 1
      /\ syms' = [syms EXCEPT ![0] = CopyUsing(syms[gi], @)]
      /\ val' = [val EXCEPT ![0] = [id \in Ids |-> IF Exported(syms[gi][id]) THEN val[gi][id] ELSE @[id]]]
      /\ gpc' = gpc /\ done' = done /\ bodies' = bodies /\ emitted' = emitted
      /\ prog' = prog /\ imports' = imports /\ resolved' = resolved /\ buildIgnored' = buildIgnored /\ semOk' = semOk
  <2>1. DOMAIN imports = 1 .. Len(imports)
    BY StayFacts, DeclsFrom1 DEF AnalysisInv
  <2>. QED BY <2>1 DEF RecopyUsing
<1>2. GenTypes /\ GenPhases /\ GenProgress /\ GenRefs /\ TypeOK /\ Explained(val) /\ val \in ValueTables
  BY <1>1, StayFacts DEF GenInv, AnalysisInv, GenValues, Explained
<1>3. Len(imports) \in Nat /\ 0 \in 0 .. Len(imports) /\ gi \in 0 .. Len(imports) /\ gi # 0
      /\ syms \in [0 .. Len(imports) -> Scope]
  BY <1>1, <1>2, DeclsFrom1 DEF TypeOK
<1>4. PICK from, to : from = syms[gi] /\ to = syms[0] /\ from \in Scope /\ to \in Scope
  BY <1>3
<1>5. syms'[0] = CopyUsing(from, to) /\ \A t \in 1 .. Len(imports) : syms'[t] = syms[t] /\ val'[t] = val[t]
  BY <1>1, <1>2, <1>3, <1>4 DEF ValueTables
<1>6. /\ \A i : Skipped(i)' <=> Skipped(i)
      /\ \A t : FileOf(t)' = FileOf(t)
      /\ \A t \in 1 .. Len(imports) : \A id : NameOf(t, id)' = NameOf(t, id)
      /\ \A e : RefOf(e)' = RefOf(e)
  BY <1>1, <1>5 DEF Skipped, FileOf, NameOf, RefOf
<1>7. \A t \in 1 .. Len(imports) : \A id, n : Denotes(t, id, n) <=> n = NameOf(t, id)
  BY <1>3 DEF Denotes
<1>8. \A t \in 1 .. Len(imports) : \A id, n : Denotes(t, id, n)' <=> n = NameOf(t, id)
  BY <1>3, <1>6 DEF Denotes
<1>9. ASSUME NEW id \in Ids, NEW n, n = val'[0][id]
      PROVE  n \in Slots /\ (n = NoVal \/ Denotes(0, id, n)')
  <2>1. val'[0][id] = IF Exported(from[id]) THEN val[gi][id] ELSE val[0][id]
    BY <1>1, <1>2, <1>3, <1>4 DEF ValueTables
  <2>2. val[gi][id] \in Slots /\ val[0][id] \in Slots
    BY <1>2, <1>3 DEF ValueTables
  <2>3. n = val'[0][id]
    BY <1>9
  <2>4. CASE Exported(from[id])
    <3>1. /\ from[id] # NoSym /\ syms'[0][id] # NoSym /\ syms'[0][id].val = from[id].val
      BY <1>4, <1>5, <2>4, CopyTakes
    <3>2. n = NoVal \/ n = NameOf(gi, id)
      BY <1>1, <1>2, <1>3, <1>7, <2>1, <2>3, <2>4 DEF Explained
    <3>3. syms'[gi][id] = from[id] /\ NameOf(gi, id)' = NameOf(gi, id)'
      BY <1>1, <1>4, <1>5
    <3>4. PICK j \in 1 .. Len(imports) : j = gi /\ imports'[j].isUsing
      BY <1>1
    <3>5. n = NoVal \/ n = NameOf(j, id)'
      BY <1>6, <3>2, <3>4
    <3>6. n = NoVal \/ Denotes(0, id, n)'
      BY <1>1, <1>3, <3>1, <3>3, <3>4, <3>5 DEF Denotes
    <3>. QED BY <2>1, <2>2, <2>3, <2>4, <3>6
  <2>5. CASE ~ Exported(from[id])
    <3>1. syms'[0][id] = syms[0][id]
      BY <1>4, <1>5, <2>5, CopyTakes
    <3>2. n = NoVal \/ Denotes(0, id, n)
      BY <1>2, <1>3, <2>1, <2>3, <2>5 DEF Explained
    <3>3. NameOf(0, id)' = NameOf(0, id)
      BY <3>1 DEF NameOf
    <3>4. ASSUME Denotes(0, id, n) PROVE Denotes(0, id, n)'
      <4>1. CASE n = NameOf(0, id)
        BY <3>3, <4>1 DEF Denotes
      <4>2. CASE \E j \in 1 .. Len(imports) : /\ imports[j].isUsing /\ syms[j][id] # NoSym /\ syms[0][id] # NoSym
                                              /\ syms[j][id].val = syms[0][id].val /\ n = NameOf(j, id)
        <5>1. PICK j \in 1 .. Len(imports) : /\ imports[j].isUsing /\ syms[j][id] # NoSym /\ syms[0][id] # NoSym
                                             /\ syms[j][id].val = syms[0][id].val /\ n = NameOf(j, id)
          BY <4>2
        <5>2. /\ imports'[j].isUsing /\ syms'[j][id] # NoSym /\ syms'[0][id] # NoSym
              /\ syms'[j][id].val = syms'[0][id].val /\ n = NameOf(j, id)'
          BY <1>1, <1>5, <1>6, <3>1, <5>1
        <5>. QED BY <1>1, <5>2 DEF Denotes
      <4>. QED BY <3>4, <4>1, <4>2 DEF Denotes
    <3>. QED BY <2>1, <2>2, <2>3, <2>5, <3>2, <3>4
  <2>. QED BY <2>4, <2>5
<1>10. val' \in ValueTables'
  <2>1. \A t \in 1 .. Len(imports) : val'[t] \in [Ids -> Slots]
    BY <1>2, <1>3, <1>5 DEF ValueTables
  <2>2. PICK row : row = [id \in Ids |-> IF Exported(syms[gi][id]) THEN val[gi][id] ELSE val[0][id]]
    OBVIOUS
  <2>3. val' = [val EXCEPT ![0] = row]
    BY <1>1, <2>2
  <2>4. row \in [Ids -> Slots]
    BY <1>2, <1>3, <2>2 DEF ValueTables
  <2>. QED BY <1>1, <1>2, <1>3, <2>3, <2>4 DEF ValueTables
<1>11. Explained(val)'
  <2>1. ASSUME NEW t \in 0 .. Len(imports), NEW id \in Ids
        PROVE  (val[t][id] = NoVal \/ Denotes(t, id, val[t][id]))'
    <3>3. PICK n : n = val'[t][id]
      OBVIOUS
    <3>4. SUFFICES n = NoVal \/ Denotes(t, id, n)'
      BY <3>3 DEF Denotes
    <3>1. CASE t = 0
      BY <1>9, <3>1, <3>3
    <3>2. CASE t # 0
      <4>1. t \in 1 .. Len(imports)
        BY <1>3, <3>2
      <4>2. val'[t][id] = NoVal \/ val'[t][id] = NameOf(t, id)
        BY <1>2, <1>5, <1>7, <4>1 DEF Explained
      <4>3. NameOf(t, id)' = NameOf(t, id)
        BY <1>6, <4>1
      <4>4. n = NoVal \/ n = NameOf(t, id)'
        BY <3>3, <4>2, <4>3
      <4>. QED BY <4>4 DEF Denotes
    <3>. QED BY <3>1, <3>2
  <2>. QED BY <1>1, <1>10, <2>1 DEF Explained
<1>12. GenRefs'
  <2>1. \A s, k, r : LooksUp(s, k, r)' = LooksUp(s, k, r)
    BY <1>1 DEF LooksUp
  <2>2. SUFFICES ASSUME NEW e \in emitted PROVE (Origin(e) /\ RightAt(e, ScopeOf(e), RefOf(e).id))'
    BY <1>1 DEF GenRefs
  <2>3. Origin(e) /\ RightAt(e, ScopeOf(e), RefOf(e).id)
    BY <1>2 DEF GenRefs
  <2>4. PICK t, id : t = ScopeOf(e) /\ id = RefOf(e).id
    OBVIOUS
  <2>5. t = ScopeOf(e)' /\ id = RefOf(e)'.id
    BY <1>6, <2>1, <2>4 DEF ScopeOf
  <2>6. Emits(e.from) /\ e.from # 0
    BY <1>1, <1>3, <2>3 DEF Origin, Emits
  <2>7. t \in 1 .. Len(imports)
    <3>1. t \in 0 .. Len(imports) /\ (t = 0 => e.from = 0)
      BY <1>1, <1>2, <2>3, <2>4, <2>6, LooksUpFacts DEF Origin, ScopeOf, RefOf
    <3>. QED BY <1>3, <2>6, <3>1
  <2>8. Origin(e)'
    BY <1>1, <1>6, <2>3 DEF Origin, Emits
  <2>9. RightAt(e, t, id)'
    <3>1. syms'[t][id] = syms[t][id]
      BY <1>5, <2>7
    <3>2. Denotes(t, id, e.name)' <=> Denotes(t, id, e.name)
      BY <1>7, <1>8, <2>7
    <3>3. RightAt(e, t, id)
      BY <2>3, <2>4
    <3>. QED BY <1>1, <1>6, <3>1, <3>2, <3>3 DEF RightAt
  <2>. QED BY <2>5, <2>8, <2>9
<1>13. GenProgress'
  <2>1. ASSUME NEW i \in done' PROVE HasAll(i)'
    <3>1. i \in 1 .. Len(imports) /\ HasAll(i)
      BY <1>1, <1>2, <2>1 DEF GenTypes, GenProgress
    <3>2. \A k : Has(i, k)' <=> Has(i, k)
      BY <1>1, <1>5, <1>6, <3>1 DEF Has
    <3>. QED BY <1>1, <1>6, <3>1, <3>2 DEF HasAll
  <2>. QED BY <1>1, <2>1 DEF GenProgress
<1>14. GenTypes' /\ GenPhases'
  BY <1>1, <1>2, <1>6, <1>10 DEF GenTypes, GenPhases
<1>. QED BY <1>11, <1>12, <1>13, <1>14 DEF GenInv, GenValues

\* Before generation starts there is nothing to say of the generator.
LEMMA OffGen ==
  ASSUME GenInv, phase = "off", UNCHANGED gvars
  PROVE  GenInv'
<1>1. phase' = "off" /\ done' = {} /\ emitted' = {} /\ gi' = 1 /\ gpc' = 1 /\ bodies' \in [LlvmNames -> Seq(Bodies)]
  BY DEF GenInv, GenPhases, GenTypes, gvars
<1>. QED BY <1>1 DEF GenInv, GenTypes, GenPhases, GenProgress, GenValues, GenRefs

\* When it starts no symbol has a value.
LEMMA StartGen ==
  ASSUME AnalysisInv, GenInv, StartCodegen
  PROVE  GenInv'
<1>1. /\ phase = "off" /\ phase' = "imports" /\ done' = {} /\ emitted' = {} /\ gi' = 1 /\ gpc' = 1
      /\ bodies' \in [LlvmNames -> Seq(Bodies)] /\ UNCHANGED vars /\ semOk' = "ok"
      /\ val' = [s \in DOMAIN syms |-> [id \in Ids |-> NoVal]]
  BY DEF GenInv, GenPhases, GenTypes, StartCodegen, vars
<1>2. imports' = imports /\ prog' = prog /\ DOMAIN syms = 0 .. Len(imports) /\ Len(imports) \in Nat
      /\ (\A t : FileOf(t)' = FileOf(t))
  BY <1>1, StayFacts, DeclsFrom1, Statics DEF AnalysisInv
<1>3. Explained(val)'
  BY <1>1, <1>2 DEF Explained, ValueTables, Slots
<1>4. GenTypes' /\ GenPhases'
  BY <1>1, <1>2, <1>3 DEF GenTypes, GenPhases, Explained
<1>5. GenProgress'
  <2>1. \A s \in 1 .. Len(imports) : \A k \in DOMAIN prog[FileOf(s)].decls : ~ (k < 1)
    <3>1. TypeOK /\ \A s \in 1 .. Len(imports) : s \in 0 .. Len(imports)
      BY <1>2, StayFacts DEF AnalysisInv
    <3>. QED BY <3>1, DeclsFrom1
  <2>2. \A k \in DOMAIN prog'[FileOf(gi)'].decls : gi' \in 1 .. Len(imports) => ~ (k < 1)
    <3>1. FileOf(gi)' = FileOf(1)
      BY <1>1, <1>2 DEF FileOf
    <3>. QED BY <1>1, <1>2, <2>1, <3>1
  <2>. QED BY <1>1, <1>2, <2>2 DEF GenProgress
<1>6. GenRefs' /\ GenValues'
  BY <1>1, <1>3 DEF GenRefs, GenValues
<1>. QED BY <1>4, <1>5, <1>6 DEF GenInv

-----------------------------------------------------------------------------
(* The invariant of the whole front end.                                   *)

CInv == AnalysisInv /\ GenInv

LEMMA InitCodegen == CInit => CInv
<1>. SUFFICES ASSUME CInit PROVE CInv
  OBVIOUS
<1>1. Init /\ GInit
  BY DEF CInit
<1>2. AnalysisInv
  BY <1>1, InitAnalysis
<1>3. GenTypes /\ GenPhases /\ GenProgress /\ GenValues /\ GenRefs
  BY <1>1 DEF GInit, GenTypes, GenPhases, GenProgress, GenValues, GenRefs
<1>. QED BY <1>2, <1>3 DEF CInv, GenInv

LEMMA NextCodegen == CInv /\ [CNext]_allVars => CInv'
<1>. SUFFICES ASSUME CInv, [CNext]_allVars PROVE CInv'
  OBVIOUS
<1>1. AnalysisInv /\ GenInv
  BY DEF CInv
<1>2. phase # "off" => semOk = "ok"
  BY <1>1 DEF GenInv, GenPhases
<1>3. CASE Next /\ UNCHANGED gvars
  <2>1. phase = "off"
    BY <1>1, <1>2, <1>3, AnalysisEnds DEF AnalysisInv
  <2>. QED BY <1>1, <1>3, <2>1, NextAnalysis, OffGen DEF CInv
<1>4. CASE StartCodegen
  <2>1. UNCHANGED vars
    BY <1>4 DEF StartCodegen
  <2>. QED BY <1>1, <1>4, <2>1, StillAnalysis, StartGen DEF CInv
<1>5. CASE GenerateImportDecl \/ GenerateMainDecl
  <2>1. UNCHANGED vars
    BY <1>5 DEF GenerateImportDecl, GenerateMainDecl
  <2>. QED BY <1>1, <1>5, <2>1, StillAnalysis, DeclGen DEF CInv
<1>6. CASE FinishImport \/ SkipUnused \/ EndImports \/ EndRecopy \/ EndMain
  <2>1. UNCHANGED vars /\ UNCHANGED <<bodies, val, emitted>> /\ phase # "off"
    BY <1>6 DEF FinishImport, SkipUnused, EndImports, EndRecopy, EndMain
  <2>. QED BY <1>1, <1>6, <2>1, StillAnalysis, QuietGen DEF CInv
<1>7. CASE RecopyUsing /\ imports[gi].isUsing
  <2>1. AnalysisInv'
    <3>1. DOMAIN imports = 1 .. Len(imports)
      BY <1>1, StayFacts, DeclsFrom1 DEF AnalysisInv
    <3>2. PICK j \in 1 .. Len(imports) : j = gi
      BY <1>7, <3>1 DEF RecopyUsing
    <3>. QED BY <1>1, <1>2, <1>7, <3>2, CopiedAnalysis DEF RecopyUsing
  <2>. QED BY <1>1, <1>7, <2>1, RecopyGen DEF CInv
<1>8. CASE RecopyUsing /\ ~ imports[gi].isUsing
  <2>1. UNCHANGED vars /\ UNCHANGED <<bodies, val, emitted>> /\ phase = "recopy" /\ UNCHANGED <<phase, gpc, done>>
        /\ gi' = gi + 1
    BY <1>8 DEF RecopyUsing, vars
  <2>. QED BY <1>1, <2>1, StillAnalysis, QuietGen DEF CInv
<1>9. CASE UNCHANGED allVars
  <2>1. UNCHANGED vars /\ UNCHANGED gvars
    BY <1>9 DEF allVars
  <2>2. CASE phase = "off"
    BY <1>1, <2>1, <2>2, StillAnalysis, OffGen DEF CInv
  <2>3. CASE phase # "off"
    <3>1. UNCHANGED <<bodies, val, emitted>>
      BY <2>1 DEF gvars
    <3>. QED BY <1>1, <2>1, <2>3, <3>1, StillAnalysis, QuietGen DEF CInv
  <2>. QED BY <2>2, <2>3
<1>. QED BY <1>3, <1>4, <1>5, <1>6, <1>7, <1>8, <1>9 DEF CNext

\* When generation has ended the name of a procedure's symbol has a body,
\* unless the package that the procedure comes from was left out.
LEMMA NameDefined ==
  ASSUME AnalysisInv, GenInv, phase = "done", NEW t \in 0 .. Len(imports), NEW id \in Ids, syms[t][id] # NoSym,
         NEW file, file = syms[t][id].val.file, syms[t][id].val.kind = "proc",
         Prelude(file) => FileOf(t) = file, t = 0 => ~ buildIgnored,
         t # 0 /\ Skipped(t) => imports[t].ignored \/ imports[t].isUsing
  PROVE  \/ bodies[NameOf(t, id)] # <<>>
         \/ \E i \in DOMAIN imports : imports[i].file = file /\ Skipped(i) /\ (imports[i].ignored \/ imports[i].isUsing)
<1>1. Len(imports) \in Nat /\ DOMAIN imports = 1 .. Len(imports) /\ TypeOK
  BY StayFacts, DeclsFrom1 DEF AnalysisInv
<1>2. /\ \A i \in 1 .. Len(imports) : i \in done \/ Skipped(i)
      /\ \A i \in done : HasAll(i)
      /\ ~ buildIgnored => HasAll(0)
  BY DEF GenInv, GenPhases, GenProgress
<1>3. Known(syms[t][id], FileOf(t), id)
  BY DEF AnalysisInv, OriginInv
<1>4. PICK k \in DOMAIN prog[file].decls : prog[file].decls[k].op = "proc" /\ prog[file].decls[k].id = id
  BY <1>3 DEF Known, DeclaresAs, Generated
<1>5. ASSUME NEW s, HasAll(s), FileOf(s) = file PROVE bodies[NameOf(s, id)] # <<>>
  BY <1>4, <1>5 DEF HasAll, Has, Generated
<1>6. CASE file = FileOf(t)
  <2>1. CASE t = 0 \/ t \in done
    BY <1>2, <1>5, <1>6, <2>1
  <2>2. CASE t # 0 /\ t \notin done
    <3>1. t \in 1 .. Len(imports)
      BY <1>1, <2>2
    <3>2. imports[t].file = file /\ Skipped(t)
      BY <1>2, <1>6, <2>2, <3>1 DEF FileOf
    <3>. QED BY <1>1, <2>2, <3>1, <3>2
  <2>. QED BY <2>1, <2>2
<1>7. CASE file # FileOf(t)
  <2>1. ~ Prelude(file) /\ syms[t][id].llvm = <<prog[file].clause, id>> /\ Home(file, id)
    BY <1>3, <1>7 DEF Known, Generated
  <2>2. PICK j \in 1 .. Len(imports) :
          imports[j].file = file /\ imports[j].isUsing /\ Finished(j) /\ syms[j][id] # NoSym
    BY <2>1 DEF Home
  <2>3. imports[j].prelude = "none"
    BY <2>1, <2>2 DEF AnalysisInv, RegistryInv
  <2>4. DeclaredBy(file, id)
    BY <1>4 DEF DeclaredBy, Declares
  <2>5. syms[j][id].llvm = <<prog[file].clause, id>>
    BY <2>2, <2>3, <2>4 DEF AnalysisInv, MangledInv, FinishedMangled
  <2>6. NameOf(j, id) = NameOf(t, id)
    BY <2>1, <2>5 DEF NameOf
  <2>7. FileOf(j) = file
    BY <1>1, <2>2 DEF FileOf
  <2>8. CASE j \in done
    BY <1>2, <1>5, <2>6, <2>7, <2>8
  <2>9. CASE Skipped(j)
    BY <1>1, <2>2, <2>9
  <2>. QED BY <1>2, <2>2, <2>8, <2>9
<1>. QED BY <1>6, <1>7

\* What the invariant says of a reference that was emitted.
LEMMA EmittedFacts ==
  ASSUME CInv, NEW e \in emitted, NEW t, NEW id, t = ScopeOf(e), id = RefOf(e).id
  PROVE  /\ Emits(e.from) /\ RightAt(e, t, id) /\ t \in 0 .. Len(imports) /\ id \in Ids /\ syms[t][id] # NoSym
         /\ t = 0 => e.from = 0
         /\ t # e.from => t \in 1 .. Len(imports) /\ imports[t].used
<1>1. AnalysisInv /\ GenPhases /\ Origin(e) /\ RightAt(e, t, id)
  BY DEF CInv, GenInv, GenRefs
<1>2. phase # "off"
  BY <1>1 DEF GenPhases
<1>3. PICK s, k, r : s = e.from /\ k = e.at /\ r = RefOf(e)
  OBVIOUS
<1>4. /\ Emits(s) /\ k \in DOMAIN prog[FileOf(s)].decls /\ r = prog[FileOf(s)].decls[k].ref /\ r # NoRef
      /\ prog[FileOf(s)].decls[k].op \in Evaluated /\ t = LooksUp(s, k, r) /\ id = r.id
  BY <1>1, <1>3 DEF Origin, RefOf, ScopeOf
<1>5. /\ t \in 0 .. Len(imports) /\ r.id \in Ids /\ syms[t][r.id] # NoSym
      /\ t = 0 => s = 0
      /\ t # s => t \in 1 .. Len(imports) /\ imports[t].used
  BY ONLY <1>1, <1>2, <1>4, LooksUpFacts
<1>. QED BY <1>1, <1>3, <1>4, <1>5

LEMMA CallsDefined == CInv => CallsAreDefined
<1>. SUFFICES ASSUME CInv, phase = "done", NEW e \in emitted, NEW t, t = ScopeOf(e), NEW id, id = RefOf(e).id,
                     NEW file, file = syms[t][id].val.file, syms[t][id].val.kind = "proc",
                     Prelude(file) => t # 0 /\ FileOf(t) = file
              PROVE  \/ bodies[e.name] # <<>>
                     \/ \E i \in DOMAIN imports : imports[i].file = file /\ Skipped(i)
                                                  /\ (imports[i].ignored \/ imports[i].isUsing)
  BY DEF CallsAreDefined, SymbolOf, Prelude
<1>1. /\ Emits(e.from) /\ RightAt(e, t, id) /\ t \in 0 .. Len(imports) /\ id \in Ids /\ syms[t][id] # NoSym
      /\ t = 0 => e.from = 0
      /\ t # e.from => t \in 1 .. Len(imports) /\ imports[t].used
  BY EmittedFacts
<1>2. AnalysisInv /\ GenInv /\ Len(imports) \in Nat
  BY CallTypes DEF CInv, AnalysisInv
<1>3. Denotes(t, id, e.name)
  BY <1>1 DEF RightAt
<1>4. CASE e.name = NameOf(t, id)
  <2>1. t = 0 => ~ buildIgnored
    <3>1. ~ (0 \in 1 .. Len(imports))
      BY <1>2
    <3>. QED BY <1>1, <3>1 DEF Emits
  <2>2. t # 0 /\ Skipped(t) => imports[t].ignored \/ imports[t].isUsing
    BY <1>1 DEF Emits, Skipped
  <2>. QED BY <1>1, <1>2, <1>4, <2>1, <2>2, NameDefined
<1>5. CASE t = 0 /\ \E j \in 1 .. Len(imports) : /\ imports[j].isUsing /\ syms[j][id] # NoSym /\ syms[0][id] # NoSym
                                                 /\ syms[j][id].val = syms[0][id].val /\ e.name = NameOf(j, id)
  <2>1. PICK j \in 1 .. Len(imports) : /\ imports[j].isUsing /\ syms[j][id] # NoSym
                                       /\ syms[j][id].val = syms[0][id].val /\ e.name = NameOf(j, id)
    BY <1>5
  <2>2. j \in 0 .. Len(imports) /\ j # 0 /\ ~ Prelude(file)
    BY <1>2, <1>5
  <2>3. syms[j][id].val.kind = "proc" /\ file = syms[j][id].val.file
    BY <1>5, <2>1
  <2>. QED BY <1>1, <1>2, <2>1, <2>2, <2>3, NameDefined
<1>. QED BY <1>3, <1>4, <1>5 DEF Denotes

LEMMA VariablesValued == CInv => VariablesHaveValues
<1>. SUFFICES ASSUME CInv, phase = "done", NEW e \in emitted, NEW t, t = ScopeOf(e), NEW id, id = RefOf(e).id,
                     t \in done, e.from = 0 \/ t < e.from,
                     syms[t][id].val = [file |-> FileOf(t), id |-> id, kind |-> "var"]
              PROVE  e.name # NoVal
  BY DEF VariablesHaveValues, SymbolOf
<1>1. RightAt(e, t, id)
  BY EmittedFacts
<1>2. t \in 1 .. Len(imports) /\ ~ Skipped(t)
  BY DEF CInv, GenInv, GenTypes, GenPhases
<1>. QED BY <1>1, <1>2 DEF RightAt

\* Every procedure that a generated declaration calls, in its own package or
\* another, under whatever copy of its symbol, has a body when ir_generate
\* returns, unless its package was left out: it is build-ignored, or an
\* unmarked using import.
THEOREM CallsOfGeneratedCodeAreDefined == CSpec => []CallsAreDefined
<1>1. CInit => CInv
  BY InitCodegen
<1>2. CInv /\ [CNext]_allVars => CInv'
  BY NextCodegen
<1>3. CInv => CallsAreDefined
  BY CallsDefined
<1>. QED BY <1>1, <1>2, <1>3, PTL DEF CSpec

\* A reference to a variable of a package that was generated before it has
\* the variable's value.
THEOREM VariablesOfGeneratedCodeHaveValues == CSpec => []VariablesHaveValues
<1>1. CInit => CInv
  BY InitCodegen
<1>2. CInv /\ [CNext]_allVars => CInv'
  BY NextCodegen
<1>3. CInv => VariablesHaveValues
  BY VariablesValued
<1>. QED BY <1>1, <1>2, <1>3, PTL DEF CSpec

=============================================================================
