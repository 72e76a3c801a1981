----------------------- MODULE StatementCodegenProofs -----------------------
(***************************************************************************)
(* Proofs about StatementCodegen, for all procedure bodies and all limits: *)
(* the generator's compile-time stacks follow the nesting of the source    *)
(* and are empty when a procedure is done.                                 *)
(*                                                                         *)
(* The pending work is a walk: each task moves the scope depth, the number *)
(* of loop entries and "a fallthrough target may be set" in a known way,   *)
(* and the whole of it leads back to the outermost scope, no loop, no      *)
(* target.  That is the invariant that the exits in the middle of a body   *)
(* (return, break, continue) must not disturb.                             *)
(***************************************************************************)
EXTENDS StatementCodegen, SequenceTheorems, WellFoundedInduction, TLAPS

-----------------------------------------------------------------------------
(* Types.                                                                  *)

Events == {s.id : s \in Statements}
Instrs(n) ==
  [i : {"call"}, id : Events] \cup [i : {"br"}, to : 1 .. n]
    \cup [i : {"cond"}, yes : 1 .. n, no : 1 .. n] \cup [i : {"ret"}]
Entry        == [id : Events, depth : Nat]
LoopEntry(n) == [cont : 1 .. n \cup {NoBlock}, brk : 1 .. n, depth : Nat]
Tasks(n) ==
  [do : {"gen"}, stmt : Statements]
    \cup [do : {"brIfOpen", "position", "branch"}, to : 1 .. n]
    \cup [do : {"condBranch"}, yes : 1 .. n, no : 1 .. n]
    \cup [do : {"open", "close", "popLoop", "lastCopy", "endProc"}]
    \cup [do : {"beginCase"}, case : 1 .. n, miss : 1 .. n, next : 1 .. n]
    \cup [do : {"endCase"}, end : 1 .. n, isDefault : BOOLEAN]

CodeInv  == code \in Seq(Seq(Instrs(Len(code)))) /\ cur \in 1 .. Len(code)
WorkInv  == work \in Seq(Tasks(Len(code)))
FlagsInv ==
  /\ fall \in 1 .. Len(code) \cup {NoBlock}
  /\ lossy \in BOOLEAN
  /\ phase \in {"gen", "run", "ref", "done", "cut", "bad", "starved"}

Sorted(ds) == \A j, k \in DOMAIN ds : j <= k => ds[j].depth <= ds[k].depth
DefersInv ==
  /\ depth \in Nat
  /\ defers \in Seq(Entry)
  /\ Sorted(defers)
  /\ \A k \in DOMAIN defers : 1 <= defers[k].depth /\ defers[k].depth <= depth
LoopsInv ==
  /\ loops \in Seq(LoopEntry(Len(code)))
  /\ \A j, k \in DOMAIN loops : j < k => loops[j].depth <= loops[k].depth
  /\ Len(loops) <= MaxLoopDepth

-----------------------------------------------------------------------------
(* The walk of the remaining work.                                         *)

\* Scope depth, loop entries, and whether there may be a fallthrough target.
States      == [d : Nat, n : Nat, f : {0, 1}]
St(d, n, f) == [d |-> d, n |-> n, f |-> f]

Move(t, s, u) ==
  /\ t.do \in {"open", "beginCase"} => u.d = s.d + 1
  /\ t.do \in {"close", "endCase"} => s.d = u.d + 1
  /\ t.do \notin {"open", "beginCase", "close", "endCase"} => u.d = s.d
  /\ u.n = IF t.do = "popLoop" /\ s.n > 0 THEN s.n - 1 ELSE s.n
  /\ t.do = "beginCase" => u.f = 1
  /\ t.do # "beginCase" => u.f = s.f \/ (t.do = "endCase" /\ ~ t.isDefault)

\* A statement is generated in a scope, which no loop of L[1 .. n] lies inside of.
Inside(s, L) == s.d >= 1 /\ \A j \in DOMAIN L : j <= s.n => L[j].depth <= s.d

Path(p, ts, s, u, L) ==
  /\ p \in [1 .. Len(ts) + 1 -> States]
  /\ p[1] = s /\ p[Len(ts) + 1] = u
  /\ \A k \in 1 .. Len(ts) : Move(ts[k], p[k], p[k + 1])
  /\ \A k \in 1 .. Len(ts) : ts[k].do = "gen" => Inside(p[k], L)
  /\ \A j, k \in 1 .. Len(ts) + 1 : j <= k => p[k].n <= p[j].n
Walk(ts, s, u, L) == \E p : Path(p, ts, s, u, L)

WalkInv ==
  phase = "gen" => \E f \in {0, 1} : /\ fall # NoBlock => f = 1
                                     /\ Walk(work, St(depth, Len(loops), f), St(0, 0, 0), loops)
EndInv == phase \notin {"gen", "bad"} => defers = <<>> /\ loops = <<>> /\ depth = 0 /\ fall = NoBlock

IInv == CodeInv /\ WorkInv /\ FlagsInv /\ DefersInv /\ LoopsInv /\ WalkInv /\ EndInv

\* Nothing to do leads nowhere else.
LEMMA WalkNil ==
  ASSUME NEW s \in States, NEW L
  PROVE  Walk(<<>>, s, s, L)
  <1>1. PICK p : p = [k \in 1 .. 1 |-> s] OBVIOUS
  <1>2. Len(<<>>) + 1 = 1 OBVIOUS
  <1>3. Path(p, <<>>, s, s, L)
    <2>1. p \in [1 .. Len(<<>>) + 1 -> States] BY <1>1, <1>2
    <2>2. p[1] = s /\ p[Len(<<>>) + 1] = s BY <1>1, <1>2
    <2>3. \A j, k \in 1 .. Len(<<>>) + 1 : j <= k => p[k].n <= p[j].n BY <1>1, <1>2 DEF States
    <2>4. 1 .. Len(<<>>) = {} OBVIOUS
    <2> QED BY <2>1, <2>2, <2>3, <2>4 DEF Path
  <1> QED BY <1>3 DEF Walk

LEMMA NilStays ==
  ASSUME NEW s, NEW u, NEW L, Walk(<<>>, s, u, L)
  PROVE  s = u
  <1>1. PICK p : Path(p, <<>>, s, u, L) BY DEF Walk
  <1> QED BY <1>1 DEF Path

\* One task is one move.
LEMMA WalkOne ==
  ASSUME NEW t, NEW s \in States, NEW u \in States, NEW L,
         Move(t, s, u), t.do = "gen" => Inside(s, L)
  PROVE  Walk(<<t>>, s, u, L)
  <1>1. PICK p : p = [k \in 1 .. 2 |-> IF k = 1 THEN s ELSE u] OBVIOUS
  <1>2. Len(<<t>>) = 1 /\ <<t>>[1] = t OBVIOUS
  <1>3. u.n <= s.n BY DEF Move, States
  <1>4. Path(p, <<t>>, s, u, L)
    <2>1. p \in [1 .. Len(<<t>>) + 1 -> States] BY <1>1, <1>2
    <2>2. p[1] = s /\ p[2] = u /\ Len(<<t>>) + 1 = 2 BY <1>1, <1>2
    <2>3. \A k \in 1 .. Len(<<t>>) : Move(<<t>>[k], p[k], p[k + 1]) BY <1>2, <2>2
    <2>4. \A k \in 1 .. Len(<<t>>) : <<t>>[k].do = "gen" => Inside(p[k], L) BY <1>2, <2>2
    <2>5. \A j, k \in 1 .. Len(<<t>>) + 1 : j <= k => p[k].n <= p[j].n BY <1>3, <2>2 DEF States
    <2> QED BY <2>1, <2>2, <2>3, <2>4, <2>5 DEF Path
  <1> QED BY <1>4 DEF Walk

\* Walks are put together end to start.
LEMMA WalkJoin ==
  ASSUME NEW T, NEW a \in Seq(T), NEW b \in Seq(T), NEW s, NEW v, NEW u, NEW L,
         Walk(a, s, v, L), Walk(b, v, u, L)
  PROVE  Walk(a \o b, s, u, L)
  <1>1. PICK p : Path(p, a, s, v, L) BY DEF Walk
  <1>2. PICK q : Path(q, b, v, u, L) BY DEF Walk
  <1>3. PICK m \in Nat : m = Len(a) OBVIOUS
  <1>4. PICK n \in Nat : n = Len(b) OBVIOUS
  <1>5. PICK r : r = [k \in 1 .. m + n + 1 |-> IF k <= m THEN p[k] ELSE q[k - m]] OBVIOUS
  <1>6. Len(a \o b) = m + n /\ \A k \in 1 .. m + n : (a \o b)[k] = IF k <= m THEN a[k] ELSE b[k - m]
    BY <1>3, <1>4
  <1>7. p \in [1 .. m + 1 -> States] /\ p[1] = s /\ p[m + 1] = v BY <1>1, <1>3 DEF Path
  <1>8. q \in [1 .. n + 1 -> States] /\ q[1] = v /\ q[n + 1] = u BY <1>2, <1>4 DEF Path
  <1>9. \A k \in 1 .. m + 1 : r[k] = p[k] BY <1>5, <1>7, <1>8
  <1>10. \A k \in m + 1 .. m + n + 1 : r[k] = q[k - m] BY <1>5
  <1>11. r \in [1 .. m + n + 1 -> States]
    <2>1. \A k \in 1 .. m + n + 1 : r[k] \in States
      <3> SUFFICES ASSUME NEW k \in 1 .. m + n + 1 PROVE r[k] \in States OBVIOUS
      <3>1. CASE k <= m BY <3>1, <1>9, <1>7
      <3>2. CASE k > m
        <4>1. k - m \in 1 .. n + 1 BY <3>2
        <4> QED BY <3>2, <4>1, <1>10, <1>8
      <3> QED BY <3>1, <3>2
    <2> QED BY <2>1, <1>5
  <1>12. r[1] = s /\ r[m + n + 1] = u BY <1>7, <1>8, <1>9, <1>10
  <1>13. \A k \in 1 .. m + n : Move((a \o b)[k], r[k], r[k + 1])
    <2> SUFFICES ASSUME NEW k \in 1 .. m + n PROVE Move((a \o b)[k], r[k], r[k + 1]) OBVIOUS
    <2>1. CASE k <= m
      <3>1. Move(a[k], p[k], p[k + 1]) BY <2>1, <1>1, <1>3 DEF Path
      <3>2. r[k] = p[k] /\ r[k + 1] = p[k + 1] BY <2>1, <1>9
      <3> QED BY <2>1, <3>1, <3>2, <1>6
    <2>2. CASE k > m
      <3>1. k - m \in 1 .. n /\ (k + 1) - m = (k - m) + 1 BY <2>2
      <3>2. Move(b[k - m], q[k - m], q[(k - m) + 1]) BY <3>1, <1>2, <1>4 DEF Path
      <3>3. r[k] = q[k - m] BY <2>2, <1>10
      <3>4. r[k + 1] = q[(k - m) + 1]
        <4>1. k + 1 \in m + 1 .. m + n + 1 BY <2>2
        <4> QED BY <4>1, <3>1, <1>10
      <3>5. (a \o b)[k] = b[k - m] BY <2>2, <1>6
      <3> QED BY <3>2, <3>3, <3>4, <3>5
    <2>3. k <= m \/ k > m OBVIOUS
    <2> QED BY <2>1, <2>2, <2>3, Zenon
  <1>14. \A k \in 1 .. m + n : (a \o b)[k].do = "gen" => Inside(r[k], L)
    <2> SUFFICES ASSUME NEW k \in 1 .. m + n PROVE (a \o b)[k].do = "gen" => Inside(r[k], L) OBVIOUS
    <2>1. CASE k <= m
      <3>1. a[k].do = "gen" => Inside(p[k], L) BY <2>1, <1>1, <1>3 DEF Path
      <3> QED BY <2>1, <3>1, <1>6, <1>9
    <2>2. CASE k > m
      <3>1. k - m \in 1 .. n BY <2>2
      <3>2. b[k - m].do = "gen" => Inside(q[k - m], L) BY <3>1, <1>2, <1>4 DEF Path
      <3>3. r[k] = q[k - m] BY <2>2, <1>10
      <3>4. (a \o b)[k] = b[k - m] BY <2>2, <1>6
      <3> QED BY <3>2, <3>3, <3>4
    <2> QED BY <2>1, <2>2
  <1>15. \A j, k \in 1 .. m + n + 1 : j <= k => r[k].n <= r[j].n
    <2>1. \A j, k \in 1 .. m + 1 : j <= k => p[k].n <= p[j].n BY <1>1, <1>3 DEF Path
    <2>2. \A j, k \in 1 .. n + 1 : j <= k => q[k].n <= q[j].n BY <1>2, <1>4 DEF Path
    <2> SUFFICES ASSUME NEW j \in 1 .. m + n + 1, NEW k \in 1 .. m + n + 1, j <= k
                 PROVE  r[k].n <= r[j].n
      OBVIOUS
    <2>3. CASE k <= m + 1 BY <2>3, <2>1, <1>9
    <2>4. CASE j >= m + 1
      <3>1. j - m \in 1 .. n + 1 /\ k - m \in 1 .. n + 1 /\ j - m <= k - m BY <2>4
      <3>2. r[j] = q[j - m] /\ r[k] = q[k - m] BY <2>4, <1>10
      <3> QED BY <3>1, <3>2, <2>2
    <2>5. CASE k > m + 1 /\ j < m + 1
      <3>1. k - m \in 1 .. n + 1 /\ 1 <= k - m BY <2>5
      <3>2. r[k].n <= v.n BY <2>5, <3>1, <2>2, <1>8, <1>10
      <3>3. v.n <= r[j].n BY <2>5, <2>1, <1>7, <1>9
      <3>4. r[k].n \in Nat /\ r[j].n \in Nat /\ v.n \in Nat BY <1>11, <1>7 DEF States
      <3> QED BY <3>2, <3>3, <3>4
    <2> QED BY <2>3, <2>4, <2>5
  <1>16. Path(r, a \o b, s, u, L) BY <1>6, <1>11, <1>12, <1>13, <1>14, <1>15 DEF Path
  <1> QED BY <1>16 DEF Walk

\* A walk is its first move and the walk of the rest.
LEMMA WalkTail ==
  ASSUME NEW T, NEW ts \in Seq(T), ts # <<>>, NEW s, NEW u, NEW L, Walk(ts, s, u, L)
  PROVE  /\ s \in States
         /\ Head(ts).do = "gen" => Inside(s, L)
         /\ \E v \in States : /\ Move(Head(ts), s, v) /\ v.n <= s.n
                              /\ Walk(Tail(ts), v, u, L)
  <1>1. PICK p : Path(p, ts, s, u, L) BY DEF Walk
  <1>2. PICK m \in Nat : Len(ts) = m + 1
    <2>1. Len(ts) \in Nat \ {0} OBVIOUS
    <2> QED BY <2>1
  <1>3. Len(Tail(ts)) = m /\ Head(ts) = ts[1] /\ \A k \in 1 .. m : Tail(ts)[k] = ts[k + 1] BY <1>2
  <1>4. p \in [1 .. m + 2 -> States] /\ p[1] = s /\ p[m + 2] = u
    <2>1. Len(ts) + 1 = m + 2 BY <1>2
    <2> QED BY <2>1, <1>1 DEF Path
  <1>5. \A k \in 1 .. m + 1 : Move(ts[k], p[k], p[k + 1]) BY <1>1, <1>2 DEF Path
  <1>6. \A k \in 1 .. m + 1 : ts[k].do = "gen" => Inside(p[k], L) BY <1>1, <1>2 DEF Path
  <1>7. \A j, k \in 1 .. m + 2 : j <= k => p[k].n <= p[j].n
    <2>1. Len(ts) + 1 = m + 2 BY <1>2
    <2> QED BY <2>1, <1>1 DEF Path
  <1>8. PICK q : q = [k \in 1 .. m + 1 |-> p[k + 1]] OBVIOUS
  <1>9. Path(q, Tail(ts), p[2], u, L)
    <2>1. q \in [1 .. m + 1 -> States] /\ q[1] = p[2] /\ q[m + 1] = u BY <1>4, <1>8
    <2>2. \A k \in 1 .. m : Move(Tail(ts)[k], q[k], q[k + 1]) BY <1>3, <1>5, <1>8
    <2>3. \A k \in 1 .. m : Tail(ts)[k].do = "gen" => Inside(q[k], L) BY <1>3, <1>6, <1>8
    <2>4. \A j, k \in 1 .. m + 1 : j <= k => q[k].n <= q[j].n BY <1>7, <1>8
    <2> QED BY <1>3, <2>1, <2>2, <2>3, <2>4 DEF Path
  <1>10. Walk(Tail(ts), p[2], u, L) BY <1>9 DEF Walk
  <1>11. Move(Head(ts), s, p[2])
    <2>1. Move(ts[1], p[1], p[1 + 1]) BY <1>5
    <2> QED BY <2>1, <1>3, <1>4
  <1>12. p[2] \in States /\ p[2].n <= s.n /\ s \in States BY <1>4, <1>7
  <1>13. Head(ts).do = "gen" => Inside(s, L) BY <1>3, <1>4, <1>6
  <1> QED BY <1>10, <1>11, <1>12, <1>13

\* What the walk says of the loops is about those it has at each point: others
\* may take the place of the rest.
LEMMA WalkOther ==
  ASSUME NEW ts, Len(ts) \in Nat, NEW s, NEW u, NEW L, NEW M, Walk(ts, s, u, L), s.n \in Nat,
         \A j \in DOMAIN M : j <= s.n => j \in DOMAIN L /\ L[j].depth = M[j].depth,
         DOMAIN M \subseteq Nat
  PROVE  Walk(ts, s, u, M)
  <1>1. PICK p : Path(p, ts, s, u, L) BY DEF Walk
  <1>2. PICK m \in Nat : m = Len(ts) OBVIOUS
  <1>3. \A k \in 1 .. m : ts[k].do = "gen" => Inside(p[k], M)
    <2> SUFFICES ASSUME NEW k \in 1 .. m, ts[k].do = "gen" PROVE Inside(p[k], M) OBVIOUS
    <2>1. Inside(p[k], L) BY <1>1, <1>2 DEF Path
    <2>2. p[k].n <= s.n
      <3>1. p[1] = s /\ \A j, i \in 1 .. m + 1 : j <= i => p[i].n <= p[j].n BY <1>1, <1>2 DEF Path
      <3> QED BY <3>1
    <2>3. p[k].n \in Nat
      <3>1. p \in [1 .. m + 1 -> States] BY <1>1, <1>2 DEF Path
      <3> QED BY <3>1 DEF States
    <2>4. ASSUME NEW j \in DOMAIN M, j <= p[k].n PROVE M[j].depth <= p[k].d
      <3>1. j \in Nat /\ j <= s.n BY <2>2, <2>3, <2>4
      <3>2. j \in DOMAIN L /\ L[j].depth = M[j].depth BY <3>1
      <3> QED BY <2>1, <2>4, <3>2 DEF Inside
    <2> QED BY <2>1, <2>4 DEF Inside
  <1>4. Path(p, ts, s, u, M) BY <1>1, <1>2, <1>3 DEF Path
  <1> QED BY <1>4 DEF Walk

Lower(s) == St(s.d, IF s.n = 0 THEN 0 ELSE s.n - 1, s.f)

LEMMA LowerMove ==
  ASSUME NEW t, NEW s \in States, NEW u \in States, Move(t, s, u)
  PROVE  Move(t, Lower(s), Lower(u))
  <1>1. Lower(s).d = s.d /\ Lower(u).d = u.d /\ Lower(s).f = s.f /\ Lower(u).f = u.f BY DEF Lower, St
  <1>2. Lower(s).n = IF s.n = 0 THEN 0 ELSE s.n - 1 BY DEF Lower, St
  <1>3. Lower(u).n = IF u.n = 0 THEN 0 ELSE u.n - 1 BY DEF Lower, St
  <1>4. s.n \in Nat /\ u.n \in Nat BY DEF States
  <1>5. u.n = IF t.do = "popLoop" /\ s.n > 0 THEN s.n - 1 ELSE s.n BY DEF Move
  <1>6. Lower(u).n = IF t.do = "popLoop" /\ Lower(s).n > 0 THEN Lower(s).n - 1 ELSE Lower(s).n
    BY <1>2, <1>3, <1>4, <1>5
  <1> QED BY <1>1, <1>6 DEF Move

\* When the push of a loop is dropped, its pop takes away the entry of an
\* outer loop: everything after it runs with one entry less.
LEMMA WalkLower ==
  ASSUME NEW ts, Len(ts) \in Nat, NEW s, NEW u, NEW L, DOMAIN L \subseteq Nat, Walk(ts, s, u, L)
  PROVE  Walk(ts, Lower(s), Lower(u), L)
  <1>1. PICK p : Path(p, ts, s, u, L) BY DEF Walk
  <1>2. PICK m \in Nat : m = Len(ts) OBVIOUS
  <1>3. PICK q : q = [k \in 1 .. m + 1 |-> Lower(p[k])] OBVIOUS
  <1>4. p \in [1 .. m + 1 -> States] /\ p[1] = s /\ p[m + 1] = u BY <1>1, <1>2 DEF Path
  <1>5. \A x \in States : /\ Lower(x) \in States /\ Lower(x).d = x.d
                          /\ Lower(x).n = IF x.n = 0 THEN 0 ELSE x.n - 1
    BY DEF Lower, St, States
  <1>6. q \in [1 .. m + 1 -> States] /\ q[1] = Lower(s) /\ q[m + 1] = Lower(u) BY <1>3, <1>4, <1>5
  <1>7. \A k \in 1 .. m : Move(ts[k], q[k], q[k + 1])
    <2> SUFFICES ASSUME NEW k \in 1 .. m PROVE Move(ts[k], q[k], q[k + 1]) OBVIOUS
    <2>1. Move(ts[k], p[k], p[k + 1]) BY <1>1, <1>2 DEF Path
    <2>2. p[k] \in States /\ p[k + 1] \in States BY <1>4
    <2>3. q[k] = Lower(p[k]) /\ q[k + 1] = Lower(p[k + 1]) BY <1>3
    <2> QED BY <2>1, <2>2, <2>3, LowerMove
  <1>8. \A k \in 1 .. m : ts[k].do = "gen" => Inside(q[k], L)
    <2> SUFFICES ASSUME NEW k \in 1 .. m, ts[k].do = "gen" PROVE Inside(q[k], L) OBVIOUS
    <2>1. Inside(p[k], L) BY <1>1, <1>2 DEF Path
    <2>2. q[k].d = p[k].d /\ q[k].n <= p[k].n /\ q[k].n \in Nat /\ p[k].n \in Nat
      <3>1. p[k] \in States /\ q[k] = Lower(p[k]) BY <1>3, <1>4
      <3> QED BY <3>1, <1>5 DEF States
    <2>3. \A j \in DOMAIN L : j <= q[k].n => j <= p[k].n BY <2>2
    <2> QED BY <2>1, <2>2, <2>3 DEF Inside
  <1>9. \A j, k \in 1 .. m + 1 : j <= k => q[k].n <= q[j].n
    <2> SUFFICES ASSUME NEW j \in 1 .. m + 1, NEW k \in 1 .. m + 1, j <= k PROVE q[k].n <= q[j].n
      OBVIOUS
    <2>1. p[k].n <= p[j].n BY <1>1, <1>2 DEF Path
    <2>2. p[k] \in States /\ p[j] \in States BY <1>4
    <2>3. q[k].n = IF p[k].n = 0 THEN 0 ELSE p[k].n - 1 BY <2>2, <1>3, <1>5
    <2>4. q[j].n = IF p[j].n = 0 THEN 0 ELSE p[j].n - 1 BY <2>2, <1>3, <1>5
    <2>5. p[k].n \in Nat /\ p[j].n \in Nat BY <2>2 DEF States
    <2> QED BY <2>1, <2>3, <2>4, <2>5
  <1>10. Path(q, ts, Lower(s), Lower(u), L) BY <1>2, <1>6, <1>7, <1>8, <1>9 DEF Path
  <1> QED BY <1>10 DEF Walk

\* A list of statements inside a scope.
LEMMA WalkGens ==
  ASSUME NEW ss \in Seq(Statements), NEW s \in States, NEW L, Inside(s, L)
  PROVE  Walk(GenAll(ss), s, s, L)
  <1>1. PICK m \in Nat : m = Len(ss) OBVIOUS
  <1>2. Len(GenAll(ss)) = m /\ \A k \in 1 .. m : GenAll(ss)[k].do = "gen"
    <2>1. PICK g : g = [k \in 1 .. m |-> Gen(ss[k])] OBVIOUS
    <2>2. GenAll(ss) = g
      <3>1. DOMAIN ss = 1 .. m BY <1>1
      <3> QED BY <2>1, <3>1 DEF GenAll
    <2>3. Len(g) = m BY <2>1
    <2>4. \A k \in 1 .. m : g[k].do = "gen" BY <2>1 DEF Gen
    <2> QED BY <2>2, <2>3, <2>4
  <1>3. PICK p : p = [k \in 1 .. m + 1 |-> s] OBVIOUS
  <1>4. \A t : t.do = "gen" => Move(t, s, s) BY DEF Move, States
  <1>5. Path(p, GenAll(ss), s, s, L)
    <2>1. p \in [1 .. m + 1 -> States] /\ p[1] = s /\ p[m + 1] = s BY <1>3
    <2>2. \A k \in 1 .. m : Move(GenAll(ss)[k], p[k], p[k + 1]) BY <1>2, <1>3, <1>4
    <2>3. \A k \in 1 .. m : Inside(p[k], L) BY <1>3
    <2>4. \A j, k \in 1 .. m + 1 : j <= k => p[k].n <= p[j].n BY <1>3 DEF States
    <2> QED BY <1>2, <2>1, <2>2, <2>3, <2>4 DEF Path
  <1> QED BY <1>5 DEF Walk

LEMMA Least ==
  ASSUME NEW S \in SUBSET Nat, S # {}
  PROVE  \E m \in S : \A k \in S : m <= k
  <1>1. PICK m \in S : \A k \in S : ~ (<<k, m>> \in OpToRel(<, Nat))
    BY NatLessThanWellFounded, WFMin, Zenon
  <1>2. \A k \in S : ~ (k < m) BY <1>1 DEF OpToRel
  <1> QED BY <1>2

-----------------------------------------------------------------------------
(* Lists of lists.  FlattenSeq is a recursive function: it has a value, and *)
(* the least place where a claim about it fails would be one too many.     *)

FlatAt(q, f, i) == IF i = 1 THEN q[i] ELSE f[i - 1] \o q[i]
Flattens(q, f, n) == f = [i \in 1 .. n |-> FlatAt(q, f, i)]

LEMMA FlattensAt ==
  ASSUME NEW q, NEW f, NEW n, Flattens(q, f, n), NEW i \in 1 .. n
  PROVE  f[i] = FlatAt(q, f, i)
  <1>1. PICK u : u = [x \in 1 .. n |-> FlatAt(q, f, x)] OBVIOUS
  <1>2. f = u BY <1>1, Zenon DEF Flattens
  <1>3. u[i] = FlatAt(q, f, i) BY <1>1
  <1> QED BY <1>2, <1>3

LEMMA FlattensExists ==
  ASSUME NEW q, NEW n \in Nat
  PROVE  \E f : Flattens(q, f, n)
  <1> DEFINE Bad == {m \in 0 .. n : ~ \E f : Flattens(q, f, m)}
  <1> SUFFICES ASSUME Bad # {} PROVE FALSE OBVIOUS
  <1>0. Bad \in SUBSET Nat OBVIOUS
  <1>1. PICK m \in Bad : \A k \in Bad : m <= k
    <2> HIDE DEF Bad
    <2> QED BY <1>0, Least
  <1>2. CASE m = 0
    <2>1. PICK f : f = [i \in 1 .. 0 |-> <<>>] OBVIOUS
    <2>2. Flattens(q, f, 0) BY <2>1 DEF Flattens
    <2> QED BY <1>1, <1>2, <2>2
  <1>3. CASE m # 0
    <2>1. m - 1 \in 0 .. n /\ m - 1 \notin Bad /\ m \in 1 .. n BY <1>1, <1>3
    <2>2. PICK f : Flattens(q, f, m - 1) BY <2>1
    <2>3. PICK h : h = [i \in 1 .. m |-> IF i = m THEN FlatAt(q, f, m) ELSE f[i]] OBVIOUS
    <2>4. ASSUME NEW i \in 1 .. m PROVE h[i] = FlatAt(q, h, i)
      <3>1. i # 1 => h[i - 1] = f[i - 1]
        <4>1. \A p \in 1 .. m - 1 : h[p] = f[p] BY <2>1, <2>3
        <4>2. i # 1 => i - 1 \in 1 .. m - 1 BY <2>1
        <4> QED BY <4>1, <4>2
      <3>2. FlatAt(q, h, i) = FlatAt(q, f, i) BY <3>1 DEF FlatAt
      <3>3. i # m => h[i] = f[i] /\ f[i] = FlatAt(q, f, i)
        <4>1. i # m => i \in 1 .. m - 1 BY <2>1
        <4> QED BY <2>2, <2>3, <4>1, FlattensAt
      <3>4. i = m => h[i] = FlatAt(q, f, i) BY <2>3
      <3> QED BY <3>2, <3>3, <3>4
    <2>5. Flattens(q, h, m) BY <2>3, <2>4 DEF Flattens
    <2> QED BY <1>1, <2>5
  <1> QED BY <1>2, <1>3

\* Lists of tasks that each come back to where they start, one after the other.
LEMMA WalkFlat ==
  ASSUME NEW T, NEW q \in Seq(Seq(T)), NEW s \in States, NEW L,
         \A k \in 1 .. Len(q) : Walk(q[k], s, s, L)
  PROVE  FlattenSeq(q) \in Seq(T) /\ Walk(FlattenSeq(q), s, s, L)
  <1>1. PICK n \in Nat : n = Len(q) OBVIOUS
  <1>2. CASE n = 0
    <2>1. q = <<>> BY <1>1, <1>2, EmptySeq
    <2>2. FlattenSeq(q) = <<>> BY <2>1 DEF FlattenSeq
    <2>3. <<>> \in Seq(T) OBVIOUS
    <2> QED BY <2>2, <2>3, WalkNil
  <1>3. CASE n # 0
    <2>1. \E f : Flattens(q, f, n) BY FlattensExists
    <2>2. PICK f : f = CHOOSE g : g = [i \in 1 .. Len(q) |-> IF i = 1 THEN q[i] ELSE g[i - 1] \o q[i]]
      OBVIOUS
    <2>3. Flattens(q, f, n) BY <1>1, <2>1, <2>2 DEF Flattens, FlatAt
    <2>4. FlattenSeq(q) = f[n] BY <1>1, <1>3, <2>2 DEF FlattenSeq
    <2> DEFINE Good(i) == f[i] \in Seq(T) /\ Walk(f[i], s, s, L)
               Bad == {i \in 1 .. n : ~ Good(i)}
    <2>5. Bad = {}
      <3> SUFFICES ASSUME Bad # {} PROVE FALSE OBVIOUS
      <3>1. Bad \in SUBSET Nat OBVIOUS
      <3>2. PICK m \in Bad : \A k \in Bad : m <= k
        <4> HIDE DEF Bad
        <4> QED BY <3>1, Least
      <3>3. f[m] = FlatAt(q, f, m) BY <2>3, <3>2, FlattensAt
      <3>4. q[m] \in Seq(T) /\ Walk(q[m], s, s, L)
        <4>1. m \in 1 .. Len(q) BY <1>1, <3>2
        <4> QED BY <4>1
      <3>5. m # 1 BY <3>2, <3>3, <3>4 DEF FlatAt
      <3>6. m - 1 \in 1 .. n /\ m - 1 \notin Bad BY <3>2, <3>5
      <3>7. Good(m - 1) BY <3>6
      <3>8. f[m] = f[m - 1] \o q[m] BY <3>3, <3>5 DEF FlatAt
      <3>9. Good(m)
        <4>1. PICK g \in Seq(T) : g = f[m - 1] BY <3>7
        <4>2. PICK x \in Seq(T) : x = q[m] BY <3>4
        <4>3. f[m] = g \o x /\ Walk(g, s, s, L) /\ Walk(x, s, s, L) BY <3>4, <3>7, <3>8, <4>1, <4>2
        <4>4. Walk(g \o x, s, s, L) BY <4>3, WalkJoin
        <4>5. g \o x \in Seq(T) OBVIOUS
        <4> QED BY <4>3, <4>4, <4>5
      <3> QED BY <3>2, <3>9
    <2>6. Good(n)
      <3>1. n \in 1 .. n BY <1>3
      <3> QED BY <2>5, <3>1
    <2> QED BY <2>4, <2>6
  <1> QED BY <1>2, <1>3

-----------------------------------------------------------------------------
(* The stack of defers: the compaction keeps the order.                    *)

KeptAt(ds, D, f, i) ==
  IF i = 0 THEN <<>> ELSE IF ds[i].depth \in D THEN Append(f[i - 1], ds[i]) ELSE f[i - 1]
Keeps(ds, D, f, n) == f = [i \in 0 .. n |-> KeptAt(ds, D, f, i)]

LEMMA KeepsAt ==
  ASSUME NEW ds, NEW D, NEW f, NEW n, Keeps(ds, D, f, n), NEW i \in 0 .. n
  PROVE  f[i] = KeptAt(ds, D, f, i)
  <1>1. PICK u : u = [x \in 0 .. n |-> KeptAt(ds, D, f, x)] OBVIOUS
  <1>2. f = u BY <1>1, Zenon DEF Keeps
  <1>3. u[i] = KeptAt(ds, D, f, i) BY <1>1
  <1> QED BY <1>2, <1>3

LEMMA KeepsExists ==
  ASSUME NEW ds, NEW D, NEW n \in Nat
  PROVE  \E f : Keeps(ds, D, f, n)
  <1> DEFINE Bad == {m \in 0 .. n : ~ \E f : Keeps(ds, D, f, m)}
  <1> SUFFICES ASSUME Bad # {} PROVE FALSE OBVIOUS
  <1>0. Bad \in SUBSET Nat OBVIOUS
  <1>1. PICK m \in Bad : \A k \in Bad : m <= k
    <2> HIDE DEF Bad
    <2> QED BY <1>0, Least
  <1>2. CASE m = 0
    <2>1. PICK f : f = [i \in 0 .. 0 |-> <<>>] OBVIOUS
    <2>2. Keeps(ds, D, f, 0) BY <2>1 DEF Keeps, KeptAt
    <2> QED BY <1>1, <1>2, <2>2
  <1>3. CASE m # 0
    <2>1. m - 1 \in 0 .. n /\ m - 1 \notin Bad /\ m \in 1 .. n BY <1>1, <1>3
    <2>2. PICK f : Keeps(ds, D, f, m - 1) BY <2>1
    <2>3. PICK h : h = [i \in 0 .. m |-> IF i = m THEN KeptAt(ds, D, f, m) ELSE f[i]] OBVIOUS
    <2>4. ASSUME NEW i \in 0 .. m PROVE h[i] = KeptAt(ds, D, h, i)
      <3>1. i # 0 => h[i - 1] = f[i - 1]
        <4>1. \A p \in 0 .. m - 1 : h[p] = f[p] BY <2>1, <2>3
        <4>2. i # 0 => i - 1 \in 0 .. m - 1 BY <2>1
        <4> QED BY <4>1, <4>2
      <3>2. KeptAt(ds, D, h, i) = KeptAt(ds, D, f, i) BY <3>1 DEF KeptAt
      <3>3. i # m => h[i] = f[i] /\ f[i] = KeptAt(ds, D, f, i)
        <4>1. i # m => i \in 0 .. m - 1 BY <2>1
        <4> QED BY <2>2, <2>3, <4>1, KeepsAt
      <3>4. i = m => h[i] = KeptAt(ds, D, f, i) BY <2>3
      <3> QED BY <3>2, <3>3, <3>4
    <2>5. Keeps(ds, D, h, m) BY <2>3, <2>4 DEF Keeps
    <2> QED BY <1>1, <2>5
  <1> QED BY <1>2, <1>3

LEMMA SortedAppend ==
  ASSUME NEW g \in Seq(Entry), Sorted(g), NEW x \in Entry,
         \A k \in DOMAIN g : g[k].depth <= x.depth
  PROVE  Append(g, x) \in Seq(Entry) /\ Sorted(Append(g, x))
  <1>1. PICK n \in Nat : n = Len(g) OBVIOUS
  <1>2. PICK h : h = Append(g, x) OBVIOUS
  <1>3. /\ h \in Seq(Entry) /\ DOMAIN h = 1 .. n + 1 /\ DOMAIN g = 1 .. n
        /\ h[n + 1] = x /\ \A k \in 1 .. n : h[k] = g[k]
    BY <1>1, <1>2
  <1>4. ASSUME NEW j \in 1 .. n + 1, NEW k \in 1 .. n + 1, j <= k PROVE h[j].depth <= h[k].depth
    <2>1. CASE k <= n BY <1>3, <1>4, <2>1 DEF Sorted
    <2>2. CASE k = n + 1 /\ j <= n BY <1>3, <2>2
    <2>3. CASE k = n + 1 /\ j = n + 1 BY <1>3, <2>3 DEF Entry
    <2> QED BY <1>4, <2>1, <2>2, <2>3
  <1>5. Sorted(h) BY <1>3, <1>4 DEF Sorted
  <1> QED BY <1>2, <1>3, <1>5

\* r: some of the first n entries of ds, in their order, with depths in D.
Thinned(r, ds, D, n) ==
  /\ r \in Seq(Entry) /\ Sorted(r)
  /\ \A k \in DOMAIN r : r[k].depth \in D /\ (\E j \in 1 .. n : r[k] = ds[j])

LEMMA DefersInThins ==
  ASSUME defers \in Seq(Entry), Sorted(defers), NEW D
  PROVE  Thinned(DefersIn(D), defers, D, Len(defers))
  <1>1. PICK n \in Nat : n = Len(defers) OBVIOUS
  <1>2. \E f : Keeps(defers, D, f, n) BY KeepsExists
  <1>3. PICK f : f = CHOOSE g : g = [read \in 0 .. Len(defers) |-> IF read = 0 THEN <<>>
                     ELSE IF defers[read].depth \in D THEN Append(g[read - 1], defers[read]) ELSE g[read - 1]]
    OBVIOUS
  <1>4. Keeps(defers, D, f, n) BY <1>1, <1>2, <1>3 DEF Keeps, KeptAt
  <1>5. DefersIn(D) = f[n] BY <1>1, <1>3 DEF DefersIn
  <1> DEFINE Bad == {i \in 0 .. n : ~ Thinned(f[i], defers, D, i)}
  <1>6. Bad = {}
    <2> SUFFICES ASSUME Bad # {} PROVE FALSE OBVIOUS
    <2>1. Bad \in SUBSET Nat OBVIOUS
    <2>2. PICK m \in Bad : \A k \in Bad : m <= k
      <3> HIDE DEF Bad
      <3> QED BY <2>1, Least
    <2>3. f[m] = KeptAt(defers, D, f, m) BY <1>4, <2>2, KeepsAt
    <2>4. m # 0
      <3>1. m = 0 => f[m] = <<>> BY <2>3 DEF KeptAt
      <3>2. PICK e : e = <<>> OBVIOUS
      <3>3. e \in Seq(Entry) /\ DOMAIN e = {} BY <3>2
      <3>4. Thinned(e, defers, D, m) BY <3>3 DEF Thinned, Sorted
      <3> QED BY <2>2, <3>1, <3>2, <3>4
    <2>5. m - 1 \in 0 .. n /\ m - 1 \notin Bad /\ m \in 1 .. n BY <2>2, <2>4
    <2>6. PICK g : g = f[m - 1] OBVIOUS
    <2>7. Thinned(g, defers, D, m - 1) BY <2>5, <2>6
    <2>8. PICK x \in Entry : x = defers[m] BY <1>1, <2>5
    <2>9. f[m] = IF x.depth \in D THEN Append(g, x) ELSE g BY <2>3, <2>4, <2>6, <2>8 DEF KeptAt
    <2>10. Thinned(g, defers, D, m) BY <2>5, <2>7 DEF Thinned
    <2>11. ASSUME x.depth \in D PROVE Thinned(Append(g, x), defers, D, m)
      <3>1. \A k \in DOMAIN g : g[k].depth <= x.depth
        <4> SUFFICES ASSUME NEW k \in DOMAIN g PROVE g[k].depth <= x.depth OBVIOUS
        <4>1. PICK j \in 1 .. m - 1 : g[k] = defers[j] BY <2>7 DEF Thinned
        <4>2. j \in DOMAIN defers /\ m \in DOMAIN defers /\ j <= m BY <1>1, <2>5, <4>1
        <4> QED BY <2>8, <4>1, <4>2 DEF Sorted
      <3>2. g \in Seq(Entry) /\ Sorted(g) BY <2>7 DEF Thinned
      <3>3. Append(g, x) \in Seq(Entry) /\ Sorted(Append(g, x)) BY <3>1, <3>2, SortedAppend
      <3>4. \A k \in DOMAIN Append(g, x) : Append(g, x)[k] = x \/ (k \in DOMAIN g /\ Append(g, x)[k] = g[k])
        BY <3>2
      <3>5. m \in 1 .. m BY <2>5
      <3> QED BY <2>8, <2>10, <2>11, <3>3, <3>4, <3>5 DEF Thinned
    <2> QED BY <2>2, <2>9, <2>10, <2>11
  <1>7. n \in 0 .. n OBVIOUS
  <1> QED BY <1>1, <1>5, <1>6, <1>7

\* What is left of the stack when the entries at some depths are taken.
LEMMA DefersInKeeps ==
  ASSUME DefersInv, NEW D
  PROVE  /\ DefersIn(D) \in Seq(Entry)
         /\ Sorted(DefersIn(D))
         /\ \A k \in DOMAIN DefersIn(D) : /\ DefersIn(D)[k].depth \in D
                                          /\ DefersIn(D)[k].depth \in 1 .. depth
  <1>1. PICK r : r = DefersIn(D) OBVIOUS
  <1>2. Thinned(r, defers, D, Len(defers)) BY <1>1, DefersInThins DEF DefersInv
  <1>3. ASSUME NEW k \in DOMAIN r PROVE r[k].depth \in 1 .. depth
    <2>1. PICK j \in 1 .. Len(defers) : r[k] = defers[j] BY <1>2 DEF Thinned
    <2>2. j \in DOMAIN defers /\ defers[j] \in Entry BY DEF DefersInv
    <2> QED BY <2>1, <2>2 DEF DefersInv, Entry
  <1> QED BY <1>1, <1>2, <1>3 DEF Thinned

-----------------------------------------------------------------------------
(* Blocks and instructions.                                                *)

LEMMA SeqGrows ==
  ASSUME NEW S, NEW T, S \subseteq T, NEW s \in Seq(S)
  PROVE  s \in Seq(T)
  OBVIOUS

LEMMA Grows ==
  ASSUME NEW n \in Nat, NEW m \in Nat, n <= m
  PROVE  /\ Instrs(n) \subseteq Instrs(m)
         /\ LoopEntry(n) \subseteq LoopEntry(m)
         /\ Tasks(n) \subseteq Tasks(m)
  <1>1. 1 .. n \subseteq 1 .. m OBVIOUS
  <1>2. Instrs(n) \subseteq Instrs(m) BY <1>1 DEF Instrs
  <1>3. LoopEntry(n) \subseteq LoopEntry(m) BY <1>1 DEF LoopEntry
  <1>4. Tasks(n) \subseteq Tasks(m) BY <1>1 DEF Tasks
  <1> QED BY <1>2, <1>3, <1>4

LEMMA Instructions ==
  ASSUME NEW n
  PROVE  /\ \A e \in Events : CallTo(e) \in Instrs(n)
         /\ \A b \in 1 .. n : Br(b) \in Instrs(n)
         /\ \A y, z \in 1 .. n : CondBr(y, z) \in Instrs(n)
         /\ Ret \in Instrs(n)
  BY DEF Instrs, CallTo, Br, CondBr, Ret

\* Generating deferred statements only adds calls.
LEMMA EmittedIs ==
  ASSUME NEW ds \in Seq(Entry), NEW n
  PROVE  Emitted(ds) \in Seq(Instrs(n))
  <1>1. PICK m \in Nat : m = Len(ds) OBVIOUS
  <1>2. PICK r : r = [k \in 1 .. m |-> ds[(m - k) + 1]] OBVIOUS
  <1>3. Reverse(ds) = r BY <1>1, <1>2 DEF Reverse
  <1>4. \A k \in 1 .. m : r[k] \in Entry
    <2> SUFFICES ASSUME NEW k \in 1 .. m PROVE r[k] \in Entry OBVIOUS
    <2>1. (m - k) + 1 \in 1 .. m OBVIOUS
    <2> QED BY <1>1, <1>2, <2>1
  <1>5. PICK w : w = [k \in 1 .. m |-> CallTo(r[k].id)] OBVIOUS
  <1>6. Emitted(ds) = w
    <2>1. DOMAIN r = 1 .. m BY <1>2
    <2> QED BY <1>3, <1>5, <2>1 DEF Emitted, Ids
  <1>7. \A k \in 1 .. m : w[k] \in Instrs(n)
    <2> SUFFICES ASSUME NEW k \in 1 .. m PROVE w[k] \in Instrs(n) OBVIOUS
    <2>1. r[k].id \in Events BY <1>4 DEF Entry
    <2> QED BY <1>5, <2>1, Instructions
  <1>8. w \in Seq(Instrs(n)) BY <1>5, <1>7
  <1> QED BY <1>6, <1>8

\* n blocks, with instructions for m blocks.
Blocks(c, n, m) == c \in Seq(Seq(Instrs(m))) /\ Len(c) = n

LEMMA PutBlocks ==
  ASSUME NEW c, NEW n \in Nat, NEW m, Blocks(c, n, m), NEW b \in 1 .. n, NEW is \in Seq(Instrs(m))
  PROVE  Blocks(Put(c, b, is), n, m)
  <1>1. PICK B : B = Seq(Instrs(m)) OBVIOUS
  <1>2. c \in Seq(B) /\ Len(c) = n BY <1>1 DEF Blocks
  <1>3. c[b] \in B BY <1>2
  <1>4. PICK x : x = c[b] \o is OBVIOUS
  <1>5. x \in B BY <1>1, <1>3, <1>4
  <1>6. PICK d : d = [c EXCEPT ![b] = x] OBVIOUS
  <1>7. d \in Seq(B) /\ Len(d) = n BY <1>2, <1>5, <1>6
  <1>8. Put(c, b, is) = d BY <1>4, <1>6 DEF Put
  <1> QED BY <1>1, <1>7, <1>8 DEF Blocks

LEMMA MoreBlocks ==
  ASSUME NEW c, NEW n \in Nat, NEW m \in Nat, NEW l \in Nat, Blocks(c, n, l), l <= m,
         NEW x \in Seq(Seq(Instrs(m)))
  PROVE  Blocks(c \o x, n + Len(x), m)
  <1>1. Instrs(l) \subseteq Instrs(m) BY Grows
  <1>2. PICK I : I = Instrs(l) OBVIOUS
  <1>3. PICK J : J = Instrs(m) OBVIOUS
  <1>4. Seq(I) \subseteq Seq(J) BY <1>1, <1>2, <1>3, SeqGrows
  <1>5. c \in Seq(Seq(J))
    <2>1. c \in Seq(Seq(I)) BY <1>2 DEF Blocks
    <2> QED BY <1>4, <2>1, SeqGrows
  <1>6. PICK B : B = Seq(J) OBVIOUS
  <1>7. c \in Seq(B) /\ x \in Seq(B) BY <1>3, <1>5, <1>6
  <1>8. c \o x \in Seq(B) /\ Len(c \o x) = Len(c) + Len(x) BY <1>7
  <1> QED BY <1>3, <1>6, <1>8 DEF Blocks

-----------------------------------------------------------------------------
(* What the lists of tasks that the handlers leave behind do.              *)

LEMMA Statement ==
  ASSUME NEW s \in Statements
  PROVE  StatementOk(s)
  BY StatementsAssumption

Goes(ts, n, s, u, L) == ts \in Seq(Tasks(n)) /\ Walk(ts, s, u, L)

LEMMA GoesNil ==
  ASSUME NEW n, NEW s \in States, NEW L
  PROVE  Goes(<<>>, n, s, s, L)
  <1>1. PICK T : T = Tasks(n) OBVIOUS
  <1>2. PICK e : e = <<>> OBVIOUS
  <1>3. e \in Seq(T) BY <1>2
  <1> QED BY <1>1, <1>2, <1>3, WalkNil DEF Goes

LEMMA GoesJoin ==
  ASSUME NEW n, NEW a, NEW b, NEW s, NEW v, NEW u, NEW L, Goes(a, n, s, v, L), Goes(b, n, v, u, L)
  PROVE  Goes(a \o b, n, s, u, L)
  <1>1. PICK T : T = Tasks(n) OBVIOUS
  <1>2. a \in Seq(T) /\ b \in Seq(T) BY <1>1 DEF Goes
  <1>3. a \o b \in Seq(T) BY <1>2
  <1>4. Walk(a \o b, s, u, L) BY <1>2, WalkJoin DEF Goes
  <1> QED BY <1>1, <1>3, <1>4 DEF Goes

LEMMA GoesOne ==
  ASSUME NEW n, NEW t \in Tasks(n), NEW s \in States, NEW u \in States, NEW L,
         Move(t, s, u), t.do # "gen"
  PROVE  Goes(<<t>>, n, s, u, L)
  <1>1. PICK T : T = Tasks(n) OBVIOUS
  <1>2. <<t>> \in Seq(T) BY <1>1
  <1> QED BY <1>1, <1>2, WalkOne DEF Goes

\* Between the parts of a statement nothing moves.
LEMMA GlueGoes ==
  ASSUME NEW n \in Nat, NEW b \in 1 .. n, NEW s \in States, NEW L
  PROVE  /\ Goes(<<BrIfOpen(b)>>, n, s, s, L)
         /\ Goes(<<Position(b)>>, n, s, s, L)
         /\ Goes(<<Branch(b)>>, n, s, s, L)
         /\ \A y \in 1 .. n : Goes(<<CondBranch(y, b)>>, n, s, s, L)
         /\ Goes(<<Todo("lastCopy")>>, n, s, s, L)
         /\ Goes(<<Todo("endProc")>>, n, s, s, L)
  <1> DEFINE Still == {BrIfOpen(b), Position(b), Branch(b), Todo("lastCopy"), Todo("endProc")}
                        \cup {CondBranch(y, b) : y \in 1 .. n}
             Names == {"brIfOpen", "position", "branch", "condBranch", "lastCopy", "endProc"}
  <1>1. \A t \in Still : t \in Tasks(n) /\ t.do \in Names
    BY DEF BrIfOpen, Position, Branch, CondBranch, Todo, Tasks
  <1>2. \A t : t.do \in Names => Move(t, s, s) BY DEF Move, States
  <1>3. \A t \in Still : Goes(<<t>>, n, s, s, L)
    <2> SUFFICES ASSUME NEW t \in Still PROVE Goes(<<t>>, n, s, s, L) OBVIOUS
    <2>1. t \in Tasks(n) /\ Move(t, s, s) /\ t.do # "gen" BY <1>1, <1>2
    <2> QED BY <2>1, GoesOne
  <1> QED BY <1>3

LEMMA PopGoes ==
  ASSUME NEW n, NEW s \in States, NEW L
  PROVE  Goes(<<Todo("popLoop")>>, n, s, Lower(s), L)
  <1>1. PICK t : t = Todo("popLoop") OBVIOUS
  <1>2. t \in Tasks(n) /\ t.do = "popLoop" BY <1>1 DEF Todo, Tasks
  <1>3. Lower(s) \in States BY DEF Lower, St, States
  <1>4. Lower(s).d = s.d /\ Lower(s).f = s.f /\ Lower(s).n = IF s.n = 0 THEN 0 ELSE s.n - 1
    BY DEF Lower, St
  <1>5. s.n \in Nat BY DEF States
  <1>6. Move(t, s, Lower(s)) BY <1>2, <1>4, <1>5 DEF Move
  <1> QED BY <1>1, <1>2, <1>3, <1>6, GoesOne

\* A scope: one level deeper, and back.
LoopsAround(s, L) == \A j \in DOMAIN L : j <= s.n => L[j].depth <= s.d
Deeper(s, f)   == St(s.d + 1, s.n, f)

LEMMA DeeperIs ==
  ASSUME NEW s \in States, NEW f \in {0, 1}
  PROVE  Deeper(s, f) \in States /\ Deeper(s, f).d = s.d + 1 /\ Deeper(s, f).n = s.n /\ Deeper(s, f).f = f
  BY DEF Deeper, St, States

LEMMA DeeperInside ==
  ASSUME NEW s \in States, NEW L, LoopsAround(s, L), NEW f \in {0, 1},
         \A j \in DOMAIN L : L[j].depth \in Nat
  PROVE  Inside(Deeper(s, f), L)
  <1>1. s.d \in Nat BY DEF States
  <1>2. Deeper(s, f).d = s.d + 1 /\ Deeper(s, f).n = s.n BY DeeperIs
  <1>3. ASSUME NEW j \in DOMAIN L, j <= s.n PROVE L[j].depth <= s.d + 1
    <2>1. L[j].depth <= s.d /\ L[j].depth \in Nat BY <1>3 DEF LoopsAround
    <2> QED BY <1>1, <2>1
  <1> QED BY <1>1, <1>2, <1>3 DEF Inside

LEMMA GensGo ==
  ASSUME NEW n, NEW ss \in Seq(Statements), NEW s \in States, NEW L, Inside(s, L)
  PROVE  Goes(GenAll(ss), n, s, s, L)
  <1>1. PICK m \in Nat : m = Len(ss) OBVIOUS
  <1>2. PICK g : g = [k \in 1 .. m |-> Gen(ss[k])] OBVIOUS
  <1>3. GenAll(ss) = g
    <2>1. DOMAIN ss = 1 .. m BY <1>1
    <2> QED BY <1>2, <2>1 DEF GenAll
  <1>4. \A k \in 1 .. m : g[k] \in Tasks(n)
    <2>1. \A x \in Statements : Gen(x) \in Tasks(n) BY DEF Gen, Tasks
    <2> QED BY <1>1, <1>2, <2>1
  <1>5. g \in Seq(Tasks(n)) BY <1>2, <1>4
  <1> QED BY <1>3, <1>5, WalkGens DEF Goes

LEMMA CompoundGoes ==
  ASSUME NEW n, NEW ss \in Seq(Statements), NEW s \in States, NEW L, LoopsAround(s, L),
         \A j \in DOMAIN L : L[j].depth \in Nat
  PROVE  Goes(Compound(ss), n, s, s, L)
  <1>1. PICK o : o = Todo("open") OBVIOUS
  <1>2. PICK c : c = Todo("close") OBVIOUS
  <1>3. o \in Tasks(n) /\ o.do = "open" BY <1>1 DEF Todo, Tasks
  <1>4. c \in Tasks(n) /\ c.do = "close" BY <1>2 DEF Todo, Tasks
  <1>5. s.f \in {0, 1} BY DEF States
  <1>6. PICK u : u = Deeper(s, s.f) OBVIOUS
  <1>7. u \in States /\ u.d = s.d + 1 /\ u.n = s.n /\ u.f = s.f BY <1>5, <1>6, DeeperIs
  <1>8. Move(o, s, u) /\ Move(c, u, s) BY <1>3, <1>4, <1>7 DEF Move
  <1>9. Goes(<<o>>, n, s, u, L) BY <1>3, <1>7, <1>8, GoesOne
  <1>10. Goes(<<c>>, n, u, s, L) BY <1>4, <1>7, <1>8, GoesOne
  <1>11. Inside(u, L) BY <1>5, <1>6, DeeperInside
  <1>12. Goes(GenAll(ss), n, u, u, L) BY <1>7, <1>11, GensGo
  <1>13. Goes(<<o>> \o GenAll(ss), n, s, u, L) BY <1>9, <1>12, GoesJoin
  <1>14. Goes((<<o>> \o GenAll(ss)) \o <<c>>, n, s, s, L) BY <1>10, <1>13, GoesJoin
  <1> QED BY <1>1, <1>2, <1>14 DEF Compound

-----------------------------------------------------------------------------
(* One task of the remaining work.                                         *)

Here(f) == St(depth, Len(loops), f)
Final   == St(0, 0, 0)
\* The first task takes the generator from where it is to v, the rest home.
Ahead(f, v) ==
  /\ f \in {0, 1} /\ v \in States
  /\ fall # NoBlock => f = 1
  /\ Task.do = "gen" => Inside(Here(f), loops)
  /\ Move(Task, Here(f), v) /\ v.n <= Len(loops)
  /\ Walk(Tail(work), v, Final, loops)

LEMMA NowIs ==
  ASSUME DefersInv, LoopsInv, NEW f \in {0, 1}
  PROVE  Here(f) \in States /\ Here(f).d = depth /\ Here(f).n = Len(loops) /\ Here(f).f = f
  <1>1. depth \in Nat /\ Len(loops) \in Nat BY DEF DefersInv, LoopsInv
  <1> QED BY <1>1 DEF Here, St, States

LEMMA AtWork ==
  ASSUME IInv, phase = "gen", work # <<>>
  PROVE  /\ Task \in Tasks(Len(code)) /\ Tail(work) \in Seq(Tasks(Len(code)))
         /\ \E f, v : Ahead(f, v)
  <1>1. PICK T : T = Tasks(Len(code)) OBVIOUS
  <1>2. work \in Seq(T) BY <1>1 DEF IInv, WorkInv
  <1>3. Task \in T /\ Tail(work) \in Seq(T) BY <1>2 DEF Task
  <1>4. PICK f \in {0, 1} : (fall # NoBlock => f = 1) /\ Walk(work, Here(f), Final, loops)
    BY DEF IInv, WalkInv, Here, Final
  <1>5. PICK s : s = Here(f) OBVIOUS
  <1>6. PICK z : z = Final OBVIOUS
  <1>7. Walk(work, s, z, loops) BY <1>4, <1>5, <1>6
  <1>8. /\ Head(work).do = "gen" => Inside(s, loops)
        /\ \E v \in States : /\ Move(Head(work), s, v) /\ v.n <= s.n
                             /\ Walk(Tail(work), v, z, loops)
    BY <1>2, <1>7, WalkTail
  <1>9. PICK v \in States : Move(Head(work), s, v) /\ v.n <= s.n /\ Walk(Tail(work), v, z, loops)
    BY <1>8
  <1>10. s.n = Len(loops) BY <1>5, NowIs DEF IInv
  <1>11. Ahead(f, v) BY <1>4, <1>5, <1>6, <1>8, <1>9, <1>10 DEF Ahead, Task
  <1> QED BY <1>1, <1>3, <1>11

LEMMA SameState ==
  ASSUME NEW v \in States, NEW d, NEW n, NEW f, v.d = d, v.n = n, v.f = f
  PROVE  v = St(d, n, f)
  BY DEF States, St

Moving == {"open", "beginCase", "close", "endCase", "popLoop"}

LEMMA StaysPut ==
  ASSUME IInv, NEW f, NEW v, Ahead(f, v), Task.do \notin Moving
  PROVE  v = Here(f)
  <1>1. Here(f).d = depth /\ Here(f).n = Len(loops) /\ Here(f).f = f BY NowIs DEF IInv, Ahead
  <1>2. v.d = depth /\ v.n = Len(loops) /\ v.f = f BY <1>1 DEF Ahead, Move, Moving
  <1> QED BY <1>2, SameState DEF Ahead, Here

\* New tasks that lead to where the rest of the work starts.
LEMMA Landed ==
  ASSUME NEW f \in {0, 1}, fall' # NoBlock => f = 1, NEW v, NEW ts,
         Len(code) \in Nat, Len(code') \in Nat, Len(code) <= Len(code'),
         Goes(ts, Len(code'), St(depth', Len(loops'), f), v, loops'),
         Tail(work) \in Seq(Tasks(Len(code))),
         Walk(Tail(work), v, Final, loops'), Then(ts)
  PROVE  WorkInv' /\ WalkInv'
  <1>1. PICK T : T = Tasks(Len(code')) OBVIOUS
  <1>2. Tail(work) \in Seq(T)
    <2>1. Tasks(Len(code)) \subseteq Tasks(Len(code')) BY Grows
    <2> QED BY <1>1, <2>1, SeqGrows
  <1>3. PICK r : r = Tail(work) OBVIOUS
  <1>4. PICK s : s = St(depth', Len(loops'), f) OBVIOUS
  <1>5. PICK L : L = loops' OBVIOUS
  <1>6. ts \in Seq(T) /\ r \in Seq(T) BY <1>1, <1>2, <1>3 DEF Goes
  <1>7. Walk(ts, s, v, L) /\ Walk(r, v, Final, L) BY <1>3, <1>4, <1>5 DEF Goes
  <1>8. ts \o r \in Seq(T) BY <1>6
  <1>9. Walk(ts \o r, s, Final, L) BY <1>6, <1>7, WalkJoin
  <1>10. work' = ts \o r BY <1>3 DEF Then
  <1>11. WorkInv' BY <1>1, <1>8, <1>10 DEF WorkInv
  <1>12. Walk(work', St(depth', Len(loops'), f), St(0, 0, 0), loops') BY <1>4, <1>5, <1>9, <1>10 DEF Final
  <1>13. WalkInv' BY <1>12 DEF WalkInv
  <1> QED BY <1>11, <1>13

\* A statement that becomes tasks, and leaves the stacks of scopes and loops.
LEMMA Expand ==
  ASSUME IInv, phase = "gen", work # <<>>, Task.do \notin Moving,
         NEW ts, Then(ts), UNCHANGED <<loops, depth, fall>>,
         Len(code') \in Nat, Len(code) <= Len(code'),
         \A s \in States : (Task.do = "gen" => Inside(s, loops)) => Goes(ts, Len(code'), s, s, loops)
  PROVE  WorkInv' /\ WalkInv'
  <1>1. Tail(work) \in Seq(Tasks(Len(code))) BY AtWork
  <1>2. PICK f, v : Ahead(f, v) BY AtWork
  <1>3. f \in {0, 1} /\ v = Here(f) /\ (fall' # NoBlock => f = 1) BY <1>2, StaysPut DEF Ahead
  <1>4. Here(f) \in States BY <1>3, NowIs DEF IInv
  <1>5. Goes(ts, Len(code'), Here(f), v, loops) BY <1>2, <1>3, <1>4 DEF Ahead
  <1>6. Goes(ts, Len(code'), St(depth', Len(loops'), f), v, loops') BY <1>5 DEF Here
  <1>7. Walk(Tail(work), v, Final, loops') BY <1>2 DEF Ahead
  <1>8. Len(code) \in Nat BY DEF IInv, CodeInv
  <1> QED BY <1>1, <1>3, <1>6, <1>7, <1>8, Landed

\* A statement that becomes nothing.
LEMMA Done ==
  ASSUME IInv, phase = "gen", work # <<>>, Task.do \notin Moving,
         Then(<<>>), UNCHANGED <<loops, depth, fall>>, Len(code') \in Nat, Len(code) <= Len(code')
  PROVE  WorkInv' /\ WalkInv'
  <1>1. \A s \in States : Goes(<<>>, Len(code'), s, s, loops) BY GoesNil
  <1>2. PICK e : e = <<>> OBVIOUS
  <1>3. Then(e) /\ \A s \in States : Goes(e, Len(code'), s, s, loops) BY <1>1, <1>2
  <1> QED BY <1>3, Expand

LEMMA InsideAround ==
  ASSUME NEW s, NEW L, Inside(s, L)
  PROVE  LoopsAround(s, L)
  BY DEF Inside, LoopsAround

\* A loop or switch: its entry is pushed, unless the stack is full, and the
\* tasks pop one entry.
LEMMA PushExpand ==
  ASSUME IInv, phase = "gen", work # <<>>, Task.do = "gen",
         NEW cont, NEW brk, PushLoop(cont, brk),
         NEW ts, Then(ts), UNCHANGED <<depth, fall>>,
         Len(code') \in Nat, Len(code) <= Len(code'),
         cont \in 1 .. Len(code') \cup {NoBlock}, brk \in 1 .. Len(code'),
         \A L, s : s \in States /\ Inside(s, L) /\ (\A j \in DOMAIN L : L[j].depth \in Nat)
                     => Goes(ts, Len(code'), s, Lower(s), L)
  PROVE  WorkInv' /\ WalkInv' /\ LoopsInv'
  <1>1. Tail(work) \in Seq(Tasks(Len(code))) BY AtWork
  <1>2. PICK f, v : Ahead(f, v) BY AtWork
  <1>3. f \in {0, 1} /\ v = Here(f) /\ (fall' # NoBlock => f = 1) BY <1>2, StaysPut DEF Ahead, Moving
  <1>4. Len(code) \in Nat BY DEF IInv, CodeInv
  <1>5. PICK n \in Nat : n = Len(loops) BY DEF IInv, LoopsInv
  <1>6. depth \in Nat /\ v = St(depth, n, f) BY <1>3, <1>5 DEF IInv, DefersInv, Here
  <1>7. v \in States /\ v.d = depth /\ v.n = n /\ v.f = f BY <1>3, <1>5, NowIs DEF IInv
  <1>8. Inside(v, loops) BY <1>2, <1>3 DEF Ahead
  <1>9. PICK X : X = LoopEntry(Len(code')) OBVIOUS
  <1>10. loops \in Seq(X)
    <2>1. LoopEntry(Len(code)) \subseteq X BY <1>4, <1>9, Grows
    <2>2. loops \in Seq(LoopEntry(Len(code))) BY DEF IInv, LoopsInv
    <2> QED BY <2>1, <2>2, SeqGrows
  <1>11. DOMAIN loops = 1 .. n BY <1>5, <1>10
  <1>12. \A j \in 1 .. n : loops[j] \in X /\ loops[j].depth \in Nat
    <2>1. \A x \in X : x.depth \in Nat BY <1>9 DEF LoopEntry
    <2>2. \A j \in 1 .. n : loops[j] \in X BY <1>10, <1>11
    <2> QED BY <2>1, <2>2
  <1>13. \A j \in 1 .. n : loops[j].depth <= depth BY <1>7, <1>8, <1>11 DEF Inside
  <1>14. \A j, k \in 1 .. n : j < k => loops[j].depth <= loops[k].depth BY <1>11 DEF IInv, LoopsInv
  <1>15. PICK r : r = Tail(work) OBVIOUS
  <1>16. Walk(r, v, Final, loops) /\ Len(r) \in Nat BY <1>1, <1>2, <1>15 DEF Ahead
  <1>17. CASE n < MaxLoopDepth
    <2>1. PICK x : x = [cont |-> cont, brk |-> brk, depth |-> depth] OBVIOUS
    <2>2. x \in X /\ x.depth = depth BY <1>6, <1>9, <2>1 DEF LoopEntry
    <2>3. loops' = Append(loops, x) BY <1>5, <1>17, <2>1 DEF PushLoop
    <2>4. PICK L \in Seq(X) : L = loops' BY <1>10, <2>2, <2>3
    <2>5. DOMAIN L = 1 .. n + 1 /\ Len(L) = n + 1 /\ L[n + 1] = x /\ \A j \in 1 .. n : L[j] = loops[j]
      BY <1>5, <1>10, <2>2, <2>3, <2>4
    <2>6. \A j \in 1 .. n + 1 : L[j].depth \in Nat /\ L[j].depth <= depth
      <3> SUFFICES ASSUME NEW j \in 1 .. n + 1 PROVE L[j].depth \in Nat /\ L[j].depth <= depth OBVIOUS
      <3>1. CASE j = n + 1 BY <1>6, <2>2, <2>5, <3>1
      <3>2. CASE j # n + 1
        <4>1. j \in 1 .. n BY <3>2
        <4>2. loops[j].depth \in Nat /\ loops[j].depth <= depth BY <4>1, <1>12, <1>13
        <4> QED BY <1>6, <2>5, <4>1, <4>2
      <3> QED BY <3>1, <3>2
    <2>7. LoopsInv'
      <3>1. ASSUME NEW j \in 1 .. n + 1, NEW k \in 1 .. n + 1, j < k PROVE L[j].depth <= L[k].depth
        <4>1. j \in 1 .. n BY <3>1
        <4>2. CASE k = n + 1 BY <1>13, <2>2, <2>5, <4>1, <4>2
        <4>3. CASE k # n + 1
          <5>1. k \in 1 .. n BY <4>3
          <5> QED BY <1>14, <2>5, <3>1, <4>1, <5>1
        <4> QED BY <4>2, <4>3
      <3>2. n + 1 <= MaxLoopDepth BY <1>17, LimitsAssumption
      <3> QED BY <1>9, <2>4, <2>5, <3>1, <3>2 DEF LoopsInv
    <2>8. PICK s : s = St(depth, n + 1, f) OBVIOUS
    <2>9. s \in States /\ s.d = depth /\ s.n = n + 1 /\ s.f = f BY <1>3, <1>6, <2>8 DEF St, States
    <2>10. Lower(s) = v
      <3>1. Lower(s) = St(depth, n, f) BY <2>9 DEF Lower
      <3> QED BY <1>6, <3>1
    <2>11. Inside(s, L)
      <3>1. depth >= 1 BY <1>7, <1>8 DEF Inside
      <3> QED BY <2>5, <2>6, <2>9, <3>1 DEF Inside
    <2>12. Goes(ts, Len(code'), s, v, L)
      <3>1. \A j \in DOMAIN L : L[j].depth \in Nat BY <2>5, <2>6
      <3> QED BY <2>9, <2>10, <2>11, <3>1
    <2>13. Walk(r, v, Final, L)
      <3>1. ASSUME NEW j \in DOMAIN L, j <= v.n PROVE j \in DOMAIN loops /\ loops[j].depth = L[j].depth
        <4>1. j \in 1 .. n BY <1>7, <2>5, <3>1
        <4> QED BY <1>11, <2>5, <4>1
      <3>2. DOMAIN L \subseteq Nat BY <2>5
      <3>3. v.n \in Nat BY <1>7
      <3>4. \A j \in DOMAIN L : j <= v.n => j \in DOMAIN loops /\ loops[j].depth = L[j].depth BY <3>1
      <3> QED BY <1>16, <3>2, <3>3, <3>4, WalkOther
    <2>14. St(depth', Len(loops'), f) = s BY <2>4, <2>5, <2>8
    <2>15. Goes(ts, Len(code'), St(depth', Len(loops'), f), v, loops') BY <2>4, <2>12, <2>14
    <2>16. Walk(Tail(work), v, Final, loops') BY <1>15, <2>4, <2>13
    <2> QED BY <1>1, <1>3, <1>4, <2>7, <2>15, <2>16, Landed
  <1>18. CASE ~ n < MaxLoopDepth
    <2>1. loops' = loops BY <1>5, <1>18 DEF PushLoop
    <2>2. LoopsInv' BY <1>9, <1>10, <2>1 DEF IInv, LoopsInv
    <2>3. \A j \in DOMAIN loops : loops[j].depth \in Nat BY <1>11, <1>12
    <2>5. Goes(ts, Len(code'), v, Lower(v), loops) BY <1>7, <1>8, <2>3
    <2>6. Lower(Final) = Final BY DEF Lower, Final, St
    <2>7. DOMAIN loops \subseteq Nat BY <1>11
    <2>8. Walk(r, Lower(v), Final, loops) BY <1>16, <2>6, <2>7, WalkLower
    <2>9. St(depth', Len(loops'), f) = v BY <1>5, <1>6, <2>1
    <2>10. Goes(ts, Len(code'), St(depth', Len(loops'), f), Lower(v), loops') BY <2>1, <2>5, <2>9
    <2>11. Walk(Tail(work), Lower(v), Final, loops') BY <1>15, <2>1, <2>8
    <2> QED BY <1>1, <1>3, <1>4, <2>2, <2>10, <2>11, Landed
  <1> QED BY <1>17, <1>18

-----------------------------------------------------------------------------
(* What the actions do to each part of the invariant.                      *)

LEMMA BlocksGrow ==
  ASSUME NEW c, NEW n, NEW l \in Nat, NEW m \in Nat, Blocks(c, n, l), l <= m
  PROVE  Blocks(c, n, m)
  <1>1. Instrs(l) \subseteq Instrs(m) BY Grows
  <1>2. PICK I : I = Instrs(l) OBVIOUS
  <1>3. PICK J : J = Instrs(m) OBVIOUS
  <1>4. Seq(I) \subseteq Seq(J) BY <1>1, <1>2, <1>3, SeqGrows
  <1>5. c \in Seq(Seq(I)) /\ Len(c) = n BY <1>2 DEF Blocks
  <1>6. c \in Seq(Seq(J)) BY <1>4, <1>5, SeqGrows
  <1> QED BY <1>3, <1>5, <1>6 DEF Blocks

LEMMA CodeIs ==
  ASSUME CodeInv
  PROVE  Len(code) \in Nat /\ cur \in 1 .. Len(code) /\ Blocks(code, Len(code), Len(code))
  BY DEF CodeInv, Blocks

\* Instructions at the insert point, then new blocks x.
LEMMA CodeGrows ==
  ASSUME CodeInv, NEW m \in Nat, NEW is \in Seq(Instrs(m)),
         NEW x \in Seq(Seq(Instrs(m))), m = Len(code) + Len(x)
  PROVE  Blocks(Put(code, cur, is) \o x, m, m)
  <1>1. PICK n \in Nat : n = Len(code) BY DEF CodeInv
  <1>2. Len(x) \in Nat OBVIOUS
  <1>3. n <= m /\ m = n + Len(x) BY <1>1, <1>2
  <1>4. Blocks(code, n, n) /\ cur \in 1 .. n BY <1>1, CodeIs
  <1>5. Blocks(code, n, m) BY <1>3, <1>4, BlocksGrow
  <1>6. PICK c : c = Put(code, cur, is) OBVIOUS
  <1>7. Blocks(c, n, m) BY <1>4, <1>5, <1>6, PutBlocks
  <1>8. Blocks(c \o x, n + Len(x), m) BY <1>7, MoreBlocks
  <1> QED BY <1>3, <1>6, <1>8

LEMMA CodeStays ==
  ASSUME CodeInv, NEW is \in Seq(Instrs(Len(code)))
  PROVE  Blocks(Put(code, cur, is), Len(code), Len(code))
  BY CodeIs, PutBlocks

LEMMA OneInstr ==
  ASSUME NEW n, NEW x \in Instrs(n)
  PROVE  <<x>> \in Seq(Instrs(n))
  <1>1. PICK I : I = Instrs(n) OBVIOUS
  <1> QED BY <1>1

LEMMA ThenInstrs ==
  ASSUME NEW n, NEW a \in Seq(Instrs(n)), NEW b \in Seq(Instrs(n))
  PROVE  a \o b \in Seq(Instrs(n))
  <1>1. PICK I : I = Instrs(n) OBVIOUS
  <1>2. a \o b \in Seq(I) BY <1>1
  <1> QED BY <1>1, <1>2

\* The state after a step of the generator.
LEMMA Assemble ==
  ASSUME NEW m \in Nat, Blocks(code', m, m), cur' \in 1 .. m, WorkInv', WalkInv', LoopsInv', DefersInv',
         fall' \in 1 .. m \cup {NoBlock}, lossy' \in BOOLEAN, phase' \in {"gen", "bad"}
  PROVE  IInv'
  <1>1. code' \in Seq(Seq(Instrs(m))) /\ Len(code') = m BY DEF Blocks
  <1>2. CodeInv' BY <1>1 DEF CodeInv
  <1>3. FlagsInv' BY <1>1 DEF FlagsInv
  <1>4. EndInv' BY DEF EndInv
  <1> QED BY <1>2, <1>3, <1>4 DEF IInv

LEMMA LoopsKept ==
  ASSUME LoopsInv, UNCHANGED loops, Len(code) \in Nat, Len(code') \in Nat, Len(code) <= Len(code')
  PROVE  LoopsInv'
  <1>1. LoopEntry(Len(code)) \subseteq LoopEntry(Len(code')) BY Grows
  <1>2. loops \in Seq(LoopEntry(Len(code))) BY DEF LoopsInv
  <1>3. loops \in Seq(LoopEntry(Len(code'))) BY <1>1, <1>2, SeqGrows
  <1>4. loops' = loops OBVIOUS
  <1>5. loops' \in Seq(LoopEntry(Len(code'))) BY <1>3, <1>4
  <1> QED BY <1>4, <1>5 DEF LoopsInv

LEMMA FallKept ==
  ASSUME IInv, UNCHANGED fall, NEW m \in Nat, Len(code) <= m
  PROVE  fall' \in 1 .. m \cup {NoBlock}
  <1>1. fall \in 1 .. Len(code) \cup {NoBlock} /\ Len(code) \in Nat BY DEF IInv, FlagsInv, CodeInv
  <1> QED BY <1>1

LEMMA DefersKept ==
  ASSUME DefersInv, UNCHANGED <<defers, depth>>
  PROVE  DefersInv'
  BY DEF DefersInv

LEMMA DefersTaken ==
  ASSUME DefersInv, UNCHANGED depth, NEW D, defers' = DefersIn(D)
  PROVE  DefersInv'
  <1>1. PICK r : r = DefersIn(D) OBVIOUS
  <1>2. r \in Seq(Entry) /\ Sorted(r) /\ \A k \in DOMAIN r : r[k].depth \in 1 .. depth
    BY <1>1, DefersInKeeps
  <1>3. defers' = r /\ depth' = depth /\ depth \in Nat BY <1>1 DEF DefersInv
  <1>4. \A k \in DOMAIN r : 1 <= r[k].depth /\ r[k].depth <= depth
    <2> SUFFICES ASSUME NEW k \in DOMAIN r PROVE 1 <= r[k].depth /\ r[k].depth <= depth OBVIOUS
    <2>1. r[k].depth \in 1 .. depth BY <1>2
    <2> QED BY <1>3, <2>1
  <1> QED BY <1>2, <1>3, <1>4 DEF DefersInv

LEMMA DefersGone ==
  ASSUME DefersInv, UNCHANGED depth, defers' = <<>>
  PROVE  DefersInv'
  <1>1. PICK e : e = <<>> OBVIOUS
  <1>2. e \in Seq(Entry) /\ DOMAIN e = {} BY <1>1
  <1>3. Sorted(e) BY <1>2 DEF Sorted
  <1>4. defers' = e BY <1>1
  <1> QED BY <1>2, <1>3, <1>4 DEF DefersInv

LEMMA DefersDeeper ==
  ASSUME DefersInv, depth' = depth + 1, UNCHANGED defers
  PROVE  DefersInv'
  <1>1. depth \in Nat /\ \A k \in DOMAIN defers : 1 <= defers[k].depth /\ defers[k].depth <= depth
    BY DEF DefersInv
  <1>2. defers \in Seq(Entry) /\ \A k \in DOMAIN defers : defers[k] \in Entry BY DEF DefersInv
  <1>3. \A k \in DOMAIN defers : defers[k].depth <= depth + 1 BY <1>1, <1>2 DEF Entry
  <1>4. depth' \in Nat /\ defers' = defers BY <1>1
  <1> QED BY <1>1, <1>3, <1>4 DEF DefersInv

\* The end of a scope: nothing at its depth is left.
LEMMA DefersClosed ==
  ASSUME DefersInv, depth >= 1, depth' = depth - 1, defers' = DefersNotAt(depth)
  PROVE  DefersInv'
  <1>1. PICK D : D = {x \in Nat : x # depth} OBVIOUS
  <1>2. PICK r : r = DefersIn(D) OBVIOUS
  <1>3. /\ r \in Seq(Entry) /\ Sorted(r)
        /\ \A k \in DOMAIN r : r[k].depth \in D /\ r[k].depth \in 1 .. depth
    BY <1>2, DefersInKeeps
  <1>4. defers' = r BY <1>1, <1>2 DEF DefersNotAt
  <1>5. depth \in Nat /\ depth' \in Nat BY DEF DefersInv
  <1>6. \A k \in DOMAIN r : 1 <= r[k].depth /\ r[k].depth <= depth'
    <2> SUFFICES ASSUME NEW k \in DOMAIN r PROVE 1 <= r[k].depth /\ r[k].depth <= depth' OBVIOUS
    <2>1. PICK y : y = r[k].depth OBVIOUS
    <2>2. y \in 1 .. depth /\ y # depth BY <1>1, <1>3, <2>1
    <2>3. 1 <= y /\ y <= depth - 1 BY <1>5, <2>2
    <2> QED BY <2>1, <2>3
  <1> QED BY <1>3, <1>4, <1>5, <1>6 DEF DefersInv

\* Where the statements are generated.
LEMMA AtStmtIs ==
  ASSUME IInv, NEW op, AtStmt(op)
  PROVE  /\ phase = "gen" /\ work # <<>> /\ Task.do = "gen" /\ Task.do \notin Moving
         /\ Stmt \in Statements /\ Stmt.op = op /\ StatementOk(Stmt)
         /\ Len(code) \in Nat /\ depth \in Nat
         /\ \E f, v : Ahead(f, v) /\ v = Here(f) /\ Inside(Here(f), loops)
  <1>1. phase = "gen" /\ work # <<>> /\ Task.do = "gen" /\ Stmt.op = op BY DEF AtStmt
  <1>2. Task.do \notin Moving BY <1>1 DEF Moving
  <1>3. Task \in Tasks(Len(code)) BY <1>1, AtWork
  <1>4. Stmt \in Statements BY <1>1, <1>3 DEF Tasks, Stmt
  <1>5. StatementOk(Stmt) BY <1>4, Statement
  <1>6. Len(code) \in Nat /\ depth \in Nat BY DEF IInv, CodeInv, DefersInv
  <1>7. PICK f, v : Ahead(f, v) BY <1>1, AtWork
  <1>8. v = Here(f) BY <1>2, <1>7, StaysPut
  <1>9. Inside(Here(f), loops) BY <1>1, <1>7 DEF Ahead
  <1> QED BY <1>1, <1>2, <1>4, <1>5, <1>6, <1>7, <1>8, <1>9

-----------------------------------------------------------------------------
(* One lemma for each action.                                              *)

LEMMA CallStep ==
  ASSUME IInv, GenCall
  PROVE  IInv'
  <1>1. AtStmt("call") /\ code' = Put(code, cur, <<CallTo(Stmt.id)>>) /\ Then(<<>>)
    BY DEF GenCall
  <1>2. UNCHANGED <<cur, defers, loops, depth, fall, lossy, phase>> BY DEF GenCall, xvars, rvars
  <1>3. PICK m \in Nat : m = Len(code) BY AtStmtIs, <1>1
  <1>4. CallTo(Stmt.id) \in Instrs(m)
    <2>1. Stmt \in Statements BY <1>1, AtStmtIs
    <2>2. Stmt.id \in Events BY <2>1 DEF Events
    <2> QED BY <2>2, Instructions
  <1>5. Blocks(code', m, m) BY <1>1, <1>3, <1>4, OneInstr, CodeStays DEF IInv
  <1>6. Len(code') = m BY <1>5 DEF Blocks
  <1>7. WorkInv' /\ WalkInv' BY <1>1, <1>2, <1>3, <1>6, AtStmtIs, Done
  <1>8. LoopsInv' /\ DefersInv' BY <1>2, <1>3, <1>6, LoopsKept, DefersKept DEF IInv
  <1>9. fall' \in 1 .. m \cup {NoBlock} BY <1>2, <1>3, FallKept
  <1>10. cur' \in 1 .. m /\ lossy' \in BOOLEAN /\ phase' \in {"gen", "bad"}
    BY <1>1, <1>2, <1>3, AtStmtIs DEF IInv, CodeInv, FlagsInv
  <1> QED BY <1>5, <1>7, <1>8, <1>9, <1>10, Assemble

\* A new defer is on top, at the depth of the open scope.
LEMMA DeferStep ==
  ASSUME IInv, GenDefer
  PROVE  IInv'
  <1>1. AtStmt("defer") /\ Then(<<>>) BY DEF GenDefer
  <1>2. UNCHANGED <<code, cur, loops, depth, fall, phase>> BY DEF GenDefer, xvars, rvars
  <1>3. PICK m \in Nat : m = Len(code) BY AtStmtIs, <1>1
  <1>4. Blocks(code', m, m) BY <1>2, <1>3, CodeIs DEF IInv
  <1>5. Len(code') = m BY <1>4 DEF Blocks
  <1>6. WorkInv' /\ WalkInv' BY <1>1, <1>2, <1>3, <1>5, AtStmtIs, Done
  <1>7. LoopsInv' BY <1>2, <1>3, <1>5, LoopsKept DEF IInv
  <1>8. DefersInv'
    <2>1. CASE defers' = defers BY <1>2, <2>1, DefersKept DEF IInv
    <2>2. CASE defers' # defers
      <3>1. PICK x : x = [id |-> Stmt.id, depth |-> depth] OBVIOUS
      <3>2. defers' = Append(defers, x) BY <2>2, <3>1 DEF GenDefer
      <3>3. depth \in Nat /\ Stmt.id \in Events BY <1>1, AtStmtIs DEF Events
      <3>4. x \in Entry /\ x.depth = depth BY <3>1, <3>3 DEF Entry
      <3>5. depth >= 1
        <4>1. PICK f, v : Ahead(f, v) /\ Inside(Here(f), loops) BY <1>1, AtStmtIs
        <4>2. Here(f).d = depth BY <4>1, NowIs DEF IInv, Ahead
        <4> QED BY <4>1, <4>2 DEF Inside
      <3>6. PICK g \in Seq(Entry) : g = defers BY DEF IInv, DefersInv
      <3>7. Sorted(g) /\ \A k \in DOMAIN g : 1 <= g[k].depth /\ g[k].depth <= depth
        BY <3>6 DEF IInv, DefersInv
      <3>8. PICK h : h = Append(g, x) OBVIOUS
      <3>9. h \in Seq(Entry) /\ Sorted(h) BY <3>4, <3>7, <3>8, SortedAppend
      <3>10. \A k \in DOMAIN h : h[k] = x \/ (k \in DOMAIN g /\ h[k] = g[k]) BY <3>8
      <3>11. \A k \in DOMAIN h : 1 <= h[k].depth /\ h[k].depth <= depth
        BY <3>3, <3>4, <3>5, <3>7, <3>10
      <3>12. defers' = h /\ depth' = depth BY <1>2, <3>2, <3>6, <3>8
      <3> QED BY <3>3, <3>9, <3>11, <3>12 DEF DefersInv
    <2> QED BY <2>1, <2>2
  <1>9. fall' \in 1 .. m \cup {NoBlock} BY <1>2, <1>3, FallKept
  <1>10. cur' \in 1 .. m /\ phase' \in {"gen", "bad"}
    BY <1>1, <1>2, <1>3, AtStmtIs DEF IInv, CodeInv
  <1>11. lossy' \in BOOLEAN BY DEF GenDefer
  <1> QED BY <1>4, <1>6, <1>7, <1>8, <1>9, <1>10, <1>11, Assemble

LEMMA ReturnStep ==
  ASSUME IInv, GenReturn
  PROVE  IInv'
  <1>1. AtStmt("return") /\ code' = Put(code, cur, Emitted(defers) \o <<Ret>>) /\ Then(<<>>)
    BY DEF GenReturn
  <1>2. UNCHANGED <<cur, loops, depth, fall, phase>> /\ defers' = <<>> BY DEF GenReturn, xvars, rvars
  <1>3. PICK m \in Nat : m = Len(code) BY AtStmtIs, <1>1
  <1>4. Emitted(defers) \o <<Ret>> \in Seq(Instrs(m))
    <2>1. Emitted(defers) \in Seq(Instrs(m)) BY EmittedIs DEF IInv, DefersInv
    <2>2. <<Ret>> \in Seq(Instrs(m)) BY Instructions, OneInstr
    <2> QED BY <2>1, <2>2, ThenInstrs
  <1>5. Blocks(code', m, m) BY <1>1, <1>3, <1>4, CodeStays DEF IInv
  <1>6. Len(code') = m BY <1>5 DEF Blocks
  <1>7. WorkInv' /\ WalkInv' BY <1>1, <1>2, <1>3, <1>6, AtStmtIs, Done
  <1>8. LoopsInv' /\ DefersInv' BY <1>2, <1>3, <1>6, LoopsKept, DefersGone DEF IInv
  <1>9. fall' \in 1 .. m \cup {NoBlock} BY <1>2, <1>3, FallKept
  <1>10. cur' \in 1 .. m /\ phase' \in {"gen", "bad"}
    BY <1>1, <1>2, <1>3, AtStmtIs DEF IInv, CodeInv, FlagsInv
  <1>11. lossy' \in BOOLEAN BY DEF GenReturn
  <1> QED BY <1>5, <1>7, <1>8, <1>9, <1>10, <1>11, Assemble

\* New blocks, given by their instructions.
LEMMA NoInstr == ASSUME NEW n PROVE <<>> \in Seq(Instrs(n))
  <1>1. PICK I : I = Instrs(n) OBVIOUS
  <1> QED BY <1>1

LEMMA OneBlock ==
  ASSUME NEW n, NEW a \in Seq(Instrs(n))
  PROVE  <<a>> \in Seq(Seq(Instrs(n))) /\ Len(<<a>>) = 1
  <1>1. PICK B : B = Seq(Instrs(n)) OBVIOUS
  <1> QED BY <1>1

LEMMA TwoBlocks ==
  ASSUME NEW n, NEW a \in Seq(Instrs(n)), NEW b \in Seq(Instrs(n))
  PROVE  <<a, b>> \in Seq(Seq(Instrs(n))) /\ Len(<<a, b>>) = 2
  <1>1. PICK B : B = Seq(Instrs(n)) OBVIOUS
  <1> QED BY <1>1

LEMMA ThreeBlocks ==
  ASSUME NEW n, NEW a \in Seq(Instrs(n)), NEW b \in Seq(Instrs(n)), NEW c \in Seq(Instrs(n))
  PROVE  <<a, b, c>> \in Seq(Seq(Instrs(n))) /\ Len(<<a, b, c>>) = 3
  <1>1. PICK B : B = Seq(Instrs(n)) OBVIOUS
  <1> QED BY <1>1

LEMMA FourBlocks ==
  ASSUME NEW n, NEW a \in Seq(Instrs(n)), NEW b \in Seq(Instrs(n)), NEW c \in Seq(Instrs(n)),
         NEW d \in Seq(Instrs(n))
  PROVE  <<a, b, c, d>> \in Seq(Seq(Instrs(n))) /\ Len(<<a, b, c, d>>) = 4
  <1>1. PICK B : B = Seq(Instrs(n)) OBVIOUS
  <1> QED BY <1>1

LEMMA OrReturnStep ==
  ASSUME IInv, GenOrReturn
  PROVE  IInv'
  <1>1. AtStmt("orreturn") /\ Then(<<>>) BY DEF GenOrReturn
  <1>2. UNCHANGED <<loops, depth, fall, phase>> /\ defers' = <<>> BY DEF GenOrReturn, xvars, rvars
  <1>3. PICK n \in Nat : n = Len(code) BY AtStmtIs, <1>1
  <1>4. PICK a : a = <<CondBr(n + 1, n + 2)>> OBVIOUS
  <1>5. PICK b : b = Emitted(defers) \o <<Ret>> OBVIOUS
  <1>6. PICK e : e = <<>> OBVIOUS
  <1>7. code' = Put(code, cur, a) \o <<b, e>> /\ cur' = n + 2
    BY <1>3, <1>4, <1>5, <1>6 DEF GenOrReturn
  <1>8. PICK m \in Nat : m = n + 2 OBVIOUS
  <1>9. b \in Seq(Instrs(m))
    <2>1. Emitted(defers) \in Seq(Instrs(m)) BY EmittedIs DEF IInv, DefersInv
    <2>2. <<Ret>> \in Seq(Instrs(m)) BY Instructions, OneInstr
    <2> QED BY <1>5, <2>1, <2>2, ThenInstrs
  <1>10. a \in Seq(Instrs(m))
    <2>1. n + 1 \in 1 .. m /\ n + 2 \in 1 .. m BY <1>8
    <2>2. CondBr(n + 1, n + 2) \in Instrs(m) BY <2>1, Instructions
    <2> QED BY <1>4, <2>2, OneInstr
  <1>11. e \in Seq(Instrs(m)) BY <1>6, NoInstr
  <1>12. <<b, e>> \in Seq(Seq(Instrs(m))) /\ Len(<<b, e>>) = 2 BY <1>9, <1>11, TwoBlocks
  <1>13. PICK x : x = <<b, e>> OBVIOUS
  <1>14. x \in Seq(Seq(Instrs(m))) /\ m = Len(code) + Len(x) BY <1>3, <1>8, <1>12, <1>13
  <1>15. Blocks(code', m, m) BY <1>7, <1>10, <1>13, <1>14, CodeGrows DEF IInv
  <1>16. Len(code') = m /\ Len(code) <= m BY <1>3, <1>8, <1>15 DEF Blocks
  <1>17. WorkInv' /\ WalkInv' BY <1>1, <1>2, <1>16, AtStmtIs, Done
  <1>18. LoopsInv' /\ DefersInv' BY <1>2, <1>3, <1>16, LoopsKept, DefersGone DEF IInv
  <1>19. fall' \in 1 .. m \cup {NoBlock} BY <1>2, <1>16, FallKept
  <1>20. cur' \in 1 .. m /\ phase' \in {"gen", "bad"} BY <1>1, <1>2, <1>7, <1>8, AtStmtIs
  <1>21. lossy' \in BOOLEAN BY DEF GenOrReturn
  <1> QED BY <1>15, <1>17, <1>18, <1>19, <1>20, <1>21, Assemble

\* break and continue, with the entry of the innermost loop.
LEMMA LeaveStep ==
  ASSUME IInv, AtStmt("break") \/ AtStmt("continue"), Then(<<>>), NEW to, NEW wrong,
         UNCHANGED <<cur, loops, depth, fall>>,
         \/ loops = <<>> /\ UNCHANGED <<code, defers, lossy, phase>>
         \/ loops # <<>> /\ to \in {Last(loops).brk, Last(loops).cont} /\ Leave(to, wrong)
  PROVE  IInv'
  <1>1. PICK op : AtStmt(op) OBVIOUS
  <1>2. PICK m \in Nat : m = Len(code) BY <1>1, AtStmtIs
  <1>3. /\ Blocks(code', m, m) /\ DefersInv' /\ lossy' \in BOOLEAN /\ phase' \in {"gen", "bad"}
    <2>0. phase = "gen" /\ lossy \in BOOLEAN BY <1>1, AtStmtIs DEF IInv, FlagsInv
    <2>1. CASE UNCHANGED <<code, defers, lossy>> /\ phase' \in {"gen", "bad"}
      <3>1. Blocks(code', m, m) BY <1>2, <2>1, CodeIs DEF IInv
      <3>2. DefersInv' BY <2>1, DefersKept DEF IInv
      <3> QED BY <2>0, <2>1, <3>1, <3>2
    <2>2. CASE loops # <<>> /\ to # NoBlock /\ to \in {Last(loops).brk, Last(loops).cont} /\ Leave(to, wrong)
      <3>1. to \in 1 .. m
        <4>1. PICK X : X = LoopEntry(m) OBVIOUS
        <4>2. loops \in Seq(X) BY <1>2, <4>1 DEF IInv, LoopsInv
        <4>3. Last(loops) \in X
          <5>1. Len(loops) \in 1 .. Len(loops) BY <2>2, <4>2
          <5>2. loops[Len(loops)] \in X BY <4>2, <5>1
          <5> QED BY <5>2 DEF Last
        <4> QED BY <2>2, <4>1, <4>3 DEF LoopEntry
      <3>2. PICK min : min = Last(loops).depth + 1 OBVIOUS
      <3>3. /\ code' = Put(code, cur, Emitted(DefersFrom(min)) \o <<Br(to)>>)
            /\ defers' = DefersBelow(min) /\ UNCHANGED phase /\ lossy' \in BOOLEAN
        BY <2>2, <3>2 DEF Leave
      <3>4. Emitted(DefersFrom(min)) \o <<Br(to)>> \in Seq(Instrs(m))
        <4>1. DefersFrom(min) \in Seq(Entry) BY DefersInKeeps DEF IInv, DefersFrom
        <4>2. Emitted(DefersFrom(min)) \in Seq(Instrs(m)) BY <4>1, EmittedIs
        <4>3. <<Br(to)>> \in Seq(Instrs(m)) BY <3>1, Instructions, OneInstr
        <4> QED BY <4>2, <4>3, ThenInstrs
      <3>5. Blocks(code', m, m) BY <1>2, <3>3, <3>4, CodeStays DEF IInv
      <3>6. PICK D : D = {x \in Nat : x < min} OBVIOUS
      <3>7. defers' = DefersIn(D) BY <3>3, <3>6 DEF DefersBelow
      <3>8. DefersInv' BY <3>7, DefersTaken DEF IInv
      <3> QED BY <2>0, <3>3, <3>5, <3>8
    <2>3. CASE loops # <<>> /\ to = NoBlock /\ Leave(to, wrong)
      <3>1. UNCHANGED <<code, defers, lossy>> /\ phase' = "bad" BY <2>3 DEF Leave
      <3> QED BY <2>1, <3>1
    <2>4. CASE loops = <<>> /\ UNCHANGED <<code, defers, lossy, phase>> BY <2>0, <2>1, <2>4
    <2> QED BY <2>2, <2>3, <2>4
  <1>4. Len(code') = m BY <1>3 DEF Blocks
  <1>5. WorkInv' /\ WalkInv' BY <1>1, <1>2, <1>4, AtStmtIs, Done
  <1>6. LoopsInv' BY <1>2, <1>4, LoopsKept DEF IInv
  <1>7. fall' \in 1 .. m \cup {NoBlock} BY <1>2, FallKept
  <1>8. cur' \in 1 .. m BY <1>2 DEF IInv, CodeInv
  <1> QED BY <1>3, <1>5, <1>6, <1>7, <1>8, Assemble

LEMMA BreakStep ==
  ASSUME IInv, GenBreak
  PROVE  IInv'
  <1>0. PICK wrong : wrong = FALSE OBVIOUS
  <1>1. PICK to : to = Last(loops).brk OBVIOUS
  <1>2. AtStmt("break") /\ Then(<<>>) /\ UNCHANGED <<cur, loops, depth, fall>>
    BY DEF GenBreak, xvars, rvars
  <1>3. \/ loops = <<>> /\ UNCHANGED <<code, defers, lossy, phase>>
        \/ loops # <<>> /\ to \in {Last(loops).brk, Last(loops).cont} /\ Leave(to, wrong)
    BY <1>0, <1>1 DEF GenBreak
  <1> QED BY <1>2, <1>3, LeaveStep

LEMMA ContinueStep ==
  ASSUME IInv, GenContinue
  PROVE  IInv'
  <1>0. PICK wrong : wrong = (Last(loops).cont = Last(loops).brk) OBVIOUS
  <1>1. PICK to : to = Last(loops).cont OBVIOUS
  <1>2. AtStmt("continue") /\ Then(<<>>) /\ UNCHANGED <<cur, loops, depth, fall>>
    BY DEF GenContinue, xvars, rvars
  <1>3. \/ loops = <<>> /\ UNCHANGED <<code, defers, lossy, phase>>
        \/ loops # <<>> /\ to \in {Last(loops).brk, Last(loops).cont} /\ Leave(to, wrong)
    BY <1>0, <1>1 DEF GenContinue
  <1> QED BY <1>2, <1>3, LeaveStep

LEMMA FallthroughStep ==
  ASSUME IInv, GenFallthrough
  PROVE  IInv'
  <1>1. AtStmt("fallthrough") /\ Then(<<>>) BY DEF GenFallthrough
  <1>2. UNCHANGED <<cur, defers, loops, depth, fall, phase>> BY DEF GenFallthrough, xvars, rvars
  <1>3. PICK m \in Nat : m = Len(code) BY AtStmtIs, <1>1
  <1>4. Blocks(code', m, m)
    <2>1. CASE fall = NoBlock
      <3>1. code' = code BY <2>1 DEF GenFallthrough
      <3> QED BY <1>3, <3>1, CodeIs DEF IInv
    <2>2. CASE fall # NoBlock
      <3>1. code' = Put(code, cur, <<Br(fall)>>) BY <2>2 DEF GenFallthrough
      <3>2. fall \in 1 .. m BY <1>3, <2>2 DEF IInv, FlagsInv
      <3>3. <<Br(fall)>> \in Seq(Instrs(m)) BY <3>2, Instructions, OneInstr
      <3> QED BY <1>3, <3>1, <3>3, CodeStays DEF IInv
    <2> QED BY <2>1, <2>2
  <1>5. Len(code') = m BY <1>4 DEF Blocks
  <1>6. WorkInv' /\ WalkInv' BY <1>1, <1>2, <1>3, <1>5, AtStmtIs, Done
  <1>7. LoopsInv' /\ DefersInv' BY <1>2, <1>3, <1>5, LoopsKept, DefersKept DEF IInv
  <1>8. fall' \in 1 .. m \cup {NoBlock} BY <1>2, <1>3, FallKept
  <1>9. cur' \in 1 .. m /\ phase' \in {"gen", "bad"}
    BY <1>1, <1>2, <1>3, AtStmtIs DEF IInv, CodeInv
  <1>10. lossy' \in BOOLEAN BY DEF GenFallthrough
  <1> QED BY <1>4, <1>6, <1>7, <1>8, <1>9, <1>10, Assemble

LEMMA TaglessSwitchStep ==
  ASSUME IInv, GenTaglessSwitch
  PROVE  IInv'
  <1>1. AtStmt("switch") /\ Then(<<>>) /\ lossy' = TRUE BY DEF GenTaglessSwitch
  <1>2. UNCHANGED <<code, cur, defers, loops, depth, fall, phase>> BY DEF GenTaglessSwitch, xvars, rvars
  <1>3. PICK m \in Nat : m = Len(code) BY AtStmtIs, <1>1
  <1>4. Blocks(code', m, m) BY <1>2, <1>3, CodeIs DEF IInv
  <1>5. Len(code') = m BY <1>4 DEF Blocks
  <1>6. WorkInv' /\ WalkInv' BY <1>1, <1>2, <1>3, <1>5, AtStmtIs, Done
  <1>7. LoopsInv' /\ DefersInv' BY <1>2, <1>3, <1>5, LoopsKept, DefersKept DEF IInv
  <1>8. fall' \in 1 .. m \cup {NoBlock} BY <1>2, <1>3, FallKept
  <1>9. cur' \in 1 .. m /\ phase' \in {"gen", "bad"}
    BY <1>1, <1>2, <1>3, AtStmtIs DEF IInv, CodeInv
  <1> QED BY <1>1, <1>4, <1>6, <1>7, <1>8, <1>9, Assemble

\* A task that moves the generator to where the rest of the work starts.
LEMMA Moved ==
  ASSUME IInv, phase = "gen", work # <<>>, NEW f, NEW v, Ahead(f, v), Then(<<>>),
         NEW g \in {0, 1}, v = St(depth', Len(loops'), g), fall' # NoBlock => g = 1,
         Len(code') \in Nat, Len(code) <= Len(code'), Walk(Tail(work), v, Final, loops')
  PROVE  WorkInv' /\ WalkInv'
  <1>1. PICK e : e = <<>> OBVIOUS
  <1>2. v \in States BY DEF Ahead
  <1>3. Goes(e, Len(code'), v, v, loops') BY <1>1, <1>2, GoesNil
  <1>4. Goes(e, Len(code'), St(depth', Len(loops'), g), v, loops') BY <1>3
  <1>5. Tail(work) \in Seq(Tasks(Len(code))) BY AtWork
  <1>6. Len(code) \in Nat /\ Then(e) BY <1>1 DEF IInv, CodeInv
  <1> QED BY <1>4, <1>5, <1>6, Landed

LEMMA AtTaskIs ==
  ASSUME IInv, NEW do, AtTask(do)
  PROVE  /\ phase = "gen" /\ work # <<>> /\ Task.do = do
         /\ Task \in Tasks(Len(code))
         /\ Len(code) \in Nat /\ depth \in Nat /\ Len(loops) \in Nat
         /\ \E f, v : Ahead(f, v)
  <1>1. phase = "gen" /\ work # <<>> /\ Task.do = do BY DEF AtTask
  <1>2. Len(code) \in Nat /\ depth \in Nat /\ Len(loops) \in Nat
    BY DEF IInv, CodeInv, DefersInv, LoopsInv
  <1> QED BY <1>1, <1>2, AtWork

LEMMA TaskParts ==
  ASSUME NEW n \in Nat, NEW t \in Tasks(n)
  PROVE  /\ t.do \in {"brIfOpen", "position", "branch"} => t.to \in 1 .. n
         /\ t.do = "condBranch" => t.yes \in 1 .. n /\ t.no \in 1 .. n
         /\ t.do = "beginCase" => t.case \in 1 .. n /\ t.miss \in 1 .. n /\ t.next \in 1 .. n
         /\ t.do = "endCase" => t.end \in 1 .. n /\ t.isDefault \in BOOLEAN
  BY DEF Tasks

LEMMA OpenStep ==
  ASSUME IInv, OpenScope
  PROVE  IInv'
  <1>1. AtTask("open") /\ Then(<<>>) /\ depth' = depth + 1 BY DEF OpenScope
  <1>2. UNCHANGED <<code, cur, defers, loops, fall, lossy, phase>> BY DEF OpenScope, xvars, rvars
  <1>3. PICK m \in Nat : m = Len(code) BY AtTaskIs, <1>1
  <1>4. Blocks(code', m, m) BY <1>2, <1>3, CodeIs DEF IInv
  <1>5. Len(code') = m BY <1>4 DEF Blocks
  <1>6. PICK f, v : Ahead(f, v) BY <1>1, AtTaskIs
  <1>7. Here(f).d = depth /\ Here(f).n = Len(loops) /\ Here(f).f = f /\ f \in {0, 1}
    BY <1>6, NowIs DEF IInv, Ahead
  <1>8. v \in States /\ v.d = depth' /\ v.n = Len(loops') /\ v.f = f
    BY <1>1, <1>2, <1>6, <1>7, AtTaskIs DEF Ahead, Move
  <1>9. v = St(depth', Len(loops'), f) BY <1>8, SameState
  <1>10. Walk(Tail(work), v, Final, loops') /\ (fall' # NoBlock => f = 1) BY <1>2, <1>6 DEF Ahead
  <1>11. WorkInv' /\ WalkInv' BY <1>1, <1>3, <1>5, <1>6, <1>7, <1>9, <1>10, AtTaskIs, Moved
  <1>12. LoopsInv' BY <1>2, <1>3, <1>5, LoopsKept DEF IInv
  <1>13. DefersInv' BY <1>1, <1>2, DefersDeeper DEF IInv
  <1>14. fall' \in 1 .. m \cup {NoBlock} BY <1>2, <1>3, FallKept
  <1>15. cur' \in 1 .. m /\ phase' \in {"gen", "bad"} /\ lossy' \in BOOLEAN
    BY <1>1, <1>2, <1>3, AtTaskIs DEF IInv, CodeInv, FlagsInv
  <1> QED BY <1>4, <1>11, <1>12, <1>13, <1>14, <1>15, Assemble

\* The end of a scope: what leads back from here was pushed with its opening.
LEMMA LeavesScope ==
  ASSUME IInv, NEW f, NEW v, Ahead(f, v), Task.do \in {"close", "endCase"}
  PROVE  depth >= 1 /\ v.d = depth - 1 /\ v.n = Len(loops) /\ v \in States
  <1>1. Here(f).d = depth /\ Here(f).n = Len(loops) BY NowIs DEF IInv, Ahead
  <1>2. v \in States /\ v.d \in Nat BY DEF Ahead, States
  <1>3. depth = v.d + 1 /\ v.n = Len(loops) BY <1>1 DEF Ahead, Move
  <1> QED BY <1>2, <1>3

LEMMA CloseStep ==
  ASSUME IInv, CloseScope
  PROVE  IInv'
  <1>1. AtTask("close") /\ Then(<<>>) /\ depth' = depth - 1 /\ defers' = DefersNotAt(depth)
    BY DEF CloseScope
  <1>2. UNCHANGED <<cur, loops, fall, lossy, phase>> BY DEF CloseScope, xvars, rvars
  <1>3. PICK m \in Nat : m = Len(code) BY AtTaskIs, <1>1
  <1>4. Emitted(DefersAt(depth)) \in Seq(Instrs(m))
    <2>1. DefersAt(depth) \in Seq(Entry) BY DefersInKeeps DEF IInv, DefersAt
    <2> QED BY <2>1, EmittedIs
  <1>5. Blocks(code', m, m) BY <1>3, <1>4, CodeStays DEF IInv, CloseScope
  <1>6. Len(code') = m BY <1>5 DEF Blocks
  <1>7. PICK f, v : Ahead(f, v) BY <1>1, AtTaskIs
  <1>8. Task.do = "close" /\ f \in {0, 1} BY <1>1, <1>7, AtTaskIs DEF Ahead
  <1>9. depth >= 1 /\ v \in States /\ v.d = depth' /\ v.n = Len(loops')
    BY <1>1, <1>2, <1>7, <1>8, LeavesScope
  <1>10. v.f = f
    <2>1. Here(f).f = f BY <1>8, NowIs DEF IInv
    <2> QED BY <1>7, <1>8, <2>1 DEF Ahead, Move
  <1>11. v = St(depth', Len(loops'), f) BY <1>9, <1>10, SameState
  <1>12. Walk(Tail(work), v, Final, loops') /\ (fall' # NoBlock => f = 1) BY <1>2, <1>7 DEF Ahead
  <1>13. WorkInv' /\ WalkInv' BY <1>1, <1>3, <1>6, <1>7, <1>8, <1>11, <1>12, AtTaskIs, Moved
  <1>14. LoopsInv' BY <1>2, <1>3, <1>6, LoopsKept DEF IInv
  <1>15. DefersInv' BY <1>1, <1>9, DefersClosed DEF IInv
  <1>16. fall' \in 1 .. m \cup {NoBlock} BY <1>2, <1>3, FallKept
  <1>17. cur' \in 1 .. m /\ phase' \in {"gen", "bad"} /\ lossy' \in BOOLEAN
    BY <1>1, <1>2, <1>3, AtTaskIs DEF IInv, CodeInv, FlagsInv
  <1> QED BY <1>5, <1>13, <1>14, <1>15, <1>16, <1>17, Assemble

LEMMA EndCaseStep ==
  ASSUME IInv, EndCaseBody
  PROVE  IInv'
  <1>1. AtTask("endCase") /\ Then(<<>>) /\ depth' = depth - 1 /\ defers' = DefersNotAt(depth)
    BY DEF EndCaseBody
  <1>2. /\ UNCHANGED <<cur, loops, lossy, phase>>
        /\ fall' = IF Task.isDefault THEN fall ELSE NoBlock
    BY DEF EndCaseBody, xvars, rvars
  <1>3. PICK m \in Nat : m = Len(code) BY AtTaskIs, <1>1
  <1>4. PICK b : b = IF Open(code, cur) THEN <<Br(Task.end)>> ELSE <<>> OBVIOUS
  <1>5. b \in Seq(Instrs(m))
    <2>1. Task.end \in 1 .. m BY <1>1, <1>3, AtTaskIs, TaskParts
    <2>2. <<Br(Task.end)>> \in Seq(Instrs(m)) BY <2>1, Instructions, OneInstr
    <2> QED BY <1>4, <2>2, NoInstr
  <1>6. Emitted(DefersAt(depth)) \o b \in Seq(Instrs(m))
    <2>1. DefersAt(depth) \in Seq(Entry) BY DefersInKeeps DEF IInv, DefersAt
    <2>2. Emitted(DefersAt(depth)) \in Seq(Instrs(m)) BY <2>1, EmittedIs
    <2> QED BY <1>5, <2>2, ThenInstrs
  <1>7. code' = Put(code, cur, Emitted(DefersAt(depth)) \o b) BY <1>4 DEF EndCaseBody
  <1>8. Blocks(code', m, m) BY <1>3, <1>6, <1>7, CodeStays DEF IInv
  <1>9. Len(code') = m BY <1>8 DEF Blocks
  <1>10. PICK f, v : Ahead(f, v) BY <1>1, AtTaskIs
  <1>11. Task.do = "endCase" /\ f \in {0, 1} BY <1>1, <1>10, AtTaskIs DEF Ahead
  <1>12. depth >= 1 /\ v \in States /\ v.d = depth' /\ v.n = Len(loops')
    BY <1>1, <1>2, <1>10, <1>11, LeavesScope
  <1>13. v.f \in {0, 1} BY <1>12 DEF States
  <1>14. fall' # NoBlock => v.f = 1
    <2>1. ASSUME Task.isDefault PROVE v.f = f
      <3>1. Here(f).f = f BY <1>11, NowIs DEF IInv
      <3> QED BY <1>10, <1>11, <2>1, <3>1 DEF Ahead, Move
    <2>2. fall # NoBlock => f = 1 BY <1>10 DEF Ahead
    <2> QED BY <1>2, <2>1, <2>2
  <1>15. v = St(depth', Len(loops'), v.f) BY <1>12, SameState
  <1>16. Walk(Tail(work), v, Final, loops') BY <1>2, <1>10 DEF Ahead
  <1>17. WorkInv' /\ WalkInv'
    <2>1. PICK g \in {0, 1} : g = v.f BY <1>13
    <2>2. v = St(depth', Len(loops'), g) /\ (fall' # NoBlock => g = 1) BY <1>14, <1>15, <2>1
    <2> QED BY <1>1, <1>3, <1>9, <1>10, <1>16, <2>2, AtTaskIs, Moved
  <1>18. LoopsInv' BY <1>2, <1>3, <1>9, LoopsKept DEF IInv
  <1>19. DefersInv' BY <1>1, <1>12, DefersClosed DEF IInv
  <1>20. fall' \in 1 .. m \cup {NoBlock} BY <1>2, <1>3 DEF IInv, FlagsInv
  <1>21. cur' \in 1 .. m /\ phase' \in {"gen", "bad"} /\ lossy' \in BOOLEAN
    BY <1>1, <1>2, <1>3, AtTaskIs DEF IInv, CodeInv, FlagsInv
  <1> QED BY <1>8, <1>17, <1>18, <1>19, <1>20, <1>21, Assemble

LEMMA BeginCaseStep ==
  ASSUME IInv, BeginCaseBody
  PROVE  IInv'
  <1>1. /\ AtTask("beginCase") /\ Then(<<>>) /\ depth' = depth + 1
        /\ cur' = Task.case /\ fall' = Task.next
    BY DEF BeginCaseBody
  <1>2. UNCHANGED <<defers, loops, lossy, phase>> BY DEF BeginCaseBody, xvars, rvars
  <1>3. PICK m \in Nat : m = Len(code) BY AtTaskIs, <1>1
  <1>4. Task.case \in 1 .. m /\ Task.miss \in 1 .. m /\ Task.next \in 1 .. m
    BY <1>1, <1>3, AtTaskIs, TaskParts
  <1>5. <<CondBr(Task.case, Task.miss)>> \in Seq(Instrs(m)) BY <1>4, Instructions, OneInstr
  <1>6. Blocks(code', m, m) BY <1>3, <1>5, CodeStays DEF IInv, BeginCaseBody
  <1>7. Len(code') = m BY <1>6 DEF Blocks
  <1>8. PICK f, v : Ahead(f, v) BY <1>1, AtTaskIs
  <1>9. Here(f).d = depth /\ Here(f).n = Len(loops) /\ Task.do = "beginCase"
    BY <1>1, <1>8, NowIs, AtTaskIs DEF IInv, Ahead
  <1>10. v \in States /\ v.d = depth' /\ v.n = Len(loops') /\ v.f = 1
    BY <1>1, <1>2, <1>8, <1>9 DEF Ahead, Move
  <1>11. v = St(depth', Len(loops'), 1) BY <1>10, SameState
  <1>12. Walk(Tail(work), v, Final, loops') BY <1>2, <1>8 DEF Ahead
  <1>13. WorkInv' /\ WalkInv' BY <1>1, <1>3, <1>7, <1>8, <1>11, <1>12, AtTaskIs, Moved
  <1>14. LoopsInv' BY <1>2, <1>3, <1>7, LoopsKept DEF IInv
  <1>15. DefersInv' BY <1>1, <1>2, DefersDeeper DEF IInv
  <1>16. fall' \in 1 .. m \cup {NoBlock} BY <1>1, <1>4
  <1>17. cur' \in 1 .. m /\ phase' \in {"gen", "bad"} /\ lossy' \in BOOLEAN
    BY <1>1, <1>2, <1>4, AtTaskIs DEF IInv, FlagsInv
  <1> QED BY <1>6, <1>13, <1>14, <1>15, <1>16, <1>17, Assemble

\* The tasks between the parts of a statement.
LEMMA GlueKeepsRest ==
  ASSUME IInv, Glue
  PROVE  Then(<<>>) /\ UNCHANGED <<defers, depth, fall, lossy, phase>>
  BY DEF Glue, xvars, rvars

LEMMA GlueStep ==
  ASSUME IInv, Glue
  PROVE  IInv'
  <1>1. Then(<<>>) /\ UNCHANGED <<defers, depth, fall, lossy, phase>> BY GlueKeepsRest
  <1>2. PICK do : /\ AtTask(do)
                  /\ do \in {"brIfOpen", "branch", "condBranch", "position", "lastCopy", "popLoop"}
                  /\ do = "brIfOpen" => /\ code' = IF Open(code, cur) THEN Put(code, cur, <<Br(Task.to)>>) ELSE code
                                        /\ UNCHANGED <<cur, loops>>
                  /\ do = "branch" => code' = Put(code, cur, <<Br(Task.to)>>) /\ UNCHANGED <<cur, loops>>
                  /\ do = "condBranch" => /\ code' = Put(code, cur, <<CondBr(Task.yes, Task.no)>>)
                                          /\ UNCHANGED <<cur, loops>>
                  /\ do = "position" => cur' = Task.to /\ UNCHANGED <<code, loops>>
                  /\ do = "lastCopy" => UNCHANGED <<code, cur, loops>>
                  /\ do = "popLoop" => /\ loops' = IF loops = <<>> THEN loops ELSE Front(loops)
                                       /\ UNCHANGED <<code, cur>>
    <2>1. CASE AtTask("brIfOpen") BY <2>1 DEF Glue, AtTask
    <2>2. CASE AtTask("branch") BY <2>2 DEF Glue, AtTask
    <2>3. CASE AtTask("condBranch") BY <2>3 DEF Glue, AtTask
    <2>4. CASE AtTask("position") BY <2>4 DEF Glue, AtTask
    <2>5. CASE AtTask("lastCopy") BY <2>5 DEF Glue, AtTask
    <2>6. CASE AtTask("popLoop") BY <2>6 DEF Glue, AtTask
    <2> QED BY <2>1, <2>2, <2>3, <2>4, <2>5, <2>6 DEF Glue
  <1>3. PICK m \in Nat : m = Len(code) BY AtTaskIs, <1>2
  <1>4. /\ do \in {"brIfOpen", "branch", "position"} => Task.to \in 1 .. m
        /\ do = "condBranch" => Task.yes \in 1 .. m /\ Task.no \in 1 .. m
    <2>1. Task \in Tasks(m) /\ Task.do = do BY <1>2, <1>3, AtTaskIs
    <2> QED BY <1>2, <2>1, TaskParts
  <1>5. Blocks(code', m, m)
    <2>1. CASE code' = code BY <1>3, <2>1, CodeIs DEF IInv
    <2>2. CASE do \in {"brIfOpen", "branch"} /\ code' = Put(code, cur, <<Br(Task.to)>>)
      <3>1. <<Br(Task.to)>> \in Seq(Instrs(m)) BY <1>4, <2>2, Instructions, OneInstr
      <3> QED BY <1>3, <2>2, <3>1, CodeStays DEF IInv
    <2>3. CASE do = "condBranch" /\ code' = Put(code, cur, <<CondBr(Task.yes, Task.no)>>)
      <3>1. <<CondBr(Task.yes, Task.no)>> \in Seq(Instrs(m)) BY <1>4, <2>3, Instructions, OneInstr
      <3> QED BY <1>3, <2>3, <3>1, CodeStays DEF IInv
    <2> QED BY <1>2, <2>1, <2>2, <2>3
  <1>6. Len(code') = m BY <1>5 DEF Blocks
  <1>7. cur' \in 1 .. m
    <2>1. cur \in 1 .. m BY <1>3 DEF IInv, CodeInv
    <2> QED BY <1>2, <1>4, <2>1
  <1>8. LoopsInv' /\ WorkInv' /\ WalkInv'
    <2>1. CASE do # "popLoop"
      <3>1. UNCHANGED loops BY <1>2, <2>1
      <3>2. LoopsInv' BY <1>3, <1>6, <3>1, LoopsKept DEF IInv
      <3>3. phase = "gen" /\ work # <<>> /\ Task.do \notin Moving BY <1>2, <2>1, AtTaskIs DEF Moving
      <3>4. WorkInv' /\ WalkInv' BY <1>1, <1>3, <1>6, <3>1, <3>3, Done
      <3> QED BY <3>2, <3>4
    <2>2. CASE do = "popLoop"
      <3>1. PICK f, v : Ahead(f, v) BY <1>2, AtTaskIs
      <3>2. PICK n \in Nat : n = Len(loops) BY DEF IInv, LoopsInv
      <3>3. Task.do = "popLoop" /\ f \in {0, 1} BY <1>2, <2>2, <3>1, AtTaskIs DEF Ahead
      <3>4. Here(f).d = depth /\ Here(f).n = n /\ Here(f).f = f BY <3>2, <3>3, NowIs DEF IInv
      <3>5. v \in States /\ v.d = depth /\ v.n = (IF n > 0 THEN n - 1 ELSE n) /\ v.f = f
        BY <3>1, <3>3, <3>4 DEF Ahead, Move
      <3>6. PICK X : X = LoopEntry(m) OBVIOUS
      <3>7. loops \in Seq(X) /\ Len(code') = m BY <1>3, <1>6, <3>6 DEF IInv, LoopsInv
      <3>8. PICK L : L = loops' OBVIOUS
      <3>9. L \in Seq(X) /\ Len(L) = v.n /\ v.n \in Nat /\ v.n <= n /\ \A j \in 1 .. v.n : L[j] = loops[j]
        <4>1. CASE n = 0
          <5>1. loops = <<>> BY <3>2, <3>7, <4>1, EmptySeq
          <5>2. L = loops BY <1>2, <2>2, <3>8, <5>1
          <5>3. v.n = 0 BY <3>5, <4>1
          <5>4. L \in Seq(X) /\ Len(L) = 0 BY <3>2, <3>7, <4>1, <5>2
          <5>5. 1 .. v.n = {} BY <5>3
          <5> QED BY <4>1, <5>3, <5>4, <5>5
        <4>2. CASE n # 0
          <5>1. loops # <<>> BY <3>2, <4>2
          <5>2. PICK r : r = [j \in 1 .. n - 1 |-> loops[j]] OBVIOUS
          <5>3. Front(loops) = r
            <6>1. Front(loops) = SubSeq(loops, 1, n - 1) BY <3>2 DEF Front
            <6>2. n - 1 <= Len(loops) BY <3>2
            <6>3. SubSeq(loops, 1, n - 1) = r BY <3>2, <3>7, <5>2, <6>2
            <6> QED BY <6>1, <6>3
          <5>4. L = r /\ v.n = n - 1 BY <1>2, <2>2, <3>5, <3>8, <4>2, <5>1, <5>3
          <5>5. r \in Seq(X) /\ Len(r) = n - 1
            <6>1. \A j \in 1 .. n - 1 : r[j] \in X BY <3>2, <3>7, <5>2
            <6>2. n - 1 \in Nat BY <4>2
            <6> QED BY <5>2, <6>1, <6>2
          <5>6. n - 1 \in Nat /\ n - 1 <= n BY <4>2
          <5> QED BY <5>2, <5>4, <5>5, <5>6
        <4> QED BY <4>1, <4>2
      <3>10. DOMAIN loops = 1 .. n /\ DOMAIN L = 1 .. v.n /\ 1 .. v.n \subseteq 1 .. n BY <3>2, <3>7, <3>9
      <3>11. LoopsInv'
        <4>1. \A j, k \in DOMAIN L : j < k => L[j].depth <= L[k].depth
          BY <3>9, <3>10 DEF IInv, LoopsInv
        <4>2. Len(L) <= MaxLoopDepth
          <5>1. n <= MaxLoopDepth BY <3>2 DEF IInv, LoopsInv
          <5> QED BY <3>9, <5>1, LimitsAssumption
        <4> QED BY <3>6, <3>7, <3>8, <3>9, <4>1, <4>2 DEF LoopsInv
      <3>12. PICK r : r = Tail(work) OBVIOUS
      <3>13. Walk(r, v, Final, loops) /\ Len(r) \in Nat
        <4>1. Tail(work) \in Seq(Tasks(Len(code))) BY <1>2, AtTaskIs, AtWork
        <4> QED BY <3>1, <3>12, <4>1 DEF Ahead
      <3>14. Walk(r, v, Final, L)
        <4>1. \A j \in DOMAIN L : j <= v.n => j \in DOMAIN loops /\ loops[j].depth = L[j].depth
          BY <3>9, <3>10
        <4>2. DOMAIN L \subseteq Nat BY <3>10
        <4> QED BY <3>9, <3>13, <4>1, <4>2, WalkOther
      <3>15. v = St(depth', Len(loops'), f) BY <1>1, <3>5, <3>8, <3>9, SameState
      <3>16. Walk(Tail(work), v, Final, loops') /\ (fall' # NoBlock => f = 1)
        BY <1>1, <3>1, <3>8, <3>12, <3>14 DEF Ahead
      <3>17. WorkInv' /\ WalkInv' BY <1>1, <1>2, <1>3, <1>6, <3>1, <3>3, <3>15, <3>16, AtTaskIs, Moved
      <3> QED BY <3>11, <3>17
    <2> QED BY <2>1, <2>2
  <1>9. DefersInv' BY <1>1, DefersKept DEF IInv
  <1>10. fall' \in 1 .. m \cup {NoBlock} BY <1>1, <1>3, FallKept
  <1>11. phase' \in {"gen", "bad"} /\ lossy' \in BOOLEAN BY <1>1, <1>2, AtTaskIs DEF IInv, FlagsInv
  <1> QED BY <1>5, <1>7, <1>8, <1>9, <1>10, <1>11, Assemble

LEMMA EndProcStep ==
  ASSUME IInv, EndProc
  PROVE  IInv'
  <1>1. AtTask("endProc") /\ Then(<<>>) BY DEF EndProc
  <1>2. UNCHANGED <<cur, loops, depth, fall, lossy, phase>> BY DEF EndProc, xvars, rvars
  <1>3. PICK m \in Nat : m = Len(code) BY AtTaskIs, <1>1
  <1>4. Blocks(code', m, m) /\ DefersInv'
    <2>1. CASE Open(code, cur)
      <3>1. code' = Put(code, cur, Emitted(DefersAt(depth)) \o <<Ret>>) /\ defers' = DefersNotAt(depth)
        BY <2>1 DEF EndProc
      <3>2. Emitted(DefersAt(depth)) \o <<Ret>> \in Seq(Instrs(m))
        <4>1. DefersAt(depth) \in Seq(Entry) BY DefersInKeeps DEF IInv, DefersAt
        <4>2. Emitted(DefersAt(depth)) \in Seq(Instrs(m)) BY <4>1, EmittedIs
        <4>3. <<Ret>> \in Seq(Instrs(m)) BY Instructions, OneInstr
        <4> QED BY <4>2, <4>3, ThenInstrs
      <3>3. Blocks(code', m, m) BY <1>3, <3>1, <3>2, CodeStays DEF IInv
      <3>4. DefersInv' BY <1>2, <3>1, DefersTaken DEF IInv, DefersNotAt
      <3> QED BY <3>3, <3>4
    <2>2. CASE ~ Open(code, cur)
      <3>1. UNCHANGED <<code, defers>> BY <2>2 DEF EndProc
      <3>2. Blocks(code', m, m) BY <1>3, <3>1, CodeIs DEF IInv
      <3> QED BY <1>2, <3>1, <3>2, DefersKept DEF IInv
    <2> QED BY <2>1, <2>2
  <1>5. Len(code') = m BY <1>4 DEF Blocks
  <1>6. phase = "gen" /\ work # <<>> /\ Task.do \notin Moving BY <1>1, AtTaskIs DEF Moving
  <1>7. WorkInv' /\ WalkInv' BY <1>1, <1>2, <1>3, <1>5, <1>6, Done
  <1>8. LoopsInv' BY <1>2, <1>3, <1>5, LoopsKept DEF IInv
  <1>9. fall' \in 1 .. m \cup {NoBlock} BY <1>2, <1>3, FallKept
  <1>10. cur' \in 1 .. m /\ phase' \in {"gen", "bad"} /\ lossy' \in BOOLEAN
    BY <1>2, <1>3, <1>6 DEF IInv, CodeInv, FlagsInv
  <1> QED BY <1>4, <1>7, <1>8, <1>9, <1>10, Assemble

LEMMA LoopDepths ==
  ASSUME LoopsInv
  PROVE  \A j \in DOMAIN loops : loops[j].depth \in Nat
  <1>1. PICK X : X = LoopEntry(Len(code)) OBVIOUS
  <1>2. loops \in Seq(X) BY <1>1 DEF LoopsInv
  <1>3. \A j \in DOMAIN loops : loops[j] \in X BY <1>2
  <1>4. \A x \in X : x.depth \in Nat BY <1>1 DEF LoopEntry
  <1> QED BY <1>3, <1>4

\* A part of a statement: a compound statement, or a single one in the same scope.
LEMMA PartGoes ==
  ASSUME NEW n, NEW b, IsPart(b), NEW s \in States, NEW L, Inside(s, L),
         \A j \in DOMAIN L : L[j].depth \in Nat
  PROVE  Goes(Part(b), n, s, s, L)
  <1>1. PICK ss \in Seq(Statements) : ss = b.list BY DEF IsPart
  <1>2. CASE b.single
    <2>1. Goes(GenAll(ss), n, s, s, L) BY GensGo
    <2> QED BY <1>1, <1>2, <2>1 DEF Part
  <1>3. CASE ~ b.single
    <2>1. LoopsAround(s, L) BY InsideAround
    <2>2. Goes(Compound(ss), n, s, s, L) BY <2>1, CompoundGoes
    <2> QED BY <1>1, <1>3, <2>2 DEF Part
  <1> QED BY <1>2, <1>3

\* Tuples, one element and the rest.
LEMMA Pair == ASSUME NEW a, NEW b PROVE <<a>> \o <<b>> = <<a, b>>
  <1>1. PICK S : S = {a, b} OBVIOUS
  <1>2. a \in S /\ b \in S BY <1>1
  <1>3. PICK p : p = <<a>> OBVIOUS
  <1>4. PICK q : q = <<b>> OBVIOUS
  <1>5. PICK t : t = <<a, b>> OBVIOUS
  <1>6. p \in Seq(S) /\ Len(p) = 1 /\ p[1] = a BY <1>2, <1>3
  <1>7. q \in Seq(S) /\ Len(q) = 1 /\ q[1] = b BY <1>2, <1>4
  <1>8. t \in Seq(S) /\ Len(t) = 2 /\ t[1] = a /\ t[2] = b BY <1>2, <1>5
  <1>9. PICK w : w = p \o q OBVIOUS
  <1>10. /\ w \in Seq(S) /\ Len(w) = Len(p) + Len(q)
         /\ \A i \in 1 .. Len(p) + Len(q) : w[i] = IF i <= Len(p) THEN p[i] ELSE q[i - Len(p)]
    <2>1. p \in Seq(S) /\ q \in Seq(S) BY <1>6, <1>7
    <2> QED BY <1>9, <2>1, ConcatProperties
  <1>11. w[1] = a /\ w[2] = b BY <1>6, <1>7, <1>10
  <1>12. \A i \in 1 .. 2 : w[i] = t[i]
    <2>1. \A i \in 1 .. 2 : i = 1 \/ i = 2 OBVIOUS
    <2> QED BY <1>8, <1>11, <2>1
  <1>13. Len(w) = 2 BY <1>6, <1>7, <1>10
  <1>14. w = t BY <1>8, <1>10, <1>12, <1>13, SeqEqual
  <1> QED BY <1>3, <1>4, <1>5, <1>9, <1>14

LEMMA Triple == ASSUME NEW a, NEW b, NEW c PROVE <<a>> \o <<b, c>> = <<a, b, c>>
  <1>1. PICK S : S = {a, b, c} OBVIOUS
  <1>2. a \in S /\ b \in S /\ c \in S BY <1>1
  <1>3. PICK p : p = <<a>> OBVIOUS
  <1>4. PICK q : q = <<b, c>> OBVIOUS
  <1>5. PICK t : t = <<a, b, c>> OBVIOUS
  <1>6. p \in Seq(S) /\ Len(p) = 1 /\ p[1] = a BY <1>2, <1>3
  <1>7. q \in Seq(S) /\ Len(q) = 2 /\ q[1] = b /\ q[2] = c BY <1>2, <1>4
  <1>8. t \in Seq(S) /\ Len(t) = 3 /\ t[1] = a /\ t[2] = b /\ t[3] = c BY <1>2, <1>5
  <1>9. PICK w : w = p \o q OBVIOUS
  <1>10. /\ w \in Seq(S) /\ Len(w) = Len(p) + Len(q)
         /\ \A i \in 1 .. Len(p) + Len(q) : w[i] = IF i <= Len(p) THEN p[i] ELSE q[i - Len(p)]
    <2>1. p \in Seq(S) /\ q \in Seq(S) BY <1>6, <1>7
    <2> QED BY <1>9, <2>1, ConcatProperties
  <1>11. w[1] = a /\ w[2] = b /\ w[3] = c BY <1>6, <1>7, <1>10
  <1>12. \A i \in 1 .. 3 : w[i] = t[i]
    <2>1. \A i \in 1 .. 3 : i = 1 \/ i = 2 \/ i = 3 OBVIOUS
    <2> QED BY <1>8, <1>11, <2>1
  <1>13. Len(w) = 3 BY <1>6, <1>7, <1>10
  <1>14. w = t BY <1>8, <1>10, <1>12, <1>13, SeqEqual
  <1> QED BY <1>3, <1>4, <1>5, <1>9, <1>14

LEMMA Quadruple == ASSUME NEW a, NEW b, NEW c, NEW e PROVE <<a>> \o <<b, c, e>> = <<a, b, c, e>>
  <1>1. PICK S : S = {a, b, c, e} OBVIOUS
  <1>2. a \in S /\ b \in S /\ c \in S /\ e \in S BY <1>1
  <1>3. PICK p : p = <<a>> OBVIOUS
  <1>4. PICK q : q = <<b, c, e>> OBVIOUS
  <1>5. PICK t : t = <<a, b, c, e>> OBVIOUS
  <1>6. p \in Seq(S) /\ Len(p) = 1 /\ p[1] = a BY <1>2, <1>3
  <1>7. q \in Seq(S) /\ Len(q) = 3 /\ q[1] = b /\ q[2] = c /\ q[3] = e BY <1>2, <1>4
  <1>8. t \in Seq(S) /\ Len(t) = 4 /\ t[1] = a /\ t[2] = b /\ t[3] = c /\ t[4] = e BY <1>2, <1>5
  <1>9. PICK w : w = p \o q OBVIOUS
  <1>10. /\ w \in Seq(S) /\ Len(w) = Len(p) + Len(q)
         /\ \A i \in 1 .. Len(p) + Len(q) : w[i] = IF i <= Len(p) THEN p[i] ELSE q[i - Len(p)]
    <2>1. p \in Seq(S) /\ q \in Seq(S) BY <1>6, <1>7
    <2> QED BY <1>9, <2>1, ConcatProperties
  <1>11. w[1] = a /\ w[2] = b /\ w[3] = c /\ w[4] = e BY <1>6, <1>7, <1>10
  <1>12. \A i \in 1 .. 4 : w[i] = t[i]
    <2>1. \A i \in 1 .. 4 : i = 1 \/ i = 2 \/ i = 3 \/ i = 4 OBVIOUS
    <2> QED BY <1>8, <1>11, <2>1
  <1>13. Len(w) = 4 BY <1>6, <1>7, <1>10
  <1>14. w = t BY <1>8, <1>10, <1>12, <1>13, SeqEqual
  <1> QED BY <1>3, <1>4, <1>5, <1>9, <1>14

LEMMA Quintuple == ASSUME NEW a, NEW b, NEW c, NEW e, NEW g PROVE <<a>> \o <<b, c, e, g>> = <<a, b, c, e, g>>
  <1>1. PICK S : S = {a, b, c, e, g} OBVIOUS
  <1>2. a \in S /\ b \in S /\ c \in S /\ e \in S /\ g \in S BY <1>1
  <1>3. PICK p : p = <<a>> OBVIOUS
  <1>4. PICK q : q = <<b, c, e, g>> OBVIOUS
  <1>5. PICK t : t = <<a, b, c, e, g>> OBVIOUS
  <1>6. p \in Seq(S) /\ Len(p) = 1 /\ p[1] = a BY <1>2, <1>3
  <1>7. q \in Seq(S) /\ Len(q) = 4 /\ q[1] = b /\ q[2] = c /\ q[3] = e /\ q[4] = g BY <1>2, <1>4
  <1>8. t \in Seq(S) /\ Len(t) = 5 /\ t[1] = a /\ t[2] = b /\ t[3] = c /\ t[4] = e /\ t[5] = g BY <1>2, <1>5
  <1>9. PICK w : w = p \o q OBVIOUS
  <1>10. /\ w \in Seq(S) /\ Len(w) = Len(p) + Len(q)
         /\ \A i \in 1 .. Len(p) + Len(q) : w[i] = IF i <= Len(p) THEN p[i] ELSE q[i - Len(p)]
    <2>1. p \in Seq(S) /\ q \in Seq(S) BY <1>6, <1>7
    <2> QED BY <1>9, <2>1, ConcatProperties
  <1>11. w[1] = a /\ w[2] = b /\ w[3] = c /\ w[4] = e /\ w[5] = g BY <1>6, <1>7, <1>10
  <1>12. \A i \in 1 .. 5 : w[i] = t[i]
    <2>1. \A i \in 1 .. 5 : i = 1 \/ i = 2 \/ i = 3 \/ i = 4 \/ i = 5 OBVIOUS
    <2> QED BY <1>8, <1>11, <2>1
  <1>13. Len(w) = 5 BY <1>6, <1>7, <1>10
  <1>14. w = t BY <1>8, <1>10, <1>12, <1>13, SeqEqual
  <1> QED BY <1>3, <1>4, <1>5, <1>9, <1>14

LEMMA ProcStep ==
  ASSUME IInv, GenProc
  PROVE  IInv'
  <1>1. AtStmt("proc") BY DEF GenProc
  <1>2. UNCHANGED <<defers, loops, depth, fall, phase>> BY DEF GenProc, xvars, rvars
  <1>3. PICK n \in Nat : n = Len(code) BY AtStmtIs, <1>1
  <1>4. PICK m \in Nat : m = n + 1 OBVIOUS
  <1>5. PICK e : e = <<>> OBVIOUS
  <1>6. PICK x : x = <<e>> OBVIOUS
  <1>7. e \in Seq(Instrs(m)) BY <1>5, NoInstr
  <1>8. x \in Seq(Seq(Instrs(m))) /\ Len(x) = 1 BY <1>6, <1>7, OneBlock
  <1>9. Blocks(code, n, n) /\ cur \in 1 .. n BY <1>3, CodeIs DEF IInv
  <1>10. code' = code \o x
    <2>1. PICK B : B = Seq(Instrs(n)) OBVIOUS
    <2>2. code \in Seq(B) BY <1>9, <2>1 DEF Blocks
    <2>3. code' = Append(code, e) BY <1>5 DEF GenProc
    <2> QED BY <1>6, <2>2, <2>3
  <1>11. Blocks(code', m, m)
    <2>1. n + Len(x) = m /\ n <= m BY <1>4, <1>8
    <2>2. Blocks(code \o x, n + Len(x), m) BY <1>8, <1>9, <2>1, MoreBlocks
    <2> QED BY <1>10, <2>1, <2>2
  <1>12. Len(code') = m /\ Len(code) <= m BY <1>3, <1>4, <1>11 DEF Blocks
  <1>13. PICK ts : ts = Compound(Stmt.body) \o <<Todo("endProc"), Position(cur)>> OBVIOUS
  <1>14. Then(ts) BY <1>13 DEF GenProc
  <1>15. ASSUME NEW s \in States, Inside(s, loops) PROVE Goes(ts, m, s, s, loops)
    <2>1. Stmt.body \in Seq(Statements) BY <1>1, AtStmtIs DEF StatementOk
    <2>2. PICK a : a = Compound(Stmt.body) OBVIOUS
    <2>3. Goes(a, m, s, s, loops)
      <3>1. LoopsAround(s, loops) /\ \A j \in DOMAIN loops : loops[j].depth \in Nat
        BY <1>15, InsideAround, LoopDepths DEF IInv
      <3> QED BY <1>15, <2>1, <2>2, <3>1, CompoundGoes
    <2>4. PICK b : b = <<Todo("endProc")>> OBVIOUS
    <2>5. PICK c : c = <<Position(cur)>> OBVIOUS
    <2>6. cur \in 1 .. m BY <1>4, <1>9
    <2>7. Goes(b, m, s, s, loops) /\ Goes(c, m, s, s, loops) BY <2>4, <2>5, <2>6, GlueGoes
    <2>8. b \o c = <<Todo("endProc"), Position(cur)>> BY <2>4, <2>5, Pair
    <2>9. Goes(b \o c, m, s, s, loops) BY <2>7, GoesJoin
    <2>10. Goes(a \o (b \o c), m, s, s, loops) BY <2>3, <2>9, GoesJoin
    <2> QED BY <1>13, <2>2, <2>8, <2>10
  <1>16. WorkInv' /\ WalkInv' BY <1>1, <1>2, <1>12, <1>14, <1>15, AtStmtIs, Expand
  <1>17. LoopsInv' /\ DefersInv' BY <1>2, <1>3, <1>12, LoopsKept, DefersKept DEF IInv
  <1>18. fall' \in 1 .. m \cup {NoBlock} BY <1>2, <1>12, FallKept
  <1>19. cur' \in 1 .. m /\ phase' \in {"gen", "bad"} BY <1>1, <1>2, <1>3, <1>4, AtStmtIs DEF GenProc
  <1>20. lossy' \in BOOLEAN BY DEF GenProc
  <1> QED BY <1>11, <1>16, <1>17, <1>18, <1>19, <1>20, Assemble

LEMMA IfStep ==
  ASSUME IInv, GenIf
  PROVE  IInv'
  <1>1. AtStmt("if") BY DEF GenIf
  <1>2. UNCHANGED <<defers, loops, depth, fall, lossy, phase>> BY DEF GenIf, xvars, rvars
  <1>3. PICK n \in Nat : n = Len(code) BY AtStmtIs, <1>1
  <1>5. PICK yes : yes = n + 1 OBVIOUS
  <1>6. PICK merge : merge = n + 2 OBVIOUS
  <1>7. PICK no : no = IF Stmt.else = <<>> THEN merge ELSE n + 3 OBVIOUS
  <1>8. PICK e : e = <<>> OBVIOUS
  <1>9. PICK x : x = IF Stmt.else = <<>> THEN <<e, e>> ELSE <<e, e, e>> OBVIOUS
  <1>10. PICK m : m = IF Stmt.else = <<>> THEN n + 2 ELSE n + 3 OBVIOUS
  <1>11. code' = Put(code, cur, <<CondBr(yes, no)>>) \o x /\ cur' = yes
    BY <1>3, <1>5, <1>6, <1>7, <1>8, <1>9 DEF GenIf
  <1>12. m \in Nat /\ n <= m /\ yes \in 1 .. m /\ merge \in 1 .. m /\ no \in 1 .. m
    BY <1>5, <1>6, <1>7, <1>10
  <1>13. x \in Seq(Seq(Instrs(m))) /\ m = Len(code) + Len(x)
    <2>1. e \in Seq(Instrs(m)) BY <1>8, NoInstr
    <2>2. <<e, e>> \in Seq(Seq(Instrs(m))) /\ Len(<<e, e>>) = 2 BY <2>1, TwoBlocks
    <2>3. <<e, e, e>> \in Seq(Seq(Instrs(m))) /\ Len(<<e, e, e>>) = 3 BY <2>1, ThreeBlocks
    <2>4. CASE Stmt.else = <<>>
      <3>1. x = <<e, e>> /\ m = n + 2 BY <1>9, <1>10, <2>4
      <3> QED BY <1>3, <2>2, <3>1
    <2>5. CASE Stmt.else # <<>>
      <3>1. x = <<e, e, e>> /\ m = n + 3 BY <1>9, <1>10, <2>5
      <3> QED BY <1>3, <2>3, <3>1
    <2> QED BY <2>4, <2>5
  <1>14. <<CondBr(yes, no)>> \in Seq(Instrs(m)) BY <1>12, Instructions, OneInstr
  <1>15. Blocks(code', m, m) BY <1>11, <1>12, <1>13, <1>14, CodeGrows DEF IInv
  <1>16. Len(code') = m /\ Len(code) <= m BY <1>3, <1>12, <1>15 DEF Blocks
  <1>17. PICK w : w = (IF Stmt.else = <<>> THEN <<>>
                       ELSE <<Position(no)>> \o Part(Stmt.else[1]) \o <<BrIfOpen(merge)>>)
    OBVIOUS
  <1>18. PICK ts : ts = Part(Stmt.then) \o <<BrIfOpen(merge)>> \o w \o <<Position(merge)>> OBVIOUS
  <1>19. Then(ts) BY <1>3, <1>6, <1>7, <1>17, <1>18 DEF GenIf
  <1>20. /\ IsPart(Stmt.then) /\ (Stmt.else = <<>> \/ IsPart(Stmt.else[1]))
         /\ \A j \in DOMAIN loops : loops[j].depth \in Nat
    BY <1>1, AtStmtIs, LoopDepths DEF IInv, StatementOk
  <1>21. ASSUME NEW s \in States, Inside(s, loops) PROVE Goes(ts, m, s, s, loops)
    <2>1. PICK a : a = Part(Stmt.then) OBVIOUS
    <2>2. Goes(a, m, s, s, loops) BY <1>20, <1>21, <2>1, PartGoes
    <2>3. PICK b : b = <<BrIfOpen(merge)>> OBVIOUS
    <2>4. PICK c : c = <<Position(merge)>> OBVIOUS
    <2>5. Goes(b, m, s, s, loops) /\ Goes(c, m, s, s, loops) BY <1>12, <2>3, <2>4, GlueGoes
    <2>6. Goes(w, m, s, s, loops)
      <3>1. CASE Stmt.else = <<>> BY <1>17, <3>1, GoesNil
      <3>2. CASE Stmt.else # <<>>
        <4>2. PICK g : g = Part(Stmt.else[1]) OBVIOUS
        <4>3. Goes(g, m, s, s, loops) BY <1>20, <1>21, <3>2, <4>2, PartGoes
        <4>4. PICK h : h = <<Position(no)>> OBVIOUS
        <4>5. Goes(h, m, s, s, loops) BY <1>12, <4>4, GlueGoes
        <4>6. Goes(h \o g, m, s, s, loops) BY <4>3, <4>5, GoesJoin
        <4>7. Goes((h \o g) \o b, m, s, s, loops) BY <2>5, <4>6, GoesJoin
        <4> QED BY <1>17, <2>3, <3>2, <4>2, <4>4, <4>7
      <3> QED BY <3>1, <3>2
    <2>7. Goes(a \o b, m, s, s, loops) BY <2>2, <2>5, GoesJoin
    <2>8. Goes((a \o b) \o w, m, s, s, loops) BY <2>6, <2>7, GoesJoin
    <2>9. Goes(((a \o b) \o w) \o c, m, s, s, loops) BY <2>5, <2>8, GoesJoin
    <2> QED BY <1>18, <2>1, <2>3, <2>4, <2>9
  <1>22. WorkInv' /\ WalkInv' BY <1>1, <1>2, <1>12, <1>16, <1>19, <1>21, AtStmtIs, Expand
  <1>23. LoopsInv' /\ DefersInv' BY <1>2, <1>3, <1>12, <1>16, LoopsKept, DefersKept DEF IInv
  <1>24. fall' \in 1 .. m \cup {NoBlock} BY <1>2, <1>12, <1>16, FallKept
  <1>25. cur' \in 1 .. m /\ phase' \in {"gen", "bad"} /\ lossy' \in BOOLEAN
    BY <1>1, <1>2, <1>11, <1>12, AtStmtIs DEF IInv, FlagsInv
  <1> QED BY <1>12, <1>15, <1>22, <1>23, <1>24, <1>25, Assemble

\* The tasks of a loop end with the pop of its entry.
LEMMA PopAndPosition ==
  ASSUME NEW m \in Nat, NEW end \in 1 .. m, NEW s \in States, NEW L
  PROVE  Goes(<<Todo("popLoop"), Position(end)>>, m, s, Lower(s), L)
  <1>1. PICK a : a = <<Todo("popLoop")>> OBVIOUS
  <1>2. PICK b : b = <<Position(end)>> OBVIOUS
  <1>3. Lower(s) \in States BY DEF Lower, St, States
  <1>4. Goes(a, m, s, Lower(s), L) BY <1>1, PopGoes
  <1>5. Goes(b, m, Lower(s), Lower(s), L) BY <1>2, <1>3, GlueGoes
  <1>6. Goes(a \o b, m, s, Lower(s), L) BY <1>4, <1>5, GoesJoin
  <1>7. a \o b = <<Todo("popLoop"), Position(end)>> BY <1>1, <1>2, Pair
  <1> QED BY <1>6, <1>7

LEMMA ForStep ==
  ASSUME IInv, GenFor
  PROVE  IInv'
  <1>1. AtStmt("for") BY DEF GenFor
  <1>2. UNCHANGED <<defers, depth, fall, phase>> BY DEF GenFor, xvars, rvars
  <1>3. PICK n \in Nat : n = Len(code) BY AtStmtIs, <1>1
  <1>4. PICK cond : cond = n + 1 OBVIOUS
  <1>5. PICK body : body = n + 2 OBVIOUS
  <1>6. PICK end : end = n + 3 OBVIOUS
  <1>7. PICK m \in Nat : m = n + 3 OBVIOUS
  <1>8. cond \in 1 .. m /\ body \in 1 .. m /\ end \in 1 .. m /\ n <= m BY <1>4, <1>5, <1>6, <1>7
  <1>9. PICK value : value \in BOOLEAN
                     /\ code' = Put(code, cur, <<Br(cond)>>) \o
                                 <<<<IF value THEN CondBr(body, end) ELSE Br(body)>>, <<>>, <<>>>>
    BY <1>3, <1>4, <1>5, <1>6 DEF GenFor
  <1>9a. PICK i : i = IF value THEN CondBr(body, end) ELSE Br(body) OBVIOUS
  <1>9b. PICK a : a = <<i>> OBVIOUS
  <1>10. PICK e : e = <<>> OBVIOUS
  <1>11. PICK x : x = <<a, e, e>> OBVIOUS
  <1>12. code' = Put(code, cur, <<Br(cond)>>) \o x /\ cur' = body /\ PushLoop(cond, end)
    BY <1>3, <1>4, <1>5, <1>6, <1>9, <1>9a, <1>9b, <1>10, <1>11 DEF GenFor
  <1>13. a \in Seq(Instrs(m)) /\ e \in Seq(Instrs(m)) /\ <<Br(cond)>> \in Seq(Instrs(m))
    <2>1. i \in Instrs(m) BY <1>8, <1>9a, Instructions
    <2> QED BY <1>8, <1>10, <1>9b, <2>1, Instructions, OneInstr, NoInstr
  <1>14. x \in Seq(Seq(Instrs(m))) /\ Len(x) = 3 BY <1>11, <1>13, ThreeBlocks
  <1>15. m = Len(code) + Len(x) BY <1>3, <1>7, <1>14
  <1>16. Blocks(code', m, m) BY <1>12, <1>13, <1>14, <1>15, CodeGrows DEF IInv
  <1>17. Len(code') = m /\ Len(code) <= m BY <1>3, <1>8, <1>16 DEF Blocks
  <1>18. PICK ts : ts = Part(Stmt.body) \o <<BrIfOpen(cond), Todo("popLoop"), Position(end)>> OBVIOUS
  <1>19. Then(ts) BY <1>3, <1>4, <1>6, <1>18 DEF GenFor
  <1>20. IsPart(Stmt.body) BY <1>1, AtStmtIs DEF StatementOk
  <1>21. ASSUME NEW L, NEW s, s \in States, Inside(s, L), \A j \in DOMAIN L : L[j].depth \in Nat
         PROVE  Goes(ts, m, s, Lower(s), L)
    <2>1. PICK c : c = Part(Stmt.body) OBVIOUS
    <2>2. Goes(c, m, s, s, L) BY <1>20, <1>21, <2>1, PartGoes
    <2>3. PICK b : b = <<BrIfOpen(cond)>> OBVIOUS
    <2>4. Goes(b, m, s, s, L) BY <1>8, <1>21, <2>3, GlueGoes
    <2>5. PICK p : p = <<Todo("popLoop"), Position(end)>> OBVIOUS
    <2>6. Goes(p, m, s, Lower(s), L) BY <1>8, <1>21, <2>5, PopAndPosition
    <2>7. Goes(b \o p, m, s, Lower(s), L) BY <2>4, <2>6, GoesJoin
    <2>8. Goes(c \o (b \o p), m, s, Lower(s), L) BY <2>2, <2>7, GoesJoin
    <2>9. b \o p = <<BrIfOpen(cond), Todo("popLoop"), Position(end)>> BY <2>3, <2>5, Triple
    <2> QED BY <1>18, <2>1, <2>8, <2>9
  <1>22. WorkInv' /\ WalkInv' /\ LoopsInv'
    <2>1. cond \in 1 .. Len(code') \cup {NoBlock} /\ end \in 1 .. Len(code') BY <1>8, <1>17
    <2>2. phase = "gen" /\ work # <<>> /\ Task.do = "gen" BY <1>1, AtStmtIs
    <2>3. \A L, s : s \in States /\ Inside(s, L) /\ (\A j \in DOMAIN L : L[j].depth \in Nat)
                      => Goes(ts, Len(code'), s, Lower(s), L)
      BY <1>17, <1>21
    <2> QED BY <1>2, <1>12, <1>17, <1>19, <2>1, <2>2, <2>3, PushExpand
  <1>23. DefersInv' BY <1>2, DefersKept DEF IInv
  <1>24. fall' \in 1 .. m \cup {NoBlock} BY <1>2, <1>17, FallKept
  <1>25. cur' \in 1 .. m /\ phase' \in {"gen", "bad"}
    BY <1>1, <1>2, <1>8, <1>12, AtStmtIs
  <1>26. lossy' \in BOOLEAN BY DEF GenFor
  <1> QED BY <1>16, <1>22, <1>23, <1>24, <1>25, <1>26, Assemble

LEMMA ForDoStep ==
  ASSUME IInv, GenForDo
  PROVE  IInv'
  <1>1. AtStmt("for") /\ Stmt.body.single BY DEF GenForDo
  <1>2. UNCHANGED <<defers, depth, fall, phase>> BY DEF GenForDo, xvars, rvars
  <1>3. PICK n \in Nat : n = Len(code) BY AtStmtIs, <1>1
  <1>4. PICK cond : cond = n + 1 OBVIOUS
  <1>5. PICK body : body = n + 2 OBVIOUS
  <1>6. PICK end : end = n + 3 OBVIOUS
  <1>7. PICK m \in Nat : m = n + 3 OBVIOUS
  <1>8. cond \in 1 .. m /\ body \in 1 .. m /\ end \in 1 .. m /\ n <= m BY <1>4, <1>5, <1>6, <1>7
  <1>9. PICK e : e = <<>> OBVIOUS
  <1>10. PICK x : x = <<e, e, e>> OBVIOUS
  <1>11. code' = Put(code, cur, <<Br(cond)>>) \o x /\ cur' = cond /\ PushLoop(cond, end)
    BY <1>3, <1>4, <1>5, <1>6, <1>9, <1>10 DEF GenForDo
  <1>12. PICK value : /\ value \in BOOLEAN /\ lossy' \in BOOLEAN
                      /\ Then(GenAll(Stmt.body.list) \o
                              <<IF value THEN CondBranch(body, end) ELSE Branch(body), Position(body),
                                BrIfOpen(cond), Todo("popLoop"), Position(end)>>)
    BY <1>3, <1>4, <1>5, <1>6 DEF GenForDo
  <1>13. e \in Seq(Instrs(m)) /\ <<Br(cond)>> \in Seq(Instrs(m))
    BY <1>8, <1>9, Instructions, OneInstr, NoInstr
  <1>14. x \in Seq(Seq(Instrs(m))) /\ Len(x) = 3 BY <1>10, <1>13, ThreeBlocks
  <1>15. m = Len(code) + Len(x) BY <1>3, <1>7, <1>14
  <1>16. Blocks(code', m, m) BY <1>11, <1>13, <1>14, <1>15, CodeGrows DEF IInv
  <1>17. Len(code') = m /\ Len(code) <= m BY <1>3, <1>8, <1>16 DEF Blocks
  <1>18. PICK g : g = IF value THEN CondBranch(body, end) ELSE Branch(body) OBVIOUS
  <1>19. PICK c : c = GenAll(Stmt.body.list) OBVIOUS
  <1>20. PICK ts : ts = c \o <<g, Position(body), BrIfOpen(cond), Todo("popLoop"), Position(end)>> OBVIOUS
  <1>21. Then(ts) BY <1>12, <1>18, <1>19, <1>20
  <1>22. IsPart(Stmt.body) BY <1>1, AtStmtIs DEF StatementOk
  <1>23. ASSUME NEW L, NEW s, s \in States, Inside(s, L), \A j \in DOMAIN L : L[j].depth \in Nat
         PROVE  Goes(ts, m, s, Lower(s), L)
    <2>1. Goes(c, m, s, s, L)
      <3>1. Part(Stmt.body) = c BY <1>1, <1>19 DEF Part
      <3> QED BY <1>22, <1>23, <3>1, PartGoes
    <2>2. PICK h : h = <<g>> OBVIOUS
    <2>3. Goes(h, m, s, s, L)
      <3>1. CASE value
        <4>1. g = CondBranch(body, end) BY <1>18, <3>1
        <4>2. Goes(<<CondBranch(body, end)>>, m, s, s, L) BY <1>8, <1>23, GlueGoes
        <4> QED BY <2>2, <4>1, <4>2
      <3>2. CASE ~ value
        <4>1. g = Branch(body) BY <1>18, <3>2
        <4>2. Goes(<<Branch(body)>>, m, s, s, L) BY <1>8, <1>23, GlueGoes
        <4> QED BY <2>2, <4>1, <4>2
      <3> QED BY <3>1, <3>2
    <2>4. PICK q : q = <<Position(body)>> OBVIOUS
    <2>5. PICK b : b = <<BrIfOpen(cond)>> OBVIOUS
    <2>6. Goes(q, m, s, s, L) /\ Goes(b, m, s, s, L) BY <1>8, <1>23, <2>4, <2>5, GlueGoes
    <2>7. PICK p : p = <<Todo("popLoop"), Position(end)>> OBVIOUS
    <2>8. Goes(p, m, s, Lower(s), L) BY <1>8, <1>23, <2>7, PopAndPosition
    <2>9. Goes(b \o p, m, s, Lower(s), L) BY <2>6, <2>8, GoesJoin
    <2>10. Goes(q \o (b \o p), m, s, Lower(s), L) BY <2>6, <2>9, GoesJoin
    <2>11. Goes(h \o (q \o (b \o p)), m, s, Lower(s), L) BY <2>3, <2>10, GoesJoin
    <2>12. Goes(c \o (h \o (q \o (b \o p))), m, s, Lower(s), L) BY <2>1, <2>11, GoesJoin
    <2>13. b \o p = <<BrIfOpen(cond), Todo("popLoop"), Position(end)>> BY <2>5, <2>7, Triple
    <2>14. q \o (b \o p) = <<Position(body), BrIfOpen(cond), Todo("popLoop"), Position(end)>>
      BY <2>4, <2>13, Quadruple
    <2>15. h \o (q \o (b \o p)) = <<g, Position(body), BrIfOpen(cond), Todo("popLoop"), Position(end)>>
      BY <2>2, <2>14, Quintuple
    <2> QED BY <1>20, <2>12, <2>15
  <1>24. WorkInv' /\ WalkInv' /\ LoopsInv'
    <2>1. cond \in 1 .. Len(code') \cup {NoBlock} /\ end \in 1 .. Len(code') BY <1>8, <1>17
    <2>2. phase = "gen" /\ work # <<>> /\ Task.do = "gen" BY <1>1, AtStmtIs
    <2>3. \A L, s : s \in States /\ Inside(s, L) /\ (\A j \in DOMAIN L : L[j].depth \in Nat)
                      => Goes(ts, Len(code'), s, Lower(s), L)
      BY <1>17, <1>23
    <2> QED BY <1>2, <1>11, <1>17, <1>21, <2>1, <2>2, <2>3, PushExpand
  <1>25. DefersInv' BY <1>2, DefersKept DEF IInv
  <1>26. fall' \in 1 .. m \cup {NoBlock} BY <1>2, <1>17, FallKept
  <1>27. cur' \in 1 .. m /\ phase' \in {"gen", "bad"} BY <1>1, <1>2, <1>8, <1>11, AtStmtIs
  <1> QED BY <1>12, <1>16, <1>24, <1>25, <1>26, <1>27, Assemble

LEMMA RangeStep ==
  ASSUME IInv, GenRange
  PROVE  IInv'
  <1>1. AtStmt("range") BY DEF GenRange
  <1>2. UNCHANGED <<defers, depth, fall, phase>> BY DEF GenRange, xvars, rvars
  <1>3. PICK n \in Nat : n = Len(code) BY AtStmtIs, <1>1
  <1>4. PICK cond : cond = n + 1 OBVIOUS
  <1>5. PICK body : body = n + 2 OBVIOUS
  <1>6. PICK inc : inc = n + 3 OBVIOUS
  <1>7. PICK end : end = n + 4 OBVIOUS
  <1>8. PICK m \in Nat : m = n + 4 OBVIOUS
  <1>9. cond \in 1 .. m /\ body \in 1 .. m /\ inc \in 1 .. m /\ end \in 1 .. m /\ n <= m
    BY <1>4, <1>5, <1>6, <1>7, <1>8
  <1>10. PICK a : a = <<CondBr(body, end)>> OBVIOUS
  <1>11. PICK e : e = <<>> OBVIOUS
  <1>12. PICK x : x = <<a, e, e, e>> OBVIOUS
  <1>13. code' = Put(code, cur, <<Br(cond)>>) \o x /\ cur' = body /\ PushLoop(inc, end)
    BY <1>3, <1>4, <1>5, <1>6, <1>7, <1>10, <1>11, <1>12 DEF GenRange
  <1>14. a \in Seq(Instrs(m)) /\ e \in Seq(Instrs(m)) /\ <<Br(cond)>> \in Seq(Instrs(m))
    BY <1>9, <1>10, <1>11, Instructions, OneInstr, NoInstr
  <1>15. x \in Seq(Seq(Instrs(m))) /\ Len(x) = 4 BY <1>12, <1>14, FourBlocks
  <1>16. m = Len(code) + Len(x) BY <1>3, <1>8, <1>15
  <1>17. Blocks(code', m, m) BY <1>13, <1>14, <1>15, <1>16, CodeGrows DEF IInv
  <1>18. Len(code') = m /\ Len(code) <= m BY <1>3, <1>9, <1>17 DEF Blocks
  <1>19. PICK ts : ts = Part(Stmt.body) \o <<BrIfOpen(inc), Position(inc), Branch(cond), Todo("popLoop"), Position(end)>>
    OBVIOUS
  <1>20. Then(ts) BY <1>3, <1>4, <1>6, <1>7, <1>19 DEF GenRange
  <1>21. IsPart(Stmt.body) BY <1>1, AtStmtIs DEF StatementOk
  <1>22. ASSUME NEW L, NEW s, s \in States, Inside(s, L), \A j \in DOMAIN L : L[j].depth \in Nat
         PROVE  Goes(ts, m, s, Lower(s), L)
    <2>1. PICK c : c = Part(Stmt.body) OBVIOUS
    <2>2. Goes(c, m, s, s, L) BY <1>21, <1>22, <2>1, PartGoes
    <2>3. PICK b : b = <<BrIfOpen(inc)>> OBVIOUS
    <2>4. PICK g : g = <<Position(inc)>> OBVIOUS
    <2>5. PICK h : h = <<Branch(cond)>> OBVIOUS
    <2>6. Goes(b, m, s, s, L) /\ Goes(g, m, s, s, L) /\ Goes(h, m, s, s, L)
      BY <1>9, <1>22, <2>3, <2>4, <2>5, GlueGoes
    <2>7. PICK p : p = <<Todo("popLoop"), Position(end)>> OBVIOUS
    <2>8. Goes(p, m, s, Lower(s), L) BY <1>9, <1>22, <2>7, PopAndPosition
    <2>9. Goes(h \o p, m, s, Lower(s), L) BY <2>6, <2>8, GoesJoin
    <2>10. Goes(g \o (h \o p), m, s, Lower(s), L) BY <2>6, <2>9, GoesJoin
    <2>11. Goes(b \o (g \o (h \o p)), m, s, Lower(s), L) BY <2>6, <2>10, GoesJoin
    <2>12. Goes(c \o (b \o (g \o (h \o p))), m, s, Lower(s), L) BY <2>2, <2>11, GoesJoin
    <2>13. h \o p = <<Branch(cond), Todo("popLoop"), Position(end)>> BY <2>5, <2>7, Triple
    <2>14. g \o (h \o p) = <<Position(inc), Branch(cond), Todo("popLoop"), Position(end)>>
      BY <2>4, <2>13, Quadruple
    <2>15. b \o (g \o (h \o p)) = <<BrIfOpen(inc), Position(inc), Branch(cond), Todo("popLoop"), Position(end)>>
      BY <2>3, <2>14, Quintuple
    <2> QED BY <1>19, <2>1, <2>12, <2>15
  <1>23. WorkInv' /\ WalkInv' /\ LoopsInv'
    <2>1. inc \in 1 .. Len(code') \cup {NoBlock} /\ end \in 1 .. Len(code') BY <1>9, <1>18
    <2>2. phase = "gen" /\ work # <<>> /\ Task.do = "gen" BY <1>1, AtStmtIs
    <2>3. \A L, s : s \in States /\ Inside(s, L) /\ (\A j \in DOMAIN L : L[j].depth \in Nat)
                      => Goes(ts, Len(code'), s, Lower(s), L)
      BY <1>18, <1>22
    <2> QED BY <1>2, <1>13, <1>18, <1>20, <2>1, <2>2, <2>3, PushExpand
  <1>24. DefersInv' BY <1>2, DefersKept DEF IInv
  <1>25. fall' \in 1 .. m \cup {NoBlock} BY <1>2, <1>18, FallKept
  <1>26. cur' \in 1 .. m /\ phase' \in {"gen", "bad"}
    BY <1>1, <1>2, <1>9, <1>13, AtStmtIs
  <1>27. lossy' \in BOOLEAN BY DEF GenRange
  <1> QED BY <1>17, <1>23, <1>24, <1>25, <1>26, <1>27, Assemble

\* Lists of tasks that each come back, and then the pop of the entry.
LEMMA ListsGo ==
  ASSUME NEW n, NEW q, NEW c \in Nat, DOMAIN q = 1 .. c, q = [k \in 1 .. c |-> q[k]],
         NEW s \in States, NEW L, \A k \in 1 .. c : Goes(q[k], n, s, s, L)
  PROVE  Goes(FlattenSeq(q), n, s, s, L)
  <1>1. PICK T : T = Tasks(n) OBVIOUS
  <1>2. \A k \in 1 .. c : q[k] \in Seq(T) /\ Walk(q[k], s, s, L) BY <1>1 DEF Goes
  <1>3. PICK B : B = Seq(T) OBVIOUS
  <1>4. q \in Seq(B) /\ Len(q) = c BY <1>2, <1>3
  <1>5. FlattenSeq(q) \in Seq(T) /\ Walk(FlattenSeq(q), s, s, L) BY <1>2, <1>3, <1>4, WalkFlat
  <1> QED BY <1>1, <1>5 DEF Goes

LEMMA UnrollStep ==
  ASSUME IInv, GenUnroll
  PROVE  IInv'
  <1>1. AtStmt("unroll") BY DEF GenUnroll
  <1>2. UNCHANGED <<cur, defers, depth, fall, phase>> BY DEF GenUnroll, xvars, rvars
  <1>3. PICK n \in Nat : n = Len(code) BY AtStmtIs, <1>1
  <1>4. PICK end : end = n + 1 OBVIOUS
  <1>5. PICK m \in Nat : m = n + 1 OBVIOUS
  <1>6. end \in 1 .. m /\ n <= m BY <1>4, <1>5
  <1>7. PICK e : e = <<>> OBVIOUS
  <1>8. PICK x : x = <<e>> OBVIOUS
  <1>9. e \in Seq(Instrs(m)) BY <1>7, NoInstr
  <1>10. x \in Seq(Seq(Instrs(m))) /\ Len(x) = 1 BY <1>8, <1>9, OneBlock
  <1>11. Blocks(code, n, n) /\ cur \in 1 .. n BY <1>3, CodeIs DEF IInv
  <1>12. code' = code \o x
    <2>1. PICK B : B = Seq(Instrs(n)) OBVIOUS
    <2>2. code \in Seq(B) BY <1>11, <2>1 DEF Blocks
    <2>3. code' = Append(code, e) BY <1>7 DEF GenUnroll
    <2> QED BY <1>8, <2>2, <2>3
  <1>13. Blocks(code', m, m)
    <2>1. n + Len(x) = m BY <1>5, <1>10
    <2>2. Blocks(code \o x, n + Len(x), m) BY <1>6, <1>10, <1>11, MoreBlocks
    <2> QED BY <1>12, <2>1, <2>2
  <1>14. Len(code') = m /\ Len(code) <= m BY <1>3, <1>6, <1>13 DEF Blocks
  <1>15. PICK q : q = [k \in 1 .. Stmt.count |-> Part(Stmt.body)] OBVIOUS
  <1>16. PICK ts : ts = FlattenSeq(q) \o <<Todo("lastCopy"), Todo("popLoop"), Position(end)>> OBVIOUS
  <1>17. Then(ts) /\ PushLoop(end, end) BY <1>3, <1>4, <1>15, <1>16 DEF GenUnroll
  <1>18. IsPart(Stmt.body) /\ Stmt.count \in Nat BY <1>1, AtStmtIs DEF StatementOk
  <1>19. ASSUME NEW L, NEW s, s \in States, Inside(s, L), \A j \in DOMAIN L : L[j].depth \in Nat
         PROVE  Goes(ts, m, s, Lower(s), L)
    <2>1. PICK a : a = Part(Stmt.body) OBVIOUS
    <2>2. Goes(a, m, s, s, L) BY <1>18, <1>19, <2>1, PartGoes
    <2>3. PICK c \in Nat : c = Stmt.count BY <1>18
    <2>4. q = [k \in 1 .. c |-> a] BY <1>15, <2>1, <2>3
    <2>5. DOMAIN q = 1 .. c /\ q = [k \in 1 .. c |-> q[k]] BY <2>4
    <2>6. \A k \in 1 .. c : Goes(q[k], m, s, s, L) BY <2>2, <2>4
    <2>7. Goes(FlattenSeq(q), m, s, s, L) BY <1>19, <2>5, <2>6, ListsGo
    <2>8. PICK p : p = <<Todo("popLoop"), Position(end)>> OBVIOUS
    <2>9. Goes(p, m, s, Lower(s), L) BY <1>6, <1>19, <2>8, PopAndPosition
    <2>10. PICK l : l = <<Todo("lastCopy")>> OBVIOUS
    <2>11. Goes(l, m, s, s, L) BY <1>6, <1>19, <2>10, GlueGoes
    <2>12. Goes(l \o p, m, s, Lower(s), L) BY <2>9, <2>11, GoesJoin
    <2>13. Goes(FlattenSeq(q) \o (l \o p), m, s, Lower(s), L) BY <2>7, <2>12, GoesJoin
    <2>14. l \o p = <<Todo("lastCopy"), Todo("popLoop"), Position(end)>> BY <2>8, <2>10, Triple
    <2> QED BY <1>16, <2>13, <2>14
  <1>20. WorkInv' /\ WalkInv' /\ LoopsInv'
    <2>1. end \in 1 .. Len(code') BY <1>6, <1>14
    <2>2. phase = "gen" /\ work # <<>> /\ Task.do = "gen" BY <1>1, AtStmtIs
    <2>3. \A L, s : s \in States /\ Inside(s, L) /\ (\A j \in DOMAIN L : L[j].depth \in Nat)
                      => Goes(ts, Len(code'), s, Lower(s), L)
      BY <1>14, <1>19
    <2> QED BY <1>2, <1>14, <1>17, <2>1, <2>2, <2>3, PushExpand
  <1>21. DefersInv' BY <1>2, DefersKept DEF IInv
  <1>22. fall' \in 1 .. m \cup {NoBlock} BY <1>2, <1>14, FallKept
  <1>23. cur' \in 1 .. m /\ phase' \in {"gen", "bad"}
    BY <1>1, <1>2, <1>3, <1>6, <1>11, AtStmtIs
  <1>24. lossy' \in BOOLEAN BY DEF GenUnroll
  <1> QED BY <1>13, <1>20, <1>21, <1>22, <1>23, <1>24, Assemble

\* One case: compare, statements, end; the fallthrough target is gone after it.
LEMMA CaseGoes ==
  ASSUME NEW m \in Nat, NEW ss \in Seq(Statements), NEW s \in States, NEW L, LoopsAround(s, L),
         \A j \in DOMAIN L : L[j].depth \in Nat,
         NEW c \in 1 .. m, NEW miss \in 1 .. m, NEW next \in 1 .. m, NEW end \in 1 .. m
  PROVE  Goes(<<BeginCase(c, miss, next)>> \o GenAll(ss) \o <<EndCase(end, FALSE)>>, m, s, s, L)
  <1>1. PICK b : b = BeginCase(c, miss, next) OBVIOUS
  <1>2. PICK e : e = EndCase(end, FALSE) OBVIOUS
  <1>3. b \in Tasks(m) /\ b.do = "beginCase" BY <1>1 DEF BeginCase, Tasks
  <1>4. e \in Tasks(m) /\ e.do = "endCase" /\ e.isDefault = FALSE BY <1>2 DEF EndCase, Tasks
  <1>5. PICK u : u = Deeper(s, 1) OBVIOUS
  <1>6. u \in States /\ u.d = s.d + 1 /\ u.n = s.n /\ u.f = 1 BY <1>5, DeeperIs
  <1>7. Move(b, s, u) BY <1>3, <1>6 DEF Move
  <1>8. Move(e, u, s) BY <1>4, <1>6 DEF Move
  <1>9. Goes(<<b>>, m, s, u, L) BY <1>3, <1>6, <1>7, GoesOne
  <1>10. Goes(<<e>>, m, u, s, L) BY <1>4, <1>6, <1>8, GoesOne
  <1>11. Inside(u, L) BY <1>5, DeeperInside
  <1>12. Goes(GenAll(ss), m, u, u, L) BY <1>6, <1>11, GensGo
  <1>13. Goes(<<b>> \o GenAll(ss), m, s, u, L) BY <1>9, <1>12, GoesJoin
  <1>14. Goes((<<b>> \o GenAll(ss)) \o <<e>>, m, s, s, L) BY <1>10, <1>13, GoesJoin
  <1> QED BY <1>1, <1>2, <1>14

LEMMA DefaultGoes ==
  ASSUME NEW m \in Nat, NEW ss \in Seq(Statements), NEW s \in States, NEW L, LoopsAround(s, L),
         \A j \in DOMAIN L : L[j].depth \in Nat,
         NEW default \in 1 .. m, NEW end \in 1 .. m
  PROVE  Goes(<<Position(default), Todo("open")>> \o GenAll(ss) \o <<EndCase(end, TRUE)>>, m, s, s, L)
  <1>1. PICK p : p = <<Position(default)>> OBVIOUS
  <1>2. PICK o : o = Todo("open") OBVIOUS
  <1>3. PICK e : e = EndCase(end, TRUE) OBVIOUS
  <1>4. o \in Tasks(m) /\ o.do = "open" BY <1>2 DEF Todo, Tasks
  <1>5. e \in Tasks(m) /\ e.do = "endCase" BY <1>3 DEF EndCase, Tasks
  <1>6. s.f \in {0, 1} BY DEF States
  <1>7. PICK u : u = Deeper(s, s.f) OBVIOUS
  <1>8. u \in States /\ u.d = s.d + 1 /\ u.n = s.n /\ u.f = s.f BY <1>6, <1>7, DeeperIs
  <1>9. Move(o, s, u) BY <1>4, <1>8 DEF Move
  <1>10. Move(e, u, s) BY <1>5, <1>8 DEF Move
  <1>11. Goes(<<o>>, m, s, u, L) BY <1>4, <1>8, <1>9, GoesOne
  <1>12. Goes(<<e>>, m, u, s, L) BY <1>5, <1>8, <1>10, GoesOne
  <1>13. Inside(u, L) BY <1>6, <1>7, DeeperInside
  <1>14. Goes(GenAll(ss), m, u, u, L) BY <1>8, <1>13, GensGo
  <1>15. Goes(p, m, s, s, L) BY <1>1, GlueGoes
  <1>16. Goes(p \o <<o>>, m, s, u, L) BY <1>11, <1>15, GoesJoin
  <1>17. Goes((p \o <<o>>) \o GenAll(ss), m, s, u, L) BY <1>14, <1>16, GoesJoin
  <1>18. Goes(((p \o <<o>>) \o GenAll(ss)) \o <<e>>, m, s, s, L) BY <1>12, <1>17, GoesJoin
  <1>19. p \o <<o>> = <<Position(default), Todo("open")>> BY <1>1, <1>2, Pair
  <1> QED BY <1>3, <1>18, <1>19

LEMMA SwitchStep ==
  ASSUME IInv, GenSwitch
  PROVE  IInv'
  <1> DEFINE none == Stmt.default = <<>>
             c0 == Len(Stmt.cases)
             d0 == Len(code) + (IF c0 = 0 THEN 1 ELSE 2 * c0)
             e0 == IF none THEN d0 ELSE d0 + 1
             miss0(k) == IF k < c0 THEN Len(code) + c0 + k ELSE IF none THEN e0 ELSE d0
             next0(k) == IF k < c0 THEN Len(code) + k + 1 ELSE IF none THEN e0 ELSE d0
             branch0(k) == <<BeginCase(Len(code) + k, miss0(k), next0(k))>> \o GenAll(Stmt.cases[k])
                             \o <<EndCase(e0, FALSE)>> \o (IF k < c0 THEN <<Position(miss0(k))>> ELSE <<>>)
             q0 == [k \in 1 .. c0 |-> branch0(k)]
             w0 == IF none THEN <<>>
                   ELSE <<Position(d0), Todo("open")>> \o GenAll(Stmt.default[1]) \o <<EndCase(e0, TRUE)>>
             x0 == [k \in 1 .. e0 - Len(code) |-> <<>>]
  <1>1. AtStmt("switch") BY DEF GenSwitch
  <1>2. UNCHANGED <<cur, defers, depth, fall, phase>> BY DEF GenSwitch, xvars, rvars
  <1>3. code' = code \o x0 /\ PushLoop(NoBlock, e0) BY DEF GenSwitch
  <1>4. Then(FlattenSeq(q0) \o w0 \o <<Todo("popLoop"), Position(e0)>>) BY DEF GenSwitch
  <1>5. Stmt.cases \in Seq(Seq(Statements)) /\ Stmt.default \in Seq(Seq(Statements))
    BY <1>1, AtStmtIs DEF StatementOk
  <1>6. PICK n \in Nat : n = Len(code) BY AtStmtIs, <1>1
  <1>7. PICK S : S = Seq(Statements) OBVIOUS
  <1>8. PICK cs \in Seq(S) : cs = Stmt.cases BY <1>5, <1>7
  <1>9. PICK c \in Nat : c = Len(cs) OBVIOUS
  <1>10. c0 = c /\ \A k \in 1 .. c : Stmt.cases[k] \in Seq(Statements) BY <1>7, <1>8, <1>9
  <1>11. PICK d : d = d0 OBVIOUS
  <1>12. PICK e : e = e0 OBVIOUS
  <1>13. d = n + (IF c = 0 THEN 1 ELSE 2 * c) BY <1>6, <1>10, <1>11
  <1>14. e = d \/ e = d + 1 BY <1>11, <1>12
  <1>15. PICK m \in Nat : m = e /\ n < m BY <1>13, <1>14
  <1>16. d \in 1 .. m /\ e \in 1 .. m BY <1>13, <1>14, <1>15
  <1>17. ASSUME NEW k \in 1 .. c
         PROVE  n + k \in 1 .. m /\ miss0(k) \in 1 .. m /\ next0(k) \in 1 .. m
    <2>1. c # 0 BY <1>17
    <2>2. n + 2 * c <= m BY <1>13, <1>14, <1>15, <2>1
    <2>3. n + k \in 1 .. m BY <1>17, <2>2
    <2>4. CASE k < c
      <3>1. miss0(k) = n + c + k /\ next0(k) = n + k + 1 BY <1>6, <1>10, <2>4
      <3>2. n + c + k \in 1 .. m /\ n + k + 1 \in 1 .. m BY <1>17, <2>2, <2>4
      <3> QED BY <2>3, <3>1, <3>2
    <2>5. CASE ~ k < c
      <3>1. miss0(k) \in {d, e} /\ next0(k) \in {d, e} BY <1>6, <1>10, <1>11, <1>12, <2>5
      <3> QED BY <1>16, <2>3, <3>1
    <2> QED BY <2>4, <2>5
  <1>18. PICK x : x = x0 OBVIOUS
  <1>19. x \in Seq(Seq(Instrs(m))) /\ Len(x) = m - n
    <2>1. PICK B : B = Seq(Instrs(m)) OBVIOUS
    <2>2. PICK o \in B : o = <<>> BY <2>1, NoInstr
    <2>3. m - n \in Nat BY <1>15
    <2>4. x = [k \in 1 .. m - n |-> o] BY <1>6, <1>12, <1>15, <1>18, <2>2
    <2>5. x \in Seq(B) /\ Len(x) = m - n BY <2>3, <2>4
    <2> QED BY <2>1, <2>5
  <1>20. Blocks(code, n, n) /\ cur \in 1 .. n BY <1>6, CodeIs DEF IInv
  <1>21. Blocks(code', m, m)
    <2>1. n + Len(x) = m /\ n <= m BY <1>15, <1>19
    <2>2. Blocks(code \o x, n + Len(x), m) BY <1>19, <1>20, <2>1, MoreBlocks
    <2> QED BY <1>3, <1>18, <2>1, <2>2
  <1>22. Len(code') = m /\ Len(code) <= m BY <1>6, <1>15, <1>21 DEF Blocks
  <1>23. PICK q : q = q0 OBVIOUS
  <1>24. PICK w : w = w0 OBVIOUS
  <1>25. PICK ts : ts = FlattenSeq(q) \o w \o <<Todo("popLoop"), Position(e)>> OBVIOUS
  <1>26. Then(ts) /\ PushLoop(NoBlock, e) BY <1>3, <1>4, <1>12, <1>23, <1>24, <1>25
  <1>27. DOMAIN q = 1 .. c /\ q = [k \in 1 .. c |-> q[k]] /\ \A k \in 1 .. c : q[k] = branch0(k)
    BY <1>10, <1>23
  <1>28. ASSUME NEW L, NEW s, s \in States, Inside(s, L), \A j \in DOMAIN L : L[j].depth \in Nat
         PROVE  Goes(ts, m, s, Lower(s), L)
    <2>0. LoopsAround(s, L) BY <1>28, InsideAround
    <2>1. ASSUME NEW k \in 1 .. c PROVE Goes(q[k], m, s, s, L)
      <3>1. PICK mi \in 1 .. m : mi = miss0(k) BY <1>17
      <3>2. PICK ne \in 1 .. m : ne = next0(k) BY <1>17
      <3>3. PICK ca \in 1 .. m : ca = Len(code) + k BY <1>6, <1>17
      <3>4. PICK ss \in Seq(Statements) : ss = Stmt.cases[k] BY <1>10
      <3>5. PICK a : a = <<BeginCase(ca, mi, ne)>> \o GenAll(ss) \o <<EndCase(e, FALSE)>> OBVIOUS
      <3>6. Goes(a, m, s, s, L) BY <1>16, <1>28, <2>0, <3>5, CaseGoes
      <3>7. PICK z : z = IF k < c0 THEN <<Position(mi)>> ELSE <<>> OBVIOUS
      <3>8. Goes(z, m, s, s, L)
        <4>1. Goes(<<Position(mi)>>, m, s, s, L) BY <1>28, GlueGoes
        <4>2. Goes(<<>>, m, s, s, L) BY <1>28, GoesNil
        <4> QED BY <3>7, <4>1, <4>2
      <3>9. Goes(a \o z, m, s, s, L) BY <3>6, <3>8, GoesJoin
      <3>10. branch0(k) = a \o z BY <1>12, <3>1, <3>2, <3>3, <3>4, <3>5, <3>7
      <3> QED BY <1>27, <2>1, <3>9, <3>10
    <2>2. Goes(FlattenSeq(q), m, s, s, L)
      <3> HIDE DEF branch0
      <3>1. DOMAIN q = 1 .. c /\ q = [k \in 1 .. c |-> q[k]] BY <1>27
      <3>2. \A k \in 1 .. c : Goes(q[k], m, s, s, L) BY <2>1
      <3> QED BY <1>28, <3>1, <3>2, ListsGo
    <2>3. Goes(w, m, s, s, L)
      <3>1. CASE none
        <4>1. w = <<>> BY <1>24, <3>1
        <4> QED BY <1>28, <4>1, GoesNil
      <3>2. CASE ~ none
        <4>1. Stmt.default[1] \in Seq(Statements)
          <5>1. PICK y \in Seq(S) : y = Stmt.default BY <1>5, <1>7
          <5>2. y # <<>> BY <3>2, <5>1
          <5>3. 1 \in 1 .. Len(y) BY <5>1, <5>2, EmptySeq
          <5>4. y[1] \in S BY <5>1, <5>3
          <5> QED BY <1>7, <5>1, <5>4
        <4>2. PICK ss \in Seq(Statements) : ss = Stmt.default[1] BY <4>1
        <4>3. w = <<Position(d), Todo("open")>> \o GenAll(ss) \o <<EndCase(e, TRUE)>>
          BY <1>11, <1>12, <1>24, <3>2, <4>2
        <4>4. Goes(<<Position(d), Todo("open")>> \o GenAll(ss) \o <<EndCase(e, TRUE)>>, m, s, s, L)
          BY <1>16, <1>28, <2>0, DefaultGoes
        <4> QED BY <4>3, <4>4
      <3> QED BY <3>1, <3>2
    <2>4. PICK p : p = <<Todo("popLoop"), Position(e)>> OBVIOUS
    <2>5. Goes(p, m, s, Lower(s), L) BY <1>16, <1>28, <2>4, PopAndPosition
    <2>6. Goes(FlattenSeq(q) \o w, m, s, s, L) BY <2>2, <2>3, GoesJoin
    <2>7. Goes((FlattenSeq(q) \o w) \o p, m, s, Lower(s), L) BY <2>5, <2>6, GoesJoin
    <2> QED BY <1>25, <2>4, <2>7
  <1> HIDE DEF none, c0, d0, e0, miss0, next0, branch0, q0, w0, x0
  <1>29. WorkInv' /\ WalkInv' /\ LoopsInv'
    <2>1. e \in 1 .. Len(code') /\ NoBlock \in 1 .. Len(code') \cup {NoBlock} BY <1>16, <1>22
    <2>2. phase = "gen" /\ work # <<>> /\ Task.do = "gen" BY <1>1, AtStmtIs
    <2>3. \A L, s : s \in States /\ Inside(s, L) /\ (\A j \in DOMAIN L : L[j].depth \in Nat)
                      => Goes(ts, Len(code'), s, Lower(s), L)
      BY <1>22, <1>28
    <2> QED BY <1>2, <1>22, <1>26, <2>1, <2>2, <2>3, PushExpand
  <1>30. DefersInv' BY <1>2, DefersKept DEF IInv
  <1>31. fall' \in 1 .. m \cup {NoBlock} BY <1>2, <1>22, FallKept
  <1>32. cur' \in 1 .. m /\ phase' \in {"gen", "bad"}
    <2>1. cur' \in 1 .. m BY <1>2, <1>15, <1>20
    <2> QED BY <1>1, <1>2, <2>1, AtStmtIs
  <1>33. lossy' \in BOOLEAN BY DEF GenSwitch
  <1> QED BY <1>21, <1>29, <1>30, <1>31, <1>32, <1>33, Assemble

-----------------------------------------------------------------------------
(* The whole behaviour.                                                    *)

LEMMA InitHolds ==
  ASSUME Init
  PROVE  IInv
  <1>1. PICK b \in Bodies : work = Compound(b) \o <<Todo("endProc")>> BY DEF Init
  <1>2. b \in Seq(Statements) BY StatementsAssumption
  <1>3. /\ code = <<<<>>>> /\ cur = 1 /\ defers = <<>> /\ loops = <<>> /\ depth = 0
        /\ fall = NoBlock /\ lossy = FALSE /\ phase = "gen"
    BY DEF Init
  <1>4. PICK e : e = <<>> OBVIOUS
  <1>5. Len(e) = 0 /\ DOMAIN e = {} /\ e \in Seq(Entry) /\ e \in Seq(LoopEntry(1)) /\ e \in Seq(Instrs(1))
    <2>1. PICK A : A = Entry OBVIOUS
    <2>2. PICK B : B = LoopEntry(1) OBVIOUS
    <2>3. PICK C : C = Instrs(1) OBVIOUS
    <2>4. e \in Seq(A) /\ e \in Seq(B) /\ e \in Seq(C) BY <1>4
    <2>5. Len(e) = 0 /\ DOMAIN e = {} BY <1>4
    <2> QED BY <2>1, <2>2, <2>3, <2>4, <2>5
  <1>6. code \in Seq(Seq(Instrs(1))) /\ Len(code) = 1
    <2>1. code = <<e>> BY <1>3, <1>4
    <2> QED BY <1>5, <2>1, OneBlock
  <1>7. CodeInv BY <1>3, <1>6 DEF CodeInv
  <1>8. FlagsInv BY <1>3 DEF FlagsInv
  <1>9. DefersInv
    <2>1. Sorted(e) BY <1>5 DEF Sorted
    <2> QED BY <1>3, <1>4, <1>5, <2>1 DEF DefersInv
  <1>10. LoopsInv BY <1>3, <1>4, <1>5, <1>6, LimitsAssumption DEF LoopsInv
  <1>11. PICK s : s = Final OBVIOUS
  <1>12. s \in States /\ s.d = 0 /\ s.n = 0 BY <1>11 DEF Final, St, States
  <1>13. Goes(work, 1, s, s, e)
    <2>1. LoopsAround(s, e) /\ \A j \in DOMAIN e : e[j].depth \in Nat BY <1>5 DEF LoopsAround
    <2>2. Goes(Compound(b), 1, s, s, e) BY <1>2, <1>12, <2>1, CompoundGoes
    <2>3. 1 \in 1 .. 1 OBVIOUS
    <2>4. Goes(<<Todo("endProc")>>, 1, s, s, e) BY <1>12, <2>3, GlueGoes
    <2>5. Goes(Compound(b) \o <<Todo("endProc")>>, 1, s, s, e) BY <2>2, <2>4, GoesJoin
    <2> QED BY <1>1, <2>5
  <1>14. WorkInv BY <1>6, <1>13 DEF WorkInv, Goes
  <1>15. WalkInv
    <2>1. loops = e /\ Len(loops) = 0 /\ depth = 0 BY <1>3, <1>4, <1>5
    <2>2. Walk(work, s, s, loops) BY <1>13, <2>1 DEF Goes
    <2>3. s = St(depth, Len(loops), 0) /\ s = St(0, 0, 0) BY <1>11, <2>1 DEF Final
    <2> QED BY <1>3, <2>2, <2>3 DEF WalkInv
  <1>16. EndInv BY <1>3 DEF EndInv
  <1> QED BY <1>7, <1>8, <1>9, <1>10, <1>14, <1>15, <1>16 DEF IInv

LEMMA GenerateStep ==
  ASSUME IInv, Generate
  PROVE  IInv'
  <1>1. CASE GenCall BY <1>1, CallStep
  <1>2. CASE GenDefer BY <1>2, DeferStep
  <1>3. CASE GenReturn BY <1>3, ReturnStep
  <1>4. CASE GenOrReturn BY <1>4, OrReturnStep
  <1>5. CASE GenBreak BY <1>5, BreakStep
  <1>6. CASE GenContinue BY <1>6, ContinueStep
  <1>7. CASE GenFallthrough BY <1>7, FallthroughStep
  <1>8. CASE OpenScope BY <1>8, OpenStep
  <1>9. CASE CloseScope BY <1>9, CloseStep
  <1>10. CASE GenIf BY <1>10, IfStep
  <1>11. CASE GenFor BY <1>11, ForStep
  <1>12. CASE GenRange BY <1>12, RangeStep
  <1>13. CASE GenUnroll BY <1>13, UnrollStep
  <1>14. CASE GenSwitch BY <1>14, SwitchStep
  <1>15. CASE GenTaglessSwitch BY <1>15, TaglessSwitchStep
  <1>16. CASE BeginCaseBody BY <1>16, BeginCaseStep
  <1>17. CASE EndCaseBody BY <1>17, EndCaseStep
  <1>18. CASE Glue BY <1>18, GlueStep
  <1>19. CASE GenProc BY <1>19, ProcStep
  <1>20. CASE EndProc BY <1>20, EndProcStep
  <1>21. CASE GenForDo BY <1>21, ForDoStep
  <1> QED BY <1>1, <1>2, <1>3, <1>4, <1>5, <1>6, <1>7, <1>8, <1>9, <1>10, <1>11, <1>12, <1>13,
             <1>14, <1>15, <1>16, <1>17, <1>18, <1>19, <1>20, <1>21 DEF Generate

\* When the work is done, its walk has nowhere to go: everything is closed.
LEMMA StartStep ==
  ASSUME IInv, Start
  PROVE  IInv'
  <1>1. phase = "gen" /\ work = <<>> /\ phase' = "run" /\ UNCHANGED gvars BY DEF Start
  <1>2. UNCHANGED <<code, cur, work, defers, loops, depth, fall, lossy>> BY <1>1 DEF gvars
  <1>3. PICK f \in {0, 1} : (fall # NoBlock => f = 1) /\ Walk(work, Here(f), Final, loops)
    BY <1>1 DEF IInv, WalkInv, Here, Final
  <1>4. Here(f) = Final
    <2>1. PICK s : s = Here(f) OBVIOUS
    <2>2. PICK z : z = Final OBVIOUS
    <2>3. Walk(<<>>, s, z, loops) BY <1>1, <1>3, <2>1, <2>2
    <2>4. s = z BY <2>3, NilStays
    <2> QED BY <2>1, <2>2, <2>4
  <1>5. Here(f).d = depth /\ Here(f).n = Len(loops) /\ Here(f).f = f BY NowIs DEF IInv
  <1>6. Final.d = 0 /\ Final.n = 0 /\ Final.f = 0 BY DEF Final, St
  <1>7. depth = 0 /\ Len(loops) = 0 /\ f = 0 BY <1>4, <1>5, <1>6
  <1>8. loops = <<>>
    <2>1. PICK X : X = LoopEntry(Len(code)) OBVIOUS
    <2>2. loops \in Seq(X) BY <2>1 DEF IInv, LoopsInv
    <2> QED BY <1>7, <2>2, EmptySeq
  <1>9. defers = <<>>
    <2>1. PICK X : X = Entry OBVIOUS
    <2>2. defers \in Seq(X) BY <2>1 DEF IInv, DefersInv
    <2>3. ASSUME defers # <<>> PROVE FALSE
      <3>1. 1 \in DOMAIN defers BY <2>2, <2>3, EmptySeq
      <3>2. 1 <= defers[1].depth /\ defers[1].depth <= 0 BY <1>7, <3>1 DEF IInv, DefersInv
      <3>3. defers[1] \in Entry BY <2>1, <2>2, <3>1
      <3> QED BY <3>2, <3>3 DEF Entry
    <2> QED BY <2>3
  <1>10. fall = NoBlock BY <1>3, <1>7
  <1>11. EndInv' BY <1>2, <1>7, <1>8, <1>9, <1>10 DEF EndInv
  <1>12. WalkInv' BY <1>1 DEF WalkInv
  <1>13. CodeInv' /\ WorkInv' BY <1>2 DEF IInv, CodeInv, WorkInv
  <1>14. FlagsInv' BY <1>1, <1>2 DEF IInv, FlagsInv
  <1>15. DefersInv' BY <1>2, DefersKept DEF IInv
  <1>16. LoopsInv' BY <1>2 DEF IInv, LoopsInv
  <1> QED BY <1>11, <1>12, <1>13, <1>14, <1>15, <1>16 DEF IInv

\* Neither execution nor interpretation touches what generation left.
LEMMA AfterwardsKeeps ==
  ASSUME RunBlock \/ StopRun \/ Interpret
  PROVE  /\ UNCHANGED gvars
         /\ phase \in {"run", "ref"}
         /\ phase' \in {"run", "ref", "done", "cut", "starved"}
  <1>1. CASE RunBlock BY <1>1 DEF RunBlock
  <1>2. CASE RefEnd
    <2>1. phase = "ref" /\ UNCHANGED gvars BY <1>2 DEF RefEnd
    <2>2. phase' \in {"ref", "done", "starved"} BY <1>2 DEF RefEnd, NextTurn
    <2> QED BY <2>1, <2>2
  <1>3. CASE RefSimple BY <1>3 DEF RefSimple, AtRef
  <1>4. CASE RefCondition BY <1>4 DEF RefCondition, AtRef
  <1>5. CASE RefSwitch BY <1>5 DEF RefSwitch, AtRef
  <1>6. CASE RefReturn BY <1>6 DEF RefReturn, AtRef
  <1>7. CASE RefNoReturn BY <1>7 DEF RefNoReturn, AtRef
  <1>8. CASE RefBreak BY <1>8 DEF RefBreak, AtRef
  <1>9. CASE RefContinue BY <1>9 DEF RefContinue, NextTurn, AtRef
  <1>10. CASE RefFallthrough BY <1>10 DEF RefFallthrough, AtRef
  <1>11. CASE StopRun BY <1>11 DEF StopRun
  <1> QED BY <1>1, <1>2, <1>3, <1>4, <1>5, <1>6, <1>7, <1>8, <1>9, <1>10, <1>11 DEF Interpret

\* What IInv says depends on nothing that a step after generation changes but the phase.
LEMMA AfterwardsStep ==
  ASSUME IInv, UNCHANGED gvars,
         \/ UNCHANGED phase
         \/ /\ phase \in {"run", "ref"}
            /\ phase' \in {"run", "ref", "done", "cut", "starved"}
  PROVE  IInv'
  <1>1. UNCHANGED <<code, cur, work, defers, loops, depth, fall, lossy>> BY DEF gvars
  <1>2. CodeInv' /\ WorkInv' BY <1>1 DEF IInv, CodeInv, WorkInv
  <1>3. FlagsInv'
    <2>1. phase' \in {"gen", "run", "ref", "done", "cut", "bad", "starved"} BY DEF IInv, FlagsInv
    <2> QED BY <1>1, <2>1 DEF IInv, FlagsInv
  <1>4. DefersInv' BY <1>1, DefersKept DEF IInv
  <1>5. LoopsInv' BY <1>1 DEF IInv, LoopsInv
  <1>6. WalkInv'
    <2>1. CASE UNCHANGED phase BY <1>1, <2>1 DEF IInv, WalkInv
    <2>2. CASE phase' \in {"run", "ref", "done", "cut", "starved"} BY <2>2 DEF WalkInv
    <2> QED BY <2>1, <2>2
  <1>7. EndInv'
    <2>1. CASE UNCHANGED phase BY <1>1, <2>1 DEF IInv, EndInv
    <2>2. CASE phase \in {"run", "ref"} BY <1>1, <2>2 DEF IInv, EndInv
    <2> QED BY <2>1, <2>2
  <1> QED BY <1>2, <1>3, <1>4, <1>5, <1>6, <1>7 DEF IInv

LEMMA NextStep ==
  ASSUME IInv, [Next]_vars
  PROVE  IInv'
  <1>1. CASE Generate BY <1>1, GenerateStep
  <1>2. CASE Start BY <1>2, StartStep
  <1>3. CASE RunBlock \/ StopRun \/ Interpret BY <1>3, AfterwardsKeeps, AfterwardsStep
  <1>4. CASE UNCHANGED vars
    <2>1. UNCHANGED gvars /\ UNCHANGED phase BY <1>4 DEF vars
    <2> QED BY <2>1, AfterwardsStep
  <1> QED BY <1>1, <1>2, <1>3, <1>4 DEF Next, Execute

\* The blocks that are left open are those that the generator was in.
LEMMA GapsGrow ==
  ASSUME [Next]_vars
  PROVE  gaps' = gaps \/ gaps' = gaps \cup {cur}
  <1>1. CASE Generate
    <2>1. CASE GenSwitch BY <2>1 DEF GenSwitch
    <2>2. CASE Glue BY <2>2 DEF Glue
    <2>3. CASE GenCall \/ GenDefer \/ GenReturn \/ GenOrReturn \/ GenFallthrough
      BY <2>3 DEF GenCall, GenDefer, GenReturn, GenOrReturn, GenFallthrough
    <2>4. CASE GenBreak \/ GenContinue BY <2>4 DEF GenBreak, GenContinue
    <2>5. CASE OpenScope \/ CloseScope \/ GenIf BY <2>5 DEF OpenScope, CloseScope, GenIf
    <2>6. CASE GenFor \/ GenForDo \/ GenRange \/ GenUnroll \/ GenTaglessSwitch
      BY <2>6 DEF GenFor, GenForDo, GenRange, GenUnroll, GenTaglessSwitch
    <2>7. CASE BeginCaseBody \/ EndCaseBody \/ GenProc \/ EndProc
      BY <2>7 DEF BeginCaseBody, EndCaseBody, GenProc, EndProc
    <2> QED BY <1>1, <2>1, <2>2, <2>3, <2>4, <2>5, <2>6, <2>7 DEF Generate
  <1>2. CASE Start BY <1>2 DEF Start, gvars
  <1>3. CASE RunBlock \/ StopRun \/ Interpret BY <1>3, AfterwardsKeeps DEF gvars
  <1>4. CASE UNCHANGED vars BY <1>4 DEF vars, gvars
  <1> QED BY <1>1, <1>2, <1>3, <1>4 DEF Next, Execute

-----------------------------------------------------------------------------
(* The theorems.                                                           *)

\* The inductive invariant: besides types, the work that is left leads from
\* the scope, the loop entries and the fallthrough target of the moment back
\* to none of them.
THEOREM WorkLeadsBack == Spec => []IInv
  <1>1. Init => IInv BY InitHolds
  <1>2. IInv /\ [Next]_vars => IInv' BY NextStep
  <1> QED BY <1>1, <1>2, PTL DEF Spec

\* Every branch that ir_gen_node and ir_gen_statement.c emit, and every break
\* target they record, is a block that was appended before: whatever
\* the statements, no instruction names a block that is never created.
THEOREM TargetsExist == Spec => []TypeOK
  <1>1. IInv /\ gaps \subseteq Nat => TypeOK
    <2> SUFFICES ASSUME IInv, gaps \subseteq Nat PROVE TypeOK OBVIOUS
    <2>1. PICK n : n = Len(code) OBVIOUS
    <2>2. code \in Seq(Seq(Instrs(n))) /\ cur \in 1 .. n BY <2>1 DEF IInv, CodeInv
    <2>3. DOMAIN code = 1 .. n BY <2>1, <2>2
    <2>4. \A b \in DOMAIN code : \A k \in DOMAIN code[b] : code[b][k] \in Instrs(n)
      <3> SUFFICES ASSUME NEW b \in DOMAIN code, NEW k \in DOMAIN code[b] PROVE code[b][k] \in Instrs(n)
        OBVIOUS
      <3>1. PICK X : X = Instrs(n) OBVIOUS
      <3>2. code[b] \in Seq(X) BY <2>2, <3>1
      <3> QED BY <3>1, <3>2
    <2>5. \A x \in Instrs(n) : /\ x.i \in {"call", "br", "cond", "ret"}
                               /\ x.i = "br" => x.to \in 1 .. n
                               /\ x.i = "cond" => x.yes \in 1 .. n /\ x.no \in 1 .. n
      BY DEF Instrs
    <2>6. depth \in Nat /\ \A k \in DOMAIN defers : defers[k].depth \in Nat
      <3>1. PICK X : X = Entry OBVIOUS
      <3>2. depth \in Nat /\ defers \in Seq(X) BY <3>1 DEF IInv, DefersInv
      <3>3. \A k \in DOMAIN defers : defers[k] \in X BY <3>2
      <3>4. \A x \in X : x.depth \in Nat BY <3>1 DEF Entry
      <3> QED BY <3>2, <3>3, <3>4
    <2>7. \A k \in DOMAIN loops : loops[k].depth \in Nat /\ loops[k].brk \in 1 .. n
      <3>1. PICK X : X = LoopEntry(n) OBVIOUS
      <3>2. loops \in Seq(X) BY <2>1, <3>1 DEF IInv, LoopsInv
      <3>3. \A k \in DOMAIN loops : loops[k] \in X BY <3>2
      <3>4. \A x \in X : x.depth \in Nat /\ x.brk \in 1 .. n BY <3>1 DEF LoopEntry
      <3> QED BY <3>3, <3>4
    <2>8. /\ fall \in 1 .. n \cup {NoBlock} /\ lossy \in BOOLEAN
          /\ phase \in {"gen", "run", "ref", "done", "cut", "bad", "starved"}
      BY <2>1 DEF IInv, FlagsInv
    <2>9. \A b \in DOMAIN code : \A k \in DOMAIN code[b] :
            LET x == code[b][k]
            IN  /\ x.i \in {"call", "br", "cond", "ret"}
                /\ x.i = "br" => x.to \in DOMAIN code
                /\ x.i = "cond" => x.yes \in DOMAIN code /\ x.no \in DOMAIN code
      BY <2>3, <2>4, <2>5
    <2> QED BY <2>2, <2>3, <2>6, <2>7, <2>8, <2>9 DEF TypeOK
  <1>2. Init => gaps \subseteq Nat BY DEF Init
  <1>3. IInv /\ gaps \subseteq Nat /\ [Next]_vars => (gaps \subseteq Nat)'
    <2> SUFFICES ASSUME IInv, gaps \subseteq Nat, [Next]_vars PROVE gaps' \subseteq Nat OBVIOUS
    <2>1. gaps' = gaps \/ gaps' = gaps \cup {cur} BY GapsGrow
    <2>2. cur \in Nat BY DEF IInv, CodeInv
    <2> QED BY <2>1, <2>2
  <1> QED BY <1>1, <1>2, <1>3, WorkLeadsBack, PTL DEF Spec

\* ctx->defer_stack and ctx->loop_stack follow the nesting of the source in
\* every procedure body: ir_gen_emit_all_defers and its siblings, which
\* walk the stack from the top, generate inner scopes' statements first,
\* and the recorded scope_depth of a loop lies outside those of the loops in
\* its body, or at theirs after a `do', also after exits in the middle have taken
\* entries away and after MAX_LOOP_DEPTH.
THEOREM StacksFollow == Spec => []StacksFollowNesting
  <1>1. IInv => StacksFollowNesting
    BY DEF IInv, DefersInv, LoopsInv, Sorted, StacksFollowNesting
  <1> QED BY <1>1, WorkLeadsBack, PTL

\* When ir_gen_top_level_decl is done with a body, no defer, loop, scope or
\* fallthrough target is left in ctx for the next procedure, whatever the
\* body was and however many of its pushes were dropped.
THEOREM StacksEmpty == Spec => []StacksEmptyAtEnd
  <1>1. IInv => StacksEmptyAtEnd BY DEF IInv, EndInv, StacksEmptyAtEnd
  <1> QED BY <1>1, WorkLeadsBack, PTL

=============================================================================
