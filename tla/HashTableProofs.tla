--------------------------- MODULE HashTableProofs ---------------------------
(***************************************************************************)
(* For every set of keys, every hash function and every initial size, the  *)
(* table of HashTable counts its entries and implements SymbolMap.         *)
(*                                                                         *)
(* The inductive invariant says where an entry may be: in the chain its    *)
(* key hashes to (Placed), once in it (NoRepeats), in one of the two       *)
(* arrays only (Apart), and, while a resize runs, not in the part of the   *)
(* old array the loop has passed (Passed).                                 *)
(***************************************************************************)
EXTENDS HashTable, FiniteSetTheorems, TLAPS

Table(n) == [0 .. n - 1 -> Seq(Entry)]
Placed(T, n) == \A b \in DOMAIN T : \A j \in DOMAIN T[b] : Index(T[b][j].key, n) = b
NoRepeats(T) == \A b \in DOMAIN T : \A i, j \in DOMAIN T[b] : T[b][i].key = T[b][j].key => i = j

Apart  == \A e \in Entries(buckets), f \in Entries(fresh) : e.key # f.key
Passed == /\ ~ resizing => at = 0 /\ fresh = Empty(2 * bucketCount)
          /\ \A b \in 0 .. at - 1 : buckets[b] = <<>>
Counted == IsFiniteSet(Content) /\ SizeCounts

PlaceInv == /\ Placed(buckets, bucketCount) /\ Placed(fresh, 2 * bucketCount)
            /\ NoRepeats(buckets) /\ NoRepeats(fresh)
            /\ Apart /\ Passed
IInv == TypeOK /\ PlaceInv /\ Counted

-----------------------------------------------------------------------------
\* Lemmas on tables.

\* A key hashes to a bucket of the table.
LEMMA IndexType == ASSUME NEW k \in Keys, NEW n \in Nat \ {0} PROVE Index(k, n) \in 0 .. n - 1
<1>1. Hash[k] \in Nat
  BY TableAssumption
<1>. QED BY <1>1 DEF Index

\* An entry of a table is at some place of a chain.
LEMMA EntryAt ==
  ASSUME NEW T, NEW e
  PROVE  e \in Entries(T) <=> \E b \in DOMAIN T : \E j \in DOMAIN T[b] : e = T[b][j]
BY DEF Entries

\* An empty table has no entries, and is placed in every sense.
LEMMA EmptyTable ==
  ASSUME NEW n \in Nat \ {0}
  PROVE  /\ Empty(n) \in Table(n) /\ Entries(Empty(n)) = {}
         /\ Placed(Empty(n), n) /\ NoRepeats(Empty(n))
<1>1. \A b \in DOMAIN Empty(n) : Empty(n)[b] = <<>> /\ DOMAIN Empty(n)[b] = {}
  BY DEF Empty
<1>2. Entries(Empty(n)) = {}
  BY <1>1, EntryAt, Zenon
<1>. QED BY <1>1, <1>2 DEF Empty, Table, Placed, NoRepeats

\* In a table whose entries are placed, a key occurs once.
LEMMA UniqueKeys ==
  ASSUME NEW T, NEW n, Placed(T, n), NoRepeats(T), NEW e \in Entries(T), NEW f \in Entries(T), e.key = f.key
  PROVE  e = f
<1>1. PICK b \in DOMAIN T : \E i \in DOMAIN T[b] : e = T[b][i]
  BY EntryAt
<1>2. PICK i \in DOMAIN T[b] : e = T[b][i]
  BY <1>1
<1>3. PICK c \in DOMAIN T : \E j \in DOMAIN T[c] : f = T[c][j]
  BY EntryAt
<1>4. PICK j \in DOMAIN T[c] : f = T[c][j]
  BY <1>3
<1>5. b = c
  BY <1>2, <1>4 DEF Placed
<1>. QED BY <1>2, <1>4, <1>5 DEF NoRepeats

\* The chain c with e at its front.
Pushed(c, d, e) == d = <<e>> \o c
\* The key of e is not in the chain c.
Free(c, e) == Absent(c, e.key)
\* The bucket of an entry among n.
Home(b, e, n) == b = Index(e.key, n)

\* A new entry at the front of the chain its key hashes to.
LEMMA Push ==
  ASSUME NEW n \in Nat \ {0}, NEW T \in Table(n), NEW e \in Entry, NEW b \in 0 .. n - 1,
         Home(b, e, n), Placed(T, n), NoRepeats(T), Free(T[b], e), NEW d, Pushed(T[b], d, e)
  PROVE  LET U == [T EXCEPT ![b] = d] IN
         /\ U \in Table(n) /\ Placed(U, n) /\ NoRepeats(U)
         /\ Entries(U) = Entries(T) \cup {e}
<1>. DEFINE U == [T EXCEPT ![b] = d]
<1>1. T[b] \in Seq(Entry) /\ <<e>> \o T[b] \in Seq(Entry) /\ b \in DOMAIN T /\ DOMAIN T = 0 .. n - 1
  BY DEF Table
<1>2. /\ U[b] = <<e>> \o T[b] /\ U[b] \in Seq(Entry) /\ DOMAIN U = DOMAIN T
      /\ \A c \in DOMAIN T : c # b => U[c] = T[c]
  BY <1>1 DEF Pushed
<1>3. /\ Len(U[b]) = Len(T[b]) + 1 /\ U[b][1] = e /\ Len(T[b]) \in Nat
      /\ DOMAIN U[b] = 1 .. Len(T[b]) + 1 /\ DOMAIN T[b] = 1 .. Len(T[b])
      /\ \A j \in 1 .. Len(T[b]) : U[b][j + 1] = T[b][j]
  BY <1>1, <1>2
<1>4. \A j \in DOMAIN U[b] : j = 1 \/ (j - 1 \in DOMAIN T[b] /\ U[b][j] = T[b][j - 1])
  BY <1>3
<1>. HIDE DEF U
<1>5. U \in Table(n)
  BY <1>1, <1>2 DEF Table, U
<1>6. Placed(U, n)
  <2>1. ASSUME NEW c \in DOMAIN U, NEW j \in DOMAIN U[c] PROVE Index(U[c][j].key, n) = c
    <3>1. CASE c # b
      BY <1>2, <2>1, <3>1 DEF Placed
    <3>2. CASE c = b
      BY <1>1, <1>3, <1>4, <2>1, <3>2 DEF Placed, Home
    <3>. QED BY <3>1, <3>2
  <2>. QED BY <2>1 DEF Placed
<1>7. NoRepeats(U)
  <2>1. ASSUME NEW c \in DOMAIN U, NEW i \in DOMAIN U[c], NEW j \in DOMAIN U[c], U[c][i].key = U[c][j].key
        PROVE  i = j
    <3>1. CASE c # b
      BY <1>2, <2>1, <3>1 DEF NoRepeats
    <3>2. CASE c = b
      <4>1. i \in DOMAIN U[b] /\ j \in DOMAIN U[b] /\ i \in Nat /\ j \in Nat
        BY <1>3, <2>1, <3>2
      <4>2. \A m \in DOMAIN T[b] : T[b][m].key # e.key
        BY DEF Absent, Free
      <4>3. CASE i = 1 \/ j = 1
        BY <1>3, <1>4, <2>1, <3>2, <4>1, <4>2, <4>3
      <4>4. CASE i # 1 /\ j # 1
        <5>1. i - 1 \in DOMAIN T[b] /\ j - 1 \in DOMAIN T[b] /\ T[b][i - 1].key = T[b][j - 1].key
          BY <1>4, <2>1, <3>2, <4>1, <4>4
        <5>2. i - 1 = j - 1
          BY <1>1, <5>1 DEF NoRepeats
        <5>. QED BY <4>1, <5>2
      <4>. QED BY <4>3, <4>4
    <3>. QED BY <3>1, <3>2
  <2>. QED BY <2>1 DEF NoRepeats
<1>8. Entries(U) = Entries(T) \cup {e}
  <2>1. ASSUME NEW x \in Entries(U) PROVE x \in Entries(T) \cup {e}
    <3>1. PICK c \in DOMAIN U : \E j \in DOMAIN U[c] : x = U[c][j]
      BY EntryAt, <2>1
    <3>2. PICK j \in DOMAIN U[c] : x = U[c][j]
      BY <3>1
    <3>3. x = e \/ \E k \in DOMAIN T[c] : x = T[c][k]
      <4>1. CASE c # b
        BY <1>2, <3>2, <4>1
      <4>2. CASE c = b /\ j = 1
        BY <1>3, <3>2, <4>2
      <4>3. CASE c = b /\ j # 1
        BY <1>4, <3>2, <4>3
      <4>. QED BY <4>1, <4>2, <4>3
    <3>. QED BY <1>2, <3>3, EntryAt, Zenon
  <2>2. ASSUME NEW x \in Entries(T) PROVE x \in Entries(U)
    <3>1. PICK c \in DOMAIN T : \E j \in DOMAIN T[c] : x = T[c][j]
      BY EntryAt, <2>2
    <3>2. PICK j \in DOMAIN T[c] : x = T[c][j]
      BY <3>1
    <3>3. \E k \in DOMAIN U[c] : x = U[c][k]
      <4>1. CASE c # b
        BY <1>2, <3>2, <4>1
      <4>2. CASE c = b
        <5>1. j + 1 \in DOMAIN U[b] /\ U[b][j + 1] = x
          BY <1>3, <3>2, <4>2
        <5>. QED BY <4>2, <5>1
      <4>. QED BY <4>1, <4>2
    <3>. QED BY <1>2, <3>3, EntryAt, Zenon
  <2>3. e \in Entries(U)
    <3>1. 1 \in DOMAIN U[b]
      BY <1>3
    <3>. QED BY <1>1, <1>2, <1>3, <3>1, EntryAt, Zenon
  <2>. QED BY <2>1, <2>2, <2>3
<1>. QED BY <1>5, <1>6, <1>7, <1>8 DEF U

\* The chain c without its j-th entry.
Cut(c, d, j) == /\ d \in Seq(Entry) /\ Len(d) = Len(c) - 1
                /\ \A i \in 1 .. Len(d) : d[i] = c[IF i < j THEN i ELSE i + 1]

\* An entry is unlinked from its chain.
LEMMA Unlink ==
  ASSUME NEW n \in Nat \ {0}, NEW T \in Table(n), NEW b \in 0 .. n - 1,
         Placed(T, n), NoRepeats(T), NEW j \in DOMAIN T[b], NEW d, Cut(T[b], d, j)
  PROVE  LET U == [T EXCEPT ![b] = d] IN
         /\ U \in Table(n) /\ Placed(U, n) /\ NoRepeats(U)
         /\ Entries(U) = Entries(T) \ {T[b][j]}
         /\ T[b][j] \in Entries(T)
<1>. DEFINE U == [T EXCEPT ![b] = d]
            p(i) == IF i < j THEN i ELSE i + 1
<1>1. T[b] \in Seq(Entry) /\ b \in DOMAIN T /\ DOMAIN T = 0 .. n - 1 /\ j \in 1 .. Len(T[b]) /\ Len(T[b]) \in Nat
  BY DEF Table
<1>2. U[b] = d /\ DOMAIN U = DOMAIN T /\ \A c \in DOMAIN T : c # b => U[c] = T[c]
  BY <1>1
<1>3. /\ DOMAIN d = 1 .. Len(T[b]) - 1 /\ DOMAIN T[b] = 1 .. Len(T[b])
      /\ \A i \in DOMAIN d : i \in Nat /\ d[i] = T[b][p(i)]
  BY <1>1, SMTT(30) DEF Cut
<1>4. \A i \in DOMAIN d : p(i) \in DOMAIN T[b] /\ p(i) # j
  BY <1>1, <1>3
<1>5. \A i, m \in DOMAIN d : p(i) = p(m) => i = m
  BY <1>3
<1>6. \A m \in DOMAIN T[b] : m # j => \E i \in DOMAIN d : d[i] = T[b][m]
  <2>1. ASSUME NEW m \in DOMAIN T[b], m < j PROVE m \in DOMAIN d /\ p(m) = m
    BY <1>1, <1>3, <2>1
  <2>2. ASSUME NEW m \in DOMAIN T[b], m > j PROVE m - 1 \in DOMAIN d /\ p(m - 1) = m
    BY <1>1, <1>3, <2>2
  <2>3. \A m \in DOMAIN T[b] : m # j => m < j \/ m > j
    BY <1>1
  <2>. HIDE DEF p
  <2>. QED BY <1>3, <2>1, <2>2, <2>3
<1>. HIDE DEF U, p
<1>7. U \in Table(n)
  BY <1>1, <1>2 DEF Table, U, Cut
<1>8. Placed(U, n)
  <2>1. ASSUME NEW c \in DOMAIN U, NEW i \in DOMAIN U[c] PROVE Index(U[c][i].key, n) = c
    <3>1. CASE c # b
      BY <1>2, <2>1, <3>1 DEF Placed
    <3>2. CASE c = b
      BY <1>1, <1>2, <1>3, <1>4, <2>1, <3>2 DEF Placed
    <3>. QED BY <3>1, <3>2
  <2>. QED BY <2>1 DEF Placed
<1>9. NoRepeats(U)
  <2>1. ASSUME NEW c \in DOMAIN U, NEW i \in DOMAIN U[c], NEW m \in DOMAIN U[c], U[c][i].key = U[c][m].key
        PROVE  i = m
    <3>1. CASE c # b
      BY <1>2, <2>1, <3>1 DEF NoRepeats
    <3>2. CASE c = b
      <4>1. p(i) = p(m)
        BY <1>1, <1>2, <1>3, <1>4, <2>1, <3>2 DEF NoRepeats
      <4>. QED BY <1>2, <1>5, <2>1, <3>2, <4>1
    <3>. QED BY <3>1, <3>2
  <2>. QED BY <2>1 DEF NoRepeats
<1>10. T[b][j] \in Entries(T)
  BY <1>1, EntryAt
<1>11. Entries(U) = Entries(T) \ {T[b][j]}
  <2>1. ASSUME NEW x \in Entries(U) PROVE x \in Entries(T) /\ x # T[b][j]
    <3>1. PICK c \in DOMAIN U : \E i \in DOMAIN U[c] : x = U[c][i]
      BY EntryAt, <2>1
    <3>2. PICK i \in DOMAIN U[c] : x = U[c][i]
      BY <3>1
    <3>3. CASE c # b
      <4>1. i \in DOMAIN T[c] /\ x = T[c][i] /\ c \in DOMAIN T
        BY <1>2, <3>2, <3>3
      <4>2. x.key # T[b][j].key
        BY <1>1, <3>3, <4>1 DEF Placed
      <4>3. x \in Entries(T)
        BY <4>1, EntryAt
      <4>. QED BY <4>2, <4>3
    <3>4. CASE c = b
      <4>1. p(i) \in DOMAIN T[b] /\ p(i) # j /\ x = T[b][p(i)]
        BY <1>2, <1>3, <1>4, <3>2, <3>4
      <4>2. x.key # T[b][j].key
        BY <1>1, <4>1 DEF NoRepeats
      <4>3. x \in Entries(T)
        BY <1>1, <4>1, EntryAt
      <4>. QED BY <4>2, <4>3
    <3>. QED BY <3>3, <3>4
  <2>2. ASSUME NEW x \in Entries(T), x # T[b][j] PROVE x \in Entries(U)
    <3>1. PICK c \in DOMAIN T : \E i \in DOMAIN T[c] : x = T[c][i]
      BY EntryAt, <2>2
    <3>2. PICK i \in DOMAIN T[c] : x = T[c][i]
      BY <3>1
    <3>3. \E k \in DOMAIN U[c] : x = U[c][k]
      <4>1. CASE c # b
        BY <1>2, <3>2, <4>1
      <4>2. CASE c = b
        BY <1>2, <1>6, <2>2, <3>2, <4>2
      <4>. QED BY <4>1, <4>2
    <3>. QED BY <1>2, <3>3, EntryAt
  <2>. QED BY <2>1, <2>2
<1>. QED BY <1>7, <1>8, <1>9, <1>10, <1>11 DEF U

\* The two ways entries are unlinked: remove skips over one, the resize loop
\* takes the head.
LEMMA CutForms ==
  ASSUME NEW c \in Seq(Entry)
  PROVE  /\ \A j \in DOMAIN c : Cut(c, SubSeq(c, 1, j - 1) \o SubSeq(c, j + 1, Len(c)), j)
         /\ c # <<>> => Cut(c, Tail(c), 1) /\ 1 \in DOMAIN c /\ Head(c) = c[1]
<1>1. ASSUME NEW j \in DOMAIN c PROVE Cut(c, SubSeq(c, 1, j - 1) \o SubSeq(c, j + 1, Len(c)), j)
  <2>. DEFINE l == SubSeq(c, 1, j - 1)  r == SubSeq(c, j + 1, Len(c))
  <2>0. j \in 1 .. Len(c) /\ Len(c) \in Nat
    OBVIOUS
  <2>1. l \in Seq(Entry) /\ Len(l) = j - 1 /\ \A i \in 1 .. j - 1 : l[i] = c[i]
    BY <2>0
  <2>2. r \in Seq(Entry) /\ Len(r) = Len(c) - j /\ \A i \in 1 .. Len(c) - j : r[i] = c[i + j]
    BY <2>0
  <2>. HIDE DEF l, r
  <2>3. l \o r \in Seq(Entry) /\ Len(l \o r) = Len(c) - 1
    BY <2>0, <2>1, <2>2
  <2>4. ASSUME NEW i \in 1 .. Len(l \o r) PROVE (l \o r)[i] = c[IF i < j THEN i ELSE i + 1]
    <3>1. CASE i < j
      BY <2>0, <2>1, <2>2, <2>3, <3>1
    <3>2. CASE ~ (i < j)
      <4>1. (l \o r)[i] = r[i - (j - 1)] /\ i - (j - 1) \in 1 .. Len(c) - j
        BY <2>0, <2>1, <2>2, <2>3, <3>2
      <4>2. r[i - (j - 1)] = c[(i - (j - 1)) + j]
        BY <2>2, <4>1
      <4>3. (i - (j - 1)) + j = i + 1
        BY <2>0, <2>3
      <4>. QED BY <3>2, <4>1, <4>2, <4>3
    <3>. QED BY <3>1, <3>2
  <2>5. Cut(c, l \o r, j)
    BY <2>3, <2>4 DEF Cut
  <2>. QED BY <2>5 DEF l, r
<1>2. ASSUME c # <<>> PROVE Cut(c, Tail(c), 1) /\ 1 \in DOMAIN c /\ Head(c) = c[1]
  BY <1>2 DEF Cut
<1>. QED BY <1>1, <1>2

-----------------------------------------------------------------------------
\* The invariant.

\* No key is in the table twice, whichever array it is in.
KeysUnique(C) == \A e, f \in C : e.key = f.key => e = f
LEMMA ContentUnique == ASSUME IInv PROVE KeysUnique(Content)
<1>1. ASSUME NEW e \in Content, NEW f \in Content, e.key = f.key PROVE e = f
  <2>1. CASE e \in Entries(buckets) /\ f \in Entries(buckets)
    BY <1>1, <2>1, UniqueKeys DEF IInv, PlaceInv
  <2>2. CASE e \in Entries(fresh) /\ f \in Entries(fresh)
    BY <1>1, <2>2, UniqueKeys DEF IInv, PlaceInv
  <2>3. CASE \/ e \in Entries(buckets) /\ f \in Entries(fresh)
             \/ e \in Entries(fresh) /\ f \in Entries(buckets)
    BY <1>1, <2>3 DEF IInv, PlaceInv, Apart
  <2>. QED BY <2>1, <2>2, <2>3 DEF Content
<1>. QED BY <1>1 DEF KeysUnique

\* Outside of a resize every entry is in ht->buckets, so a key that is absent
\* from its chain is absent from the table, and one found there is its entry.
LEMMA Idle ==
  ASSUME IInv, ~ resizing, NEW k \in Keys
  PROVE  LET b == Index(k, bucketCount) IN
         /\ Content = Entries(buckets) /\ b \in 0 .. bucketCount - 1 /\ b \in DOMAIN buckets
         /\ buckets[b] \in Seq(Entry)
         /\ Absent(buckets[b], k) => \A e \in Content : e.key # k
         /\ \A j \in DOMAIN buckets[b] : buckets[b][j] \in Content
<1>. DEFINE b == Index(k, bucketCount)
<1>1. bucketCount \in Nat \ {0} /\ buckets \in Table(bucketCount) /\ 2 * bucketCount \in Nat \ {0}
  BY DEF IInv, TypeOK, Table
<1>2. b \in 0 .. bucketCount - 1 /\ b \in DOMAIN buckets /\ buckets[b] \in Seq(Entry)
  BY <1>1, IndexType DEF Table
<1>3. Content = Entries(buckets)
  BY <1>1, EmptyTable DEF Content, IInv, PlaceInv, Passed
<1>4. ASSUME Absent(buckets[b], k), NEW e \in Entries(buckets) PROVE e.key # k
  <2>1. PICK c \in DOMAIN buckets : \E j \in DOMAIN buckets[c] : e = buckets[c][j]
    BY <1>4, EntryAt
  <2>2. PICK j \in DOMAIN buckets[c] : e = buckets[c][j]
    BY <2>1
  <2>3. Index(e.key, bucketCount) = c
    BY <2>2 DEF IInv, PlaceInv, Placed
  <2>. QED BY <1>4, <2>2, <2>3 DEF Absent
<1>5. \A j \in DOMAIN buckets[b] : buckets[b][j] \in Entries(buckets)
  BY <1>2, EntryAt
<1>. QED BY <1>2, <1>3, <1>4, <1>5

\* An insertion adds its entry.
LEMMA InsertKeeps ==
  ASSUME IInv, NEW k \in Keys, NEW v \in Values \cup {NoValue}, NEW calloc \in BOOLEAN, Insert(k, v, calloc)
  PROVE  /\ IInv' /\ v \in Values /\ (\A e \in Content : e.key # k)
         /\ Content' = Content \cup {[key |-> k, value |-> v]}
<1>. DEFINE b == Index(k, bucketCount)  e == [key |-> k, value |-> v]
<1>1. /\ ~ resizing /\ v \in Values /\ e \in Entry /\ e.key = k /\ Absent(buckets[b], k)
      /\ buckets' = [buckets EXCEPT ![b] = <<e>> \o @]
      /\ size' = size + 1 /\ resizing' \in BOOLEAN /\ ret' = TRUE
      /\ bucketCount' = bucketCount /\ fresh' = fresh /\ at' = at
  BY DEF Insert, Entry
<1>2. bucketCount \in Nat \ {0} /\ buckets \in Table(bucketCount) /\ b \in 0 .. bucketCount - 1
  BY IndexType DEF IInv, TypeOK, Table
<1>3. Content = Entries(buckets) /\ \A f \in Content : f.key # k
  BY <1>1, Idle
<1>4. at = 0 /\ fresh = Empty(2 * bucketCount) /\ Entries(fresh) = {}
  BY <1>1, <1>2, EmptyTable DEF IInv, PlaceInv, Passed
<1>. HIDE DEF b, e
<1>5. /\ buckets' \in Table(bucketCount) /\ Placed(buckets', bucketCount) /\ NoRepeats(buckets')
      /\ Entries(buckets') = Entries(buckets) \cup {e}
  <2>. DEFINE d == <<e>> \o buckets[b]  U == [buckets EXCEPT ![b] = d]
  <2>1. Home(b, e, bucketCount) /\ Free(buckets[b], e)
    BY <1>1 DEF b, Home, Free
  <2>2. Placed(buckets, bucketCount) /\ NoRepeats(buckets) /\ e \in Entry
    BY <1>1 DEF IInv, PlaceInv
  <2>0. Pushed(buckets[b], d, e)
    BY DEF Pushed
  <2>. HIDE DEF d
  <2>3. U \in Table(bucketCount) /\ Placed(U, bucketCount)
    BY <1>2, <2>0, <2>1, <2>2, Push
  <2>4. NoRepeats(U)
    BY <1>2, <2>0, <2>1, <2>2, Push
  <2>5. Entries(U) = Entries(buckets) \cup {e}
    BY <1>2, <2>0, <2>1, <2>2, Push
  <2>6. buckets' = U
    BY <1>1 DEF d
  <2>. QED BY <2>3, <2>4, <2>5, <2>6
<1>6. Content' = Content \cup {e} /\ e \notin Content
  BY <1>1, <1>3, <1>4, <1>5 DEF Content
<1>7. TypeOK'
  BY <1>1, <1>5 DEF IInv, TypeOK, Table
<1>8. PlaceInv'
  <2>1. Apart'
    BY <1>1, <1>4 DEF Apart
  <2>2. Passed'
    BY <1>1, <1>4 DEF Passed, IInv, TypeOK
  <2>. QED BY <1>1, <1>5, <2>1, <2>2 DEF PlaceInv, IInv
<1>9. Counted'
  <2>1. IsFiniteSet(Content) /\ size = Cardinality(Content)
    BY DEF IInv, Counted, SizeCounts
  <2>2. IsFiniteSet(Content \cup {e}) /\ Cardinality(Content \cup {e}) = Cardinality(Content) + 1
    BY <1>6, <2>1, FS_AddElement
  <2>. QED BY <1>1, <1>6, <2>1, <2>2 DEF Counted, SizeCounts
<1>. QED BY <1>1, <1>3, <1>6, <1>7, <1>8, <1>9 DEF IInv, e

\* The resize loop moves an entry from one array to the other.
LEMMA MoveKeeps == ASSUME IInv, MoveEntry PROVE IInv' /\ Content' = Content
<1>. DEFINE e == Head(buckets[at])  c == Index(e.key, 2 * bucketCount)
<1>1. /\ resizing /\ at \in 0 .. bucketCount - 1 /\ buckets[at] # <<>>
      /\ fresh' = [fresh EXCEPT ![c] = <<e>> \o @] /\ buckets' = [buckets EXCEPT ![at] = Tail(@)]
      /\ bucketCount' = bucketCount /\ size' = size /\ resizing' = resizing /\ at' = at /\ ret' = ret
  BY DEF MoveEntry, IInv, TypeOK
<1>2. /\ bucketCount \in Nat \ {0} /\ 2 * bucketCount \in Nat \ {0} /\ buckets \in Table(bucketCount)
      /\ fresh \in Table(2 * bucketCount) /\ buckets[at] \in Seq(Entry)
  BY <1>1 DEF IInv, TypeOK, Table
<1>3. 1 \in DOMAIN buckets[at] /\ e = buckets[at][1] /\ Cut(buckets[at], Tail(buckets[at]), 1) /\ e \in Entry
  BY <1>1, <1>2, CutForms
<1>4. c \in 0 .. 2 * bucketCount - 1
  BY <1>2, <1>3, IndexType DEF Entry
<1>. HIDE DEF e, c
<1>5. /\ buckets' \in Table(bucketCount) /\ Placed(buckets', bucketCount) /\ NoRepeats(buckets')
      /\ Entries(buckets') = Entries(buckets) \ {e} /\ e \in Entries(buckets)
  <2>. DEFINE d == Tail(buckets[at])  U == [buckets EXCEPT ![at] = d]
  <2>1. Placed(buckets, bucketCount) /\ NoRepeats(buckets) /\ at \in 0 .. bucketCount - 1
    BY <1>1 DEF IInv, PlaceInv
  <2>2. 1 \in DOMAIN buckets[at] /\ Cut(buckets[at], d, 1)
    BY <1>3
  <2>. HIDE DEF d
  <2>3. /\ U \in Table(bucketCount) /\ Placed(U, bucketCount) /\ NoRepeats(U)
        /\ Entries(U) = Entries(buckets) \ {buckets[at][1]} /\ buckets[at][1] \in Entries(buckets)
    BY <1>2, <2>1, <2>2, Unlink
  <2>4. buckets' = U
    BY <1>1 DEF d
  <2>. QED BY <1>3, <2>3, <2>4
<1>6. Absent(fresh[c], e.key)
  <2>1. \A j \in DOMAIN fresh[c] : fresh[c][j] \in Entries(fresh)
    BY <1>2, <1>4, EntryAt DEF Table
  <2>. QED BY <1>5, <2>1 DEF Absent, IInv, PlaceInv, Apart
<1>7. /\ fresh' \in Table(2 * bucketCount) /\ Placed(fresh', 2 * bucketCount) /\ NoRepeats(fresh')
      /\ Entries(fresh') = Entries(fresh) \cup {e}
  <2>. DEFINE n == 2 * bucketCount  d == <<e>> \o fresh[c]  U == [fresh EXCEPT ![c] = d]
  <2>1. Home(c, e, n) /\ Free(fresh[c], e)
    BY <1>6 DEF c, Home, Free
  <2>2. n \in Nat \ {0} /\ fresh \in Table(n) /\ c \in 0 .. n - 1 /\ Placed(fresh, n) /\ NoRepeats(fresh)
    BY <1>2, <1>4 DEF IInv, PlaceInv
  <2>0. Pushed(fresh[c], d, e)
    BY DEF Pushed
  <2>. HIDE DEF n, d
  <2>3. U \in Table(n) /\ Placed(U, n)
    BY <1>3, <2>0, <2>1, <2>2, Push
  <2>4. NoRepeats(U)
    BY <1>3, <2>0, <2>1, <2>2, Push
  <2>5. Entries(U) = Entries(fresh) \cup {e}
    BY <1>3, <2>0, <2>1, <2>2, Push
  <2>6. fresh' = U
    BY <1>1 DEF d
  <2>. QED BY <2>3, <2>4, <2>5, <2>6 DEF n
<1>8. Content' = Content
  BY <1>5, <1>7 DEF Content
<1>9. TypeOK'
  BY <1>1, <1>5, <1>7 DEF IInv, TypeOK, Table
<1>10. PlaceInv'
  <2>1. Apart'
    <3>1. \A f \in Entries(buckets) \ {e} : f.key # e.key
      BY <1>5, UniqueKeys DEF IInv, PlaceInv
    <3>. QED BY <1>5, <1>7, <3>1 DEF Apart, IInv, PlaceInv
  <2>2. Passed'
    <3>1. \A x \in 0 .. at - 1 : buckets[x] = <<>> /\ x \in DOMAIN buckets /\ x # at
      <4>1. \A x \in 0 .. at - 1 : buckets[x] = <<>>
        BY DEF Passed, IInv, PlaceInv
      <4>2. DOMAIN buckets = 0 .. bucketCount - 1 /\ at \in Nat
        BY <1>1, <1>2 DEF Table
      <4>. QED BY <1>1, <1>2, <4>1, <4>2
    <3>2. \A x \in 0 .. at - 1 : buckets'[x] = <<>>
      BY <1>1, <3>1
    <3>. QED BY <1>1, <3>2 DEF Passed
  <2>. QED BY <1>1, <1>5, <1>7, <2>1, <2>2 DEF PlaceInv, IInv
<1>11. Counted'
  BY <1>1, <1>8 DEF Counted, SizeCounts, IInv
<1>. QED BY <1>8, <1>9, <1>10, <1>11 DEF IInv

\* The loop goes on to the next bucket, which is empty.
LEMMA NextBucketKeeps == ASSUME IInv, NextBucket PROVE IInv' /\ Content' = Content
<1>1. /\ at' = at + 1 /\ at < bucketCount /\ resizing /\ buckets[at] = <<>>
      /\ bucketCount' = bucketCount /\ buckets' = buckets /\ size' = size /\ resizing' = resizing
      /\ fresh' = fresh /\ ret' = ret
  BY DEF NextBucket
<1>2. TypeOK'
  BY <1>1, SMTT(30) DEF IInv, TypeOK
<1>3. Content' = Content
  BY <1>1 DEF Content
<1>4. Passed'
  <2>1. at \in Nat
    BY DEF IInv, TypeOK
  <2>2. \A b \in 0 .. at - 1 : buckets[b] = <<>>
    BY DEF IInv, PlaceInv, Passed
  <2>3. \A b \in 0 .. at' - 1 : buckets[b] = <<>>
    BY <1>1, <2>1, <2>2
  <2>. QED BY <1>1, <2>3 DEF Passed
<1>5. PlaceInv'
  BY <1>1, <1>4 DEF IInv, PlaceInv, Apart
<1>6. Counted'
  BY <1>1, <1>3 DEF IInv, Counted, SizeCounts
<1>. QED BY <1>2, <1>3, <1>5, <1>6 DEF IInv

\* When the loop ends the old array is empty, so nothing is lost with it.
LEMMA EndKeeps == ASSUME IInv, EndResize PROVE IInv' /\ Content' = Content
<1>. DEFINE n == 2 * bucketCount
<1>1. /\ at = bucketCount /\ buckets' = fresh /\ bucketCount' = n /\ fresh' = Empty(2 * n)
      /\ at' = 0 /\ resizing' = FALSE /\ size' = size /\ ret' = ret
  <2>1. 4 * bucketCount = 2 * n
    BY DEF IInv, TypeOK
  <2>. QED BY <2>1 DEF EndResize
<1>2. bucketCount \in Nat \ {0} /\ n \in Nat \ {0} /\ 2 * n \in Nat \ {0} /\ fresh \in Table(n)
      /\ DOMAIN buckets = 0 .. bucketCount - 1
  BY DEF IInv, TypeOK, Table
<1>3. Placed(fresh, n) /\ NoRepeats(fresh) /\ \A b \in 0 .. bucketCount - 1 : buckets[b] = <<>>
  BY <1>1 DEF IInv, PlaceInv, Passed
<1>. HIDE DEF n
<1>4. Entries(buckets) = {}
  <2>1. \A b \in DOMAIN buckets : DOMAIN buckets[b] = {}
    BY <1>2, <1>3
  <2>. QED BY <2>1, EntryAt
<1>5. /\ fresh' \in Table(2 * n) /\ Entries(fresh') = {} /\ Placed(fresh', 2 * n) /\ NoRepeats(fresh')
  BY <1>1, <1>2, EmptyTable
<1>6. Content' = Content
  BY <1>1, <1>4, <1>5 DEF Content
<1>7. TypeOK'
  <2>1. buckets' \in Table(bucketCount') /\ fresh' \in Table(2 * bucketCount')
    BY <1>1, <1>2, <1>5
  <2>2. bucketCount' \in Nat \ {0} /\ size' \in Nat /\ at' \in 0 .. bucketCount'
    BY <1>1, <1>2 DEF IInv, TypeOK
  <2>4. resizing' \in BOOLEAN
    BY <1>1, Zenon
  <2>3. ret' \in Values \cup BOOLEAN \cup {NoValue}
    BY <1>1 DEF IInv, TypeOK
  <2>. QED BY <2>1, <2>2, <2>3, <2>4 DEF TypeOK, Table
<1>8. PlaceInv'
  <2>1. Apart' /\ Passed'
    BY <1>1, <1>5 DEF Apart, Passed
  <2>. QED BY <1>1, <1>3, <1>5, <2>1 DEF PlaceInv
<1>9. Counted'
  BY <1>1, <1>6 DEF IInv, Counted, SizeCounts
<1>. QED BY <1>6, <1>7, <1>8, <1>9 DEF IInv

\* What remove finds in the chain it unlinks, and nothing else leaves the table.
LEMMA RemoveKeeps ==
  ASSUME IInv, NEW k \in Keys, Remove(k)
  PROVE  /\ IInv'
         /\ \/ \E e \in Content : e.key = k /\ ret' = e.value /\ Content' = Content \ {e}
            \/ (\A e \in Content : e.key # k) /\ ret' = NoValue /\ Content' = Content
<1>. DEFINE b == Index(k, bucketCount)  c == buckets[b]
<1>1. /\ ~ resizing /\ bucketCount' = bucketCount /\ resizing' = resizing /\ fresh' = fresh /\ at' = at
  BY DEF Remove
<1>2. /\ bucketCount \in Nat \ {0} /\ buckets \in Table(bucketCount)
      /\ Placed(buckets, bucketCount) /\ NoRepeats(buckets)
  BY DEF IInv, TypeOK, Table, PlaceInv
<1>3. /\ Content = Entries(buckets) /\ b \in 0 .. bucketCount - 1 /\ c \in Seq(Entry)
      /\ Absent(c, k) => \A e \in Content : e.key # k
  BY <1>1, Idle
<1>4. at = 0 /\ fresh = Empty(2 * bucketCount) /\ Entries(fresh) = {}
  BY <1>1, <1>2, EmptyTable DEF IInv, PlaceInv, Passed
<1>5. CASE Absent(c, k) /\ ret' = NoValue /\ buckets' = buckets /\ size' = size
  <2>1. Content' = Content
    BY <1>1, <1>5 DEF Content
  <2>2. TypeOK' /\ PlaceInv' /\ Counted'
    BY <1>1, <1>5, <2>1 DEF IInv, TypeOK, PlaceInv, Apart, Passed, Counted, SizeCounts
  <2>. QED BY <1>3, <1>5, <2>1, <2>2 DEF IInv
<1>6. ASSUME NEW j \in DOMAIN c, FoundAt(c, k, j), ret' = c[j].value, size' = size - 1,
             buckets' = [buckets EXCEPT ![b] = SubSeq(c, 1, j - 1) \o SubSeq(c, j + 1, Len(c))]
      PROVE  IInv' /\ \E e \in Content : e.key = k /\ ret' = e.value /\ Content' = Content \ {e}
  <2>. DEFINE d == SubSeq(c, 1, j - 1) \o SubSeq(c, j + 1, Len(c))
              U == [buckets EXCEPT ![b] = d]
  <2>1. Cut(c, d, j)
    BY <1>3, CutForms
  <2>2. buckets' = U
    BY <1>6
  <2>. HIDE DEF d, b
  <2>3. U \in Table(bucketCount) /\ Placed(U, bucketCount)
    BY <1>2, <1>3, <2>1, Unlink
  <2>4. NoRepeats(U)
    BY <1>2, <1>3, <2>1, Unlink
  <2>5. Entries(U) = Entries(buckets) \ {c[j]} /\ c[j] \in Entries(buckets)
    <3>0. j \in DOMAIN buckets[b] /\ Cut(buckets[b], d, j) /\ b \in 0 .. bucketCount - 1
      BY <1>3, <2>1
    <3>1. Entries(U) = Entries(buckets) \ {buckets[b][j]}
      BY <1>2, <3>0, Unlink, SMTT(30)
    <3>2. buckets[b][j] \in Entries(buckets)
      BY <1>2, <1>3, EntryAt DEF Table
    <3>. QED BY <3>1, <3>2
  <2>. HIDE DEF U
  <2>6. c[j] \in Content /\ c[j].key = k /\ c[j] \in Entry /\ Content' = Content \ {c[j]}
    <3>1. c[j].key = k /\ c[j] \in Entry
      BY <1>3, <1>6 DEF FoundAt
    <3>2. Content' = Entries(U)
      BY <1>1, <1>4, <2>2 DEF Content
    <3>. QED BY <1>3, <2>5, <3>1, <3>2
  <2>. HIDE DEF c
  <2>7. IsFiniteSet(Content) /\ size = Cardinality(Content)
    BY DEF IInv, Counted, SizeCounts
  <2>8. IsFiniteSet(Content \ {c[j]}) /\ Cardinality(Content \ {c[j]}) = Cardinality(Content) - 1
    BY <2>6, <2>7, FS_RemoveElement
  <2>9. Cardinality(Content \ {c[j]}) \in Nat
    BY <2>8, FS_CardinalityType
  <2>10. TypeOK'
    <3>1. ret' \in Values
      BY <1>6, <2>6 DEF Entry
    <3>2. size' \in Nat
      BY <1>6, <2>7, <2>8, <2>9
    <3>. QED BY <1>1, <2>2, <2>3, <3>1, <3>2 DEF IInv, TypeOK, Table
  <2>11. PlaceInv'
    <3>1. Apart' /\ Passed'
      BY <1>1, <1>4 DEF Apart, Passed
    <3>. QED BY <1>1, <2>2, <2>3, <2>4, <3>1 DEF PlaceInv, IInv
  <2>12. Counted'
    BY <1>6, <2>6, <2>7, <2>8 DEF Counted, SizeCounts
  <2>. QED BY <1>6, <2>6, <2>10, <2>11, <2>12 DEF IInv
<1>. QED BY <1>5, <1>6 DEF Remove

\* A call that changes no entry.
LEMMA StillKeeps ==
  ASSUME IInv, UNCHANGED <<bucketCount, buckets, size, resizing, fresh, at>>,
         ret' \in Values \cup BOOLEAN \cup {NoValue}
  PROVE  IInv' /\ Content' = Content
<1>1. Content' = Content
  BY DEF Content
<1>2. TypeOK' /\ PlaceInv' /\ Counted'
  BY <1>1 DEF IInv, TypeOK, PlaceInv, Apart, Passed, Counted, SizeCounts
<1>. QED BY <1>1, <1>2 DEF IInv

\* A lookup returns the value of the entry with the key, wherever in its chain
\* it is, or NULL when the table has none.
LEMMA LookupFinds ==
  ASSUME IInv, NEW k \in Keys, Lookup(k)
  PROVE  \/ \E e \in Content : e.key = k /\ ret' = e.value /\ ret' \in Values
         \/ (\A e \in Content : e.key # k) /\ ret' = NoValue
<1>. DEFINE b == Index(k, bucketCount)  c == buckets[b]
<1>1. /\ c \in Seq(Entry) /\ (Absent(c, k) => \A e \in Content : e.key # k)
      /\ \A j \in DOMAIN c : c[j] \in Content
  BY Idle DEF Lookup
<1>2. ASSUME NEW j \in DOMAIN c, FoundAt(c, k, j), ret' = c[j].value
      PROVE  \E e \in Content : e.key = k /\ ret' = e.value /\ ret' \in Values
  <2>1. c[j] \in Content /\ c[j].key = k /\ c[j] \in Entry
    BY <1>1, <1>2 DEF FoundAt
  <2>2. c[j].value \in Values
    BY <2>1 DEF Entry
  <2>. QED BY <1>2, <2>1, <2>2
<1>. QED BY <1>1, <1>2 DEF Lookup

LEMMA InitInv == Init => IInv /\ Content = {}
<1>. SUFFICES ASSUME Init PROVE IInv /\ Content = {}
  OBVIOUS
<1>1. Created \in Nat \ {0} /\ 2 * Created \in Nat \ {0}
  BY TableAssumption DEF Created
<1>2. /\ bucketCount = Created /\ buckets = Empty(Created) /\ fresh = Empty(2 * Created)
      /\ size = 0 /\ resizing = FALSE /\ at = 0 /\ ret = NoValue
  BY DEF Init
<1>. HIDE DEF Init
<1>3. /\ buckets \in Table(Created) /\ Entries(buckets) = {} /\ Placed(buckets, Created) /\ NoRepeats(buckets)
  BY <1>1, <1>2, EmptyTable
<1>4. /\ fresh \in Table(2 * Created) /\ Entries(fresh) = {} /\ Placed(fresh, 2 * Created) /\ NoRepeats(fresh)
  BY <1>1, <1>2, EmptyTable
<1>5. Content = {}
  BY <1>3, <1>4 DEF Content
<1>6. TypeOK
  <2>1. buckets \in Table(bucketCount) /\ fresh \in Table(2 * bucketCount)
    BY <1>2, <1>3, <1>4
  <2>2. bucketCount \in Nat \ {0} /\ size \in Nat /\ at \in 0 .. bucketCount
    BY <1>1, <1>2
  <2>3. resizing \in BOOLEAN
    BY <1>2, Zenon
  <2>. QED BY <1>2, <2>1, <2>2, <2>3 DEF TypeOK, Table
<1>7. PlaceInv
  <2>1. Apart /\ Passed
    BY <1>2, <1>3 DEF Apart, Passed
  <2>. QED BY <1>2, <1>3, <1>4, <2>1 DEF PlaceInv
<1>8. Counted
  BY <1>2, <1>5, FS_EmptySet DEF Counted, SizeCounts
<1>. QED BY <1>5, <1>6, <1>7, <1>8 DEF IInv

LEMMA NextInv == IInv /\ [Next]_vars => IInv'
<1>. SUFFICES ASSUME IInv, [Next]_vars PROVE IInv'
  OBVIOUS
<1>1. CASE UNCHANGED vars
  BY <1>1, StillKeeps DEF vars, IInv, TypeOK
<1>2. CASE MoveEntry
  BY <1>2, MoveKeeps
<1>3. CASE NextBucket
  BY <1>3, NextBucketKeeps
<1>4. CASE EndResize
  BY <1>4, EndKeeps
<1>5. ASSUME NEW k \in Keys, Lookup(k) PROVE IInv'
  <2>1. ret' \in Values \cup BOOLEAN \cup {NoValue}
    BY <1>5, LookupFinds
  <2>. QED BY <1>5, <2>1, StillKeeps DEF Lookup
<1>6. ASSUME NEW k \in Keys, Remove(k) PROVE IInv'
  BY <1>6, RemoveKeeps
<1>7. ASSUME NEW k \in Keys, NEW v \in Values \cup {NoValue}, RefuseInsert(k, v) PROVE IInv'
  BY <1>7, StillKeeps DEF RefuseInsert
<1>8. ASSUME NEW k \in Keys, NEW v \in Values \cup {NoValue}, NEW calloc \in BOOLEAN, Insert(k, v, calloc)
      PROVE  IInv'
  BY <1>8, InsertKeeps
<1>. QED BY <1>1, <1>2, <1>3, <1>4, <1>5, <1>6, <1>7, <1>8 DEF Next, InsertCall

\* The arrays always have the sizes their indices are computed for.
THEOREM TableTypes == Spec => []TypeOK
<1>1. IInv => TypeOK
  BY DEF IInv
<1>. QED BY <1>1, InitInv, NextInv, PTL DEF Spec

\* ht->size is the number of entries, for every history of calls.
THEOREM TableCounts == Spec => []SizeCounts
<1>1. IInv => SizeCounts
  BY DEF IInv, Counted
<1>. QED BY <1>1, InitInv, NextInv, PTL DEF Spec

-----------------------------------------------------------------------------
\* The refinement.

\* The map has the value of the one entry with a key.
LEMMA MapValue ==
  ASSUME NEW C, KeysUnique(C), NEW k \in Keys
  PROVE  /\ (\A e \in C : e.key # k) => MapOf(C)[k] = NoValue
         /\ \A e \in C : e.key = k => MapOf(C)[k] = e.value
<1>1. (\A e \in C : e.key # k) => MapOf(C)[k] = NoValue
  BY DEF MapOf
<1>2. ASSUME NEW e \in C, e.key = k PROVE MapOf(C)[k] = e.value
  <2>. DEFINE c == CHOOSE x \in C : x.key = k
  <2>1. c \in C /\ c.key = k
    BY <1>2, Zenon
  <2>2. c = e
    BY <1>2, <2>1 DEF KeysUnique
  <2>3. MapOf(C)[k] = c.value
    BY <1>2 DEF MapOf
  <2>. QED BY <2>2, <2>3
<1>. QED BY <1>1, <1>2

\* A map is determined by its values.
LEMMA MapEqual ==
  ASSUME NEW C, NEW D, NEW k \in Keys, NEW v, MapOf(D)[k] = v,
         \A x \in Keys : x # k => MapOf(D)[x] = MapOf(C)[x]
  PROVE  MapOf(D) = [MapOf(C) EXCEPT ![k] = v]
<1>. DEFINE f == MapOf(C)  g == MapOf(D)
<1>1. DOMAIN f = Keys /\ DOMAIN g = Keys /\ f = [x \in Keys |-> f[x]] /\ g = [x \in Keys |-> g[x]]
  BY DEF MapOf
<1>. HIDE DEF f, g
<1>2. g = [f EXCEPT ![k] = v]
  BY <1>1 DEF f, g
<1>. QED BY <1>2 DEF f, g

\* An entry more, or less, changes the map at its key only.
LEMMA MapChange ==
  ASSUME NEW C, KeysUnique(C), NEW e, e.key \in Keys
  PROVE  /\ (\A f \in C : f.key # e.key) => MapOf(C \cup {e}) = [MapOf(C) EXCEPT ![e.key] = e.value]
         /\ e \in C => MapOf(C \ {e}) = [MapOf(C) EXCEPT ![e.key] = NoValue]
<1>1. ASSUME NEW D, KeysUnique(D), \A f : f # e => (f \in C <=> f \in D),
             \A f \in C \cup D : f # e => f.key # e.key
      PROVE  \A x \in Keys : x # e.key => MapOf(D)[x] = MapOf(C)[x]
  <2>1. ASSUME NEW x \in Keys, x # e.key PROVE MapOf(D)[x] = MapOf(C)[x]
    <3>1. CASE \E f \in C : f.key = x
      <4>1. PICK f \in C : f.key = x
        BY <3>1
      <4>2. f \in D
        BY <1>1, <2>1, <4>1
      <4>3. MapOf(C)[x] = f.value
        BY <4>1, MapValue
      <4>4. MapOf(D)[x] = f.value
        BY <1>1, <4>1, <4>2, MapValue
      <4>. QED BY <4>3, <4>4
    <3>2. CASE \A f \in C : f.key # x
      <4>1. \A f \in D : f.key # x
        BY <1>1, <2>1, <3>2
      <4>2. MapOf(C)[x] = NoValue
        BY <3>2, MapValue
      <4>3. MapOf(D)[x] = NoValue
        BY <1>1, <4>1, MapValue
      <4>. QED BY <4>2, <4>3
    <3>. QED BY <3>1, <3>2
  <2>. QED BY <2>1
<1>2. ASSUME \A f \in C : f.key # e.key PROVE MapOf(C \cup {e}) = [MapOf(C) EXCEPT ![e.key] = e.value]
  <2>. DEFINE D == C \cup {e}
  <2>1. KeysUnique(D)
    BY <1>2 DEF KeysUnique
  <2>2. e \in D /\ (\A f : f # e => (f \in C <=> f \in D)) /\ (\A f \in C \cup D : f # e => f.key # e.key)
    BY <1>2
  <2>. HIDE DEF D
  <2>3. \A x \in Keys : x # e.key => MapOf(D)[x] = MapOf(C)[x]
    BY <1>1, <2>1, <2>2
  <2>4. MapOf(D)[e.key] = e.value
    BY <2>1, <2>2, MapValue
  <2>5. MapOf(D) = [MapOf(C) EXCEPT ![e.key] = e.value]
    <3>. DEFINE k == e.key  v == e.value
    <3>1. k \in Keys /\ MapOf(D)[k] = v /\ \A x \in Keys : x # k => MapOf(D)[x] = MapOf(C)[x]
      BY <2>3, <2>4
    <3>. HIDE DEF k, v
    <3>2. MapOf(D) = [MapOf(C) EXCEPT ![k] = v]
      BY <3>1, MapEqual
    <3>. QED BY <3>2 DEF k, v
  <2>. QED BY <2>5 DEF D
<1>3. ASSUME e \in C PROVE MapOf(C \ {e}) = [MapOf(C) EXCEPT ![e.key] = NoValue]
  <2>. DEFINE D == C \ {e}
  <2>1. KeysUnique(D)
    BY DEF KeysUnique
  <2>2. /\ \A f : f # e => (f \in C <=> f \in D)
        /\ \A f \in C \cup D : f # e => f.key # e.key
        /\ \A f \in D : f.key # e.key
    BY <1>3 DEF KeysUnique
  <2>. HIDE DEF D
  <2>3. \A x \in Keys : x # e.key => MapOf(D)[x] = MapOf(C)[x]
    BY <1>1, <2>1, <2>2
  <2>4. MapOf(D)[e.key] = NoValue
    BY <2>1, <2>2, MapValue
  <2>5. MapOf(D) = [MapOf(C) EXCEPT ![e.key] = NoValue]
    BY <2>3, <2>4, MapEqual, SMTT(30)
  <2>. QED BY <2>5 DEF D
<1>. QED BY <1>2, <1>3

\* Every step of the table is a step of the map or leaves it as it was.
LEMMA StepSimulation == IInv /\ [Next]_vars => [Abstract!Next]_<<Map, ret>>
<1>. SUFFICES ASSUME IInv, [Next]_vars PROVE [Abstract!Next]_<<Map, ret>>
  OBVIOUS
<1>. USE DEF Map
<1>0. KeysUnique(Content)
  BY ContentUnique
<1>1. CASE UNCHANGED vars
  BY <1>1 DEF vars, Content
<1>2. CASE MoveEntry \/ NextBucket \/ EndResize
  <2>1. Content' = Content
    BY <1>2, MoveKeeps, NextBucketKeeps, EndKeeps
  <2>2. ret' = ret
    BY <1>2 DEF MoveEntry, NextBucket, EndResize
  <2>. QED BY <2>1, <2>2
<1>3. ASSUME NEW k \in Keys, Lookup(k) PROVE Abstract!Get(k)
  <2>1. Content' = Content
    BY <1>3 DEF Lookup, Content
  <2>2. ret' = MapOf(Content)[k]
    BY <1>0, <1>3, LookupFinds, MapValue
  <2>. QED BY <2>1, <2>2 DEF Abstract!Get
<1>4. ASSUME NEW k \in Keys, Remove(k) PROVE Abstract!Take(k)
  <2>1. CASE \E e \in Content : e.key = k /\ ret' = e.value /\ Content' = Content \ {e}
    <3>1. PICK e \in Content : e.key = k /\ ret' = e.value /\ Content' = Content \ {e}
      BY <2>1
    <3>2. MapOf(Content')  = [MapOf(Content) EXCEPT ![k] = NoValue]
      BY <1>0, <3>1, MapChange
    <3>3. ret' = MapOf(Content)[k]
      BY <1>0, <3>1, MapValue
    <3>. QED BY <3>2, <3>3 DEF Abstract!Take
  <2>2. CASE (\A e \in Content : e.key # k) /\ ret' = NoValue /\ Content' = Content
    <3>1. MapOf(Content)[k] = NoValue
      BY <1>0, <2>2, MapValue
    <3>2. MapOf(Content) = [MapOf(Content) EXCEPT ![k] = NoValue]
      BY <3>1, MapEqual
    <3>. QED BY <2>2, <3>1, <3>2 DEF Abstract!Take
  <2>. QED BY <1>4, <2>1, <2>2, RemoveKeeps
<1>5. ASSUME NEW k \in Keys, NEW v \in Values \cup {NoValue}, RefuseInsert(k, v) PROVE Abstract!Refuse
  BY <1>5 DEF RefuseInsert, Content, Abstract!Refuse
<1>6. ASSUME NEW k \in Keys, NEW v \in Values \cup {NoValue}, NEW calloc \in BOOLEAN, Insert(k, v, calloc)
      PROVE  v \in Values /\ Abstract!Put(k, v)
  <2>. DEFINE e == [key |-> k, value |-> v]
  <2>1. v \in Values /\ v # NoValue /\ ret' = TRUE
    BY <1>6, InsertKeeps DEF Insert
  <2>2. (\A f \in Content : f.key # k) /\ Content' = Content \cup {e}
    BY <1>6, InsertKeeps
  <2>3. e.key = k /\ e.value = v
    OBVIOUS
  <2>. HIDE DEF e
  <2>4. MapOf(Content') = [MapOf(Content) EXCEPT ![k] = v]
    BY <1>0, <2>2, <2>3, MapChange
  <2>5. MapOf(Content)[k] = NoValue
    BY <1>0, <2>2, MapValue
  <2>. QED BY <2>1, <2>4, <2>5 DEF Abstract!Put
<1>. QED BY <1>1, <1>2, <1>3, <1>4, <1>5, <1>6 DEF Next, InsertCall, Abstract!Next

\* The hash table implements a map, for every set of keys, every hash function
\* and every number of buckets it is created with.
THEOREM TableIsMap == Spec => IsMap
<1>1. Init => Abstract!Init
  <2>1. Init => MapOf(Content) = [k \in Keys |-> NoValue]
    BY InitInv DEF MapOf
  <2>. QED BY <2>1 DEF Init, Map, Abstract!Init
<1>. QED BY <1>1, InitInv, NextInv, StepSimulation, PTL DEF Spec, IsMap, Abstract!Spec
=============================================================================
