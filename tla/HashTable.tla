------------------------------ MODULE HashTable ------------------------------
(***************************************************************************)
(* The chained hash table of src/generic_hash_table.c, which holds the     *)
(* symbols of every scope and the intrinsic handlers.  An insertion that   *)
(* exceeds the load factor doubles the bucket array and relinks every      *)
(* entry; the relinking loop is taken one entry at a time, so that the     *)
(* invariant says where each entry is while it runs.                       *)
(***************************************************************************)
EXTENDS Naturals, Sequences, FiniteSets

CONSTANTS
  Keys, Values,
  NoValue,         \* NULL
  Hash,            \* key_ops.hash
  InitialBuckets   \* the argument of generic_hash_table_create

ASSUME TableAssumption ==
  /\ Hash \in [Keys -> Nat] /\ InitialBuckets \in Nat
  /\ NoValue \notin Values /\ NoValue \notin BOOLEAN

Entry == [key : Keys, value : Values]

VARIABLES
  bucketCount,  \* ht->bucket_count
  buckets,      \* ht->buckets; during a resize, what the loop has not moved yet
  size,         \* ht->size
  resizing,     \* generic_hash_table_resize is in its loop
  fresh,        \* new_buckets (empty when no resize is running)
  at,           \* the loop's bucket index
  ret           \* what the last call returned

vars == <<bucketCount, buckets, size, resizing, fresh, at, ret>>

Empty(n) == [b \in 0 .. n - 1 |-> <<>>]

\* A table starts with 128 buckets when the caller asks for none.
Created == IF InitialBuckets = 0 THEN 128 ELSE InitialBuckets

Init ==
  /\ bucketCount = Created
  /\ buckets = Empty(Created) /\ fresh = Empty(2 * Created)
  /\ size = 0 /\ resizing = FALSE /\ at = 0 /\ ret = NoValue

Index(k, n) == Hash[k] % n

\* The walk along a chain stops at the first entry with the key.
FoundAt(chain, k, j) == /\ j \in DOMAIN chain /\ chain[j].key = k
                        /\ \A i \in 1 .. j - 1 : chain[i].key # k
Absent(chain, k) == \A j \in DOMAIN chain : chain[j].key # k

\* size / bucket_count > 0.75f
Overloaded(n) == 4 * n > 3 * bucketCount

-----------------------------------------------------------------------------
\* generic_hash_table_insert of NULL, of a key that is there, or without memory.
RefuseInsert(k, v) ==
  /\ ~ resizing
  /\ ret' = FALSE
  /\ UNCHANGED <<bucketCount, buckets, size, resizing, fresh, at>>

\* Mutant: only the head of the chain is compared with the key.
ComparesHeadOnly(k, v, calloc) ==
  LET b == Index(k, bucketCount) IN
  /\ ~ resizing /\ v # NoValue
  /\ 1 \in DOMAIN buckets[b] => buckets[b][1].key # k
  /\ buckets' = [buckets EXCEPT ![b] = <<[key |-> k, value |-> v]>> \o @]
  /\ size' = size + 1
  /\ resizing' = (Overloaded(size + 1) /\ calloc)
  /\ ret' = TRUE
  /\ UNCHANGED <<bucketCount, fresh, at>>

\* generic_hash_table_insert of a new key.  The resize it ends with is skipped
\* without a message when its calloc fails.
Insert(k, v, calloc) ==
  LET b == Index(k, bucketCount) IN
  /\ ~ resizing /\ v # NoValue
  /\ Absent(buckets[b], k)
  /\ buckets' = [buckets EXCEPT ![b] = <<[key |-> k, value |-> v]>> \o @]
  /\ size' = size + 1
  /\ resizing' = (Overloaded(size + 1) /\ calloc)
  /\ ret' = TRUE
  /\ UNCHANGED <<bucketCount, fresh, at>>

\* Mutant: the entry keeps its old index.
RehashWithOldCount ==
  /\ resizing /\ at < bucketCount /\ buckets[at] # <<>>
  /\ LET e == Head(buckets[at]) IN
       fresh' = [fresh EXCEPT ![Index(e.key, bucketCount)] = <<e>> \o @]
  /\ buckets' = [buckets EXCEPT ![at] = Tail(@)]
  /\ UNCHANGED <<bucketCount, size, resizing, at, ret>>

\* One entry of the old array goes to the front of its new chain.
MoveEntry ==
  /\ resizing /\ at < bucketCount /\ buckets[at] # <<>>
  /\ LET e == Head(buckets[at]) IN
       fresh' = [fresh EXCEPT ![Index(e.key, 2 * bucketCount)] = <<e>> \o @]
  /\ buckets' = [buckets EXCEPT ![at] = Tail(@)]
  /\ UNCHANGED <<bucketCount, size, resizing, at, ret>>

NextBucket ==
  /\ resizing /\ at < bucketCount /\ buckets[at] = <<>>
  /\ at' = at + 1
  /\ UNCHANGED <<bucketCount, buckets, size, resizing, fresh, ret>>

\* Mutant: ht->bucket_count is not updated.
KeepsOldCount ==
  /\ resizing /\ at = bucketCount
  /\ buckets' = fresh
  /\ fresh' = Empty(4 * bucketCount) /\ at' = 0 /\ resizing' = FALSE
  /\ UNCHANGED <<bucketCount, size, ret>>

\* The new array takes the place of the old one.
EndResize ==
  /\ resizing /\ at = bucketCount
  /\ buckets' = fresh /\ bucketCount' = 2 * bucketCount
  /\ fresh' = Empty(4 * bucketCount) /\ at' = 0 /\ resizing' = FALSE
  /\ UNCHANGED <<size, ret>>

\* generic_hash_table_lookup
Lookup(k) ==
  LET chain == buckets[Index(k, bucketCount)] IN
  /\ ~ resizing
  /\ \/ \E j \in DOMAIN chain : FoundAt(chain, k, j) /\ ret' = chain[j].value
     \/ Absent(chain, k) /\ ret' = NoValue
  /\ UNCHANGED <<bucketCount, buckets, size, resizing, fresh, at>>

\* generic_hash_table_remove: the entry is unlinked from its chain.
Remove(k) ==
  LET b == Index(k, bucketCount)  chain == buckets[b] IN
  /\ ~ resizing
  /\ \/ \E j \in DOMAIN chain :
          /\ FoundAt(chain, k, j)
          /\ ret' = chain[j].value
          /\ buckets' = [buckets EXCEPT ![b] = SubSeq(chain, 1, j - 1) \o SubSeq(chain, j + 1, Len(chain))]
          /\ size' = size - 1
     \/ Absent(chain, k) /\ ret' = NoValue /\ UNCHANGED <<buckets, size>>
  /\ UNCHANGED <<bucketCount, resizing, fresh, at>>

InsertCall(k, v) == RefuseInsert(k, v) \/ \E calloc \in BOOLEAN : Insert(k, v, calloc)

Next == \/ MoveEntry \/ NextBucket \/ EndResize
        \/ \E k \in Keys : \/ Lookup(k) \/ Remove(k)
                           \/ \E v \in Values \cup {NoValue} : InsertCall(k, v)

Spec == Init /\ [][Next]_vars

-----------------------------------------------------------------------------
\* The arrays have the sizes the indices are computed for (ht->bucket_count
\* changes with ht->buckets), and every call returns what its type says.
TypeOK ==
  /\ bucketCount \in Nat \ {0} /\ size \in Nat /\ resizing \in BOOLEAN /\ at \in 0 .. bucketCount
  /\ buckets \in [0 .. bucketCount - 1 -> Seq(Entry)]
  /\ fresh \in [0 .. 2 * bucketCount - 1 -> Seq(Entry)]
  /\ ret \in Values \cup BOOLEAN \cup {NoValue}

Entries(table) == UNION {{table[b][j] : j \in DOMAIN table[b]} : b \in DOMAIN table}
Content    == Entries(buckets) \cup Entries(fresh)

\* ht->size, on which the decision to resize rests, is the number of entries
\* linked into the table: no insertion, removal or resize loses an entry or
\* links one twice.
SizeCounts == size = Cardinality(Content)

\* The map a table stands for, whatever chain and array an entry is in.
MapOf(C) == [k \in Keys |-> IF \E e \in C : e.key = k THEN (CHOOSE e \in C : e.key = k).value ELSE NoValue]
Map == MapOf(Content)
Abstract == INSTANCE SymbolMap WITH map <- Map

\* The table behaves as a map through every insertion, removal and resize,
\* failed allocations included: a lookup finds what was inserted under the
\* key and nothing else, and the relinking loop changes nothing a caller sees.
IsMap == Abstract!Spec
=============================================================================
