------------------------- MODULE MediaStoreProofs --------------------------
(***************************************************************************)
(* Proofs about MediaStore, for every Id (finite), Path and Digest.        *)
(***************************************************************************)
EXTENDS MediaStore, FiniteSetTheorems, TLAPS

-----------------------------------------------------------------------------
(* The primitives. *)

(* Letting go of an indexed item's count leaves naturals.                   *)
LEMMA ReleasedType ==
    ASSUME digests \in [Digest -> Nat], NEW old \in Item \cup {None}
    PROVE  Released(old) \in [Digest -> Nat]
<1>1. CASE old = None
  BY <1>1 DEF Released
<1>2. CASE old # None
  <2>1. old.sha \in Digest
    BY <1>2 DEF Item
  <2>2. (IF digests[old.sha] > 1 THEN digests[old.sha] - 1 ELSE 0) \in Nat
    BY <2>1
  <2> QED BY <1>2, <2>1, <2>2 DEF Released
<1> QED BY <1>1, <1>2

(* _put keeps the index and the counts well-typed.                          *)
LEMMA PutType ==
    ASSUME StoreTypeOK, NEW i \in Id, NEW item \in Item, Put(i, item)
    PROVE  /\ items' \in [Id -> Item \cup {None}]
           /\ digests' \in [Digest -> Nat]
<1>1. Released(items[i]) \in [Digest -> Nat]
  BY ReleasedType DEF StoreTypeOK
<1>2. item.sha \in Digest
  BY DEF Item
<1> QED BY <1>1, <1>2 DEF Put, StoreTypeOK

(* _drop does too.                                                          *)
LEMMA DropType ==
    ASSUME StoreTypeOK, NEW i \in Id, Drop(i)
    PROVE  /\ items' \in [Id -> Item \cup {None}]
           /\ digests' \in [Digest -> Nat]
<1>1. Released(items[i]) \in [Digest -> Nat]
  BY ReleasedType DEF StoreTypeOK
<1> QED BY <1>1 DEF Drop, StoreTypeOK

(* What a read may return is an item, at the same path and in the same      *)
(* tree, and only a re-extraction makes it another one.                     *)
LEMMA FetchedType ==
    ASSUME StoreTypeOK, NEW i \in Id, items[i] # None, NEW item \in Fetched(i)
    PROVE  /\ item \in Item
           /\ item.path = items[i].path
           /\ item.trashed = items[i].trashed
  BY DEF Fetched, StoreTypeOK, Item

LEMMA SaveType ==
    ASSUME StoreTypeOK, items' \in [Id -> Item \cup {None}], Save
    PROVE  index' \in [Id -> Item \cup {None}]
  BY DEF Save, StoreTypeOK

-----------------------------------------------------------------------------
(* Type correctness.                                                        *)

LEMMA StoreTypeInit == StoreInit => StoreTypeOK
  BY DEF StoreInit, StoreTypeOK

LEMMA StoreTypeStep == StoreTypeOK /\ [StoreNext]_storeVars => StoreTypeOK'
<1> SUFFICES ASSUME StoreTypeOK, [StoreNext]_storeVars PROVE StoreTypeOK'
  OBVIOUS
<1>1. ASSUME NEW i \in Id, NEW p \in Path, NEW d \in Digest, Upload(i, p, d)
      PROVE StoreTypeOK'
  <2>1. PICK stale \in BOOLEAN :
          Put(i, [path |-> p, sha |-> d, trashed |-> FALSE, stale |-> stale])
    BY <1>1 DEF Upload
  <2>2. [path |-> p, sha |-> d, trashed |-> FALSE, stale |-> stale] \in Item
    BY DEF Item
  <2>3. items' \in [Id -> Item \cup {None}] /\ digests' \in [Digest -> Nat]
    BY <2>1, <2>2, PutType
  <2>4. index' \in [Id -> Item \cup {None}]
    BY <1>1, <2>3, SaveType DEF Upload
  <2> QED BY <1>1, <2>3, <2>4 DEF Upload, StoreTypeOK
<1>2. ASSUME NEW i \in Id, Refresh(i) PROVE StoreTypeOK'
  <2>1. PICK item \in Fetched(i) :
          /\ Put(i, item)
          /\ touched' = IF item = items[i] THEN touched ELSE touched \cup {i}
    BY <1>2 DEF Refresh
  <2>2. items' \in [Id -> Item \cup {None}] /\ digests' \in [Digest -> Nat]
    BY <1>2, <2>1, FetchedType, PutType DEF Refresh
  <2>3. index' \in [Id -> Item \cup {None}]
    BY <1>2, <2>2, SaveType DEF Refresh
  <2> QED BY <1>2, <2>1, <2>2, <2>3 DEF Refresh, StoreTypeOK
<1>3. ASSUME NEW i \in Id, Hide(i) PROVE StoreTypeOK'
  <2>1. items[i] \in Item
    BY <1>3 DEF Hide, StoreTypeOK
  <2>2. items' \in [Id -> Item \cup {None}] /\ digests' \in [Digest -> Nat]
    BY <1>3, <2>1, PutType DEF Hide
  <2>3. index' \in [Id -> Item \cup {None}]
    BY <1>3, <2>2, SaveType DEF Hide
  <2> QED BY <1>3, <2>2, <2>3 DEF Hide, StoreTypeOK
<1>4. ASSUME NEW i \in Id, Trash(i) PROVE StoreTypeOK'
  <2>1. items[i] \in Item
    BY <1>4 DEF Trash, StoreTypeOK
  <2>2. [items[i] EXCEPT !.trashed = TRUE] \in Item
    BY <2>1 DEF Item
  <2>3. items' \in [Id -> Item \cup {None}] /\ digests' \in [Digest -> Nat]
    BY <1>4, <2>2, PutType DEF Trash
  <2>4. index' \in [Id -> Item \cup {None}]
    BY <1>4, <2>3, SaveType DEF Trash
  <2>5. media' \in [Path -> Digest \cup {None}] /\ trash' \in [Path -> Digest \cup {None}]
    BY <1>4, <2>1 DEF Trash, StoreTypeOK, Item
  <2> QED BY <1>4, <2>3, <2>4, <2>5 DEF Trash, StoreTypeOK
<1>5. ASSUME NEW i \in Id, DeletePermanent(i) PROVE StoreTypeOK'
  <2>1. items' \in [Id -> Item \cup {None}] /\ digests' \in [Digest -> Nat]
    BY <1>5, DropType DEF DeletePermanent
  <2>2. index' \in [Id -> Item \cup {None}]
    BY <1>5, <2>1, SaveType DEF DeletePermanent
  <2>3. media' \in [Path -> Digest \cup {None}] /\ trash' \in [Path -> Digest \cup {None}]
    BY <1>5 DEF DeletePermanent, StoreTypeOK
  <2> QED BY <1>5, <2>1, <2>2, <2>3 DEF DeletePermanent, StoreTypeOK
<1>6. ASSUME NEW i \in Id, Restore(i) PROVE StoreTypeOK'
  <2>1. items[i] \in Item
    BY <1>6 DEF Restore, StoreTypeOK
  <2>2. [items[i] EXCEPT !.trashed = FALSE] \in Item
    BY <2>1 DEF Item
  <2>3. items' \in [Id -> Item \cup {None}] /\ digests' \in [Digest -> Nat]
    BY <1>6, <2>2, PutType DEF Restore
  <2>4. index' \in [Id -> Item \cup {None}]
    BY <1>6, <2>3, SaveType DEF Restore
  <2>5. media' \in [Path -> Digest \cup {None}] /\ trash' \in [Path -> Digest \cup {None}]
    BY <1>6, <2>1 DEF Restore, StoreTypeOK, Item
  <2> QED BY <1>6, <2>3, <2>4, <2>5 DEF Restore, StoreTypeOK
<1>7. ASSUME NEW i \in Id, NEW d \in Digest, Transform(i, d) PROVE StoreTypeOK'
  <2>1. PICK item \in Fetched(i) : Put(i, [item EXCEPT !.sha = d, !.stale = FALSE])
    BY <1>7 DEF Transform
  <2>2. [item EXCEPT !.sha = d, !.stale = FALSE] \in Item
    BY <1>7, <2>1, FetchedType DEF Transform, Item
  <2>3. items' \in [Id -> Item \cup {None}] /\ digests' \in [Digest -> Nat]
    BY <2>1, <2>2, PutType
  <2>4. index' \in [Id -> Item \cup {None}]
    BY <1>7, <2>3, SaveType DEF Transform
  <2> QED BY <1>7, <2>3, <2>4 DEF Transform, StoreTypeOK
<1>8. ASSUME NEW i \in Id, NEW d \in Digest, TransformRaises(i, d) PROVE StoreTypeOK'
  <2>1. PICK item \in Fetched(i) : Put(i, item)
    BY <1>8 DEF TransformRaises
  <2>2. items' \in [Id -> Item \cup {None}] /\ digests' \in [Digest -> Nat]
    BY <1>8, <2>1, FetchedType, PutType DEF TransformRaises
  <2> QED BY <1>8, <2>2 DEF TransformRaises, StoreTypeOK
<1>9. CASE SaveIndex
  BY <1>9 DEF SaveIndex, StoreTypeOK
<1>10. CASE Restart
  <2>1. items' \in [Id -> Item \cup {None}]
    BY <1>10 DEF Restart, StoreTypeOK, Item
  <2>2. \A d \in Digest : Cardinality(Users(items', d)) \in Nat
    BY IdAssumption, FS_Subset, FS_CardinalityType DEF Users
  <2>3. digests' \in [Digest -> Nat]
    BY <1>10, <2>2 DEF Restart
  <2> QED BY <1>10, <2>1, <2>3 DEF Restart, StoreTypeOK
<1>11. CASE UNCHANGED storeVars
  BY <1>11 DEF storeVars, StoreTypeOK
<1> QED
  BY <1>1, <1>2, <1>3, <1>4, <1>5, <1>6, <1>7, <1>8, <1>9, <1>10, <1>11 DEF StoreNext, Handlers

(* Every variable of the library keeps its type in every behaviour.         *)
THEOREM StoreTypeCorrect == StoreSpec => []StoreTypeOK
  BY StoreTypeInit, StoreTypeStep, PTL DEF StoreSpec

-----------------------------------------------------------------------------
(* The reference counts.                                                    *)

LEMMA UsersFinite ==
    ASSUME NEW its, NEW d
    PROVE  IsFiniteSet(Users(its, d)) /\ Cardinality(Users(its, d)) \in Nat
  BY IdAssumption, FS_Subset, FS_CardinalityType DEF Users

(* A digest's count and the items that carry it differ by k: none when the  *)
(* handlers are alone.                                                      *)
CountedBy(d, k) == digests[d] = Cardinality(Users(items, d)) + k

(* Releasing an item's old count leaves, for every digest, the number of    *)
(* the other items that carry it.                                           *)
LEMMA ReleasedCounts ==
    ASSUME StoreTypeOK, NEW i \in Id, NEW d \in Digest, NEW k \in Nat, CountedBy(d, k)
    PROVE  Released(items[i])[d] = Cardinality(Users(items, d) \ {i}) + k
<1> DEFINE U == Users(items, d)
<1>1. IsFiniteSet(U) /\ Cardinality(U) \in Nat
  BY UsersFinite
<1>2. digests[d] = Cardinality(U) + k
  BY DEF CountedBy
<1>3. Cardinality(U \ {i}) = IF i \in U THEN Cardinality(U) - 1 ELSE Cardinality(U)
  BY <1>1, FS_RemoveElement
<1>4. i \in U <=> items[i] # None /\ items[i].sha = d
  BY DEF Users
<1>5. i \in U => Cardinality(U) # 0
  BY <1>1, FS_EmptySet
<1>6. CASE i \in U
  <2>1. Released(items[i])[d] = IF digests[d] > 1 THEN digests[d] - 1 ELSE 0
    BY <1>4, <1>6 DEF Released, StoreTypeOK
  <2> QED BY <1>1, <1>2, <1>3, <1>5, <1>6, <2>1
<1>7. CASE i \notin U
  <2>1. Released(items[i])[d] = digests[d]
    BY <1>4, <1>7 DEF Released, StoreTypeOK
  <2> QED BY <1>2, <1>3, <1>7, <2>1
<1> QED BY <1>6, <1>7

LEMMA PutCounts ==
    ASSUME StoreTypeOK, NEW i \in Id, NEW item \in Item, Put(i, item),
           NEW d \in Digest, NEW k \in Nat, CountedBy(d, k)
    PROVE  CountedBy(d, k)'
<1> DEFINE R == Released(items[i])
           Others == Users(items, d) \ {i}
<1>1. R \in [Digest -> Nat] /\ R[d] = Cardinality(Others) + k
  BY ReleasedType, ReleasedCounts DEF StoreTypeOK
<1>2. item # None /\ item.sha \in Digest
  BY NoneItemAssumption DEF Item
<1>3. Users(items', d) = IF item.sha = d THEN Others \cup {i} ELSE Others
  BY <1>2 DEF Users, Put, StoreTypeOK
<1>4. digests'[d] = IF item.sha = d THEN R[d] + 1 ELSE R[d]
  BY <1>1, <1>2 DEF Put
<1>5. IsFiniteSet(Others) /\ Cardinality(Others) \in Nat
  BY UsersFinite, FS_RemoveElement, FS_CardinalityType
<1>6. Cardinality(Others \cup {i}) = Cardinality(Others) + 1
  BY <1>5, FS_AddElement
<1> QED BY <1>1, <1>3, <1>4, <1>5, <1>6 DEF CountedBy

LEMMA DropCounts ==
    ASSUME StoreTypeOK, NEW i \in Id, Drop(i), NEW d \in Digest, NEW k \in Nat, CountedBy(d, k)
    PROVE  CountedBy(d, k)'
<1>1. Users(items', d) = Users(items, d) \ {i}
  BY DEF Users, Drop, StoreTypeOK
<1>2. digests'[d] = Released(items[i])[d]
  BY DEF Drop
<1> QED BY <1>1, <1>2, ReleasedCounts DEF CountedBy

LEMMA DigestsInit == StoreInit => DigestsExact
<1> SUFFICES ASSUME StoreInit, NEW d \in Digest
             PROVE  digests[d] = Cardinality(Users(items, d))
  BY DEF DigestsExact
<1>1. Users(items, d) = {}
  BY DEF StoreInit, Users
<1> QED BY <1>1, FS_EmptySet DEF StoreInit

(* Every handler reaches the counts through _put or _drop.                  *)
LEMMA HandlersCount ==
    ASSUME StoreTypeOK, [Handlers]_storeVars, NEW d \in Digest, NEW k \in Nat, CountedBy(d, k)
    PROVE  CountedBy(d, k)'
<1>1. ASSUME NEW i \in Id, NEW p \in Path, NEW c \in Digest, Upload(i, p, c)
      PROVE CountedBy(d, k)'
  <2>1. PICK stale \in BOOLEAN :
          Put(i, [path |-> p, sha |-> c, trashed |-> FALSE, stale |-> stale])
    BY <1>1 DEF Upload
  <2>2. [path |-> p, sha |-> c, trashed |-> FALSE, stale |-> stale] \in Item
    BY DEF Item
  <2> QED BY <2>1, <2>2, PutCounts
<1>2. ASSUME NEW i \in Id, Refresh(i) PROVE CountedBy(d, k)'
  BY <1>2, FetchedType, PutCounts DEF Refresh
<1>3. ASSUME NEW i \in Id, Hide(i) PROVE CountedBy(d, k)'
  <2>1. items[i] \in Item
    BY <1>3 DEF Hide, StoreTypeOK
  <2> QED BY <1>3, <2>1, PutCounts DEF Hide
<1>4. ASSUME NEW i \in Id, Trash(i) PROVE CountedBy(d, k)'
  <2>1. [items[i] EXCEPT !.trashed = TRUE] \in Item
    BY <1>4 DEF Trash, StoreTypeOK, Item
  <2> QED BY <1>4, <2>1, PutCounts DEF Trash
<1>5. ASSUME NEW i \in Id, DeletePermanent(i) PROVE CountedBy(d, k)'
  BY <1>5, DropCounts DEF DeletePermanent
<1>6. ASSUME NEW i \in Id, Restore(i) PROVE CountedBy(d, k)'
  <2>1. [items[i] EXCEPT !.trashed = FALSE] \in Item
    BY <1>6 DEF Restore, StoreTypeOK, Item
  <2> QED BY <1>6, <2>1, PutCounts DEF Restore
<1>7. ASSUME NEW i \in Id, NEW c \in Digest, Transform(i, c) PROVE CountedBy(d, k)'
  <2>1. PICK item \in Fetched(i) : Put(i, [item EXCEPT !.sha = c, !.stale = FALSE])
    BY <1>7 DEF Transform
  <2>2. [item EXCEPT !.sha = c, !.stale = FALSE] \in Item
    BY <1>7, <2>1, FetchedType DEF Transform, Item
  <2> QED BY <2>1, <2>2, PutCounts
<1>8. ASSUME NEW i \in Id, NEW c \in Digest, TransformRaises(i, c) PROVE CountedBy(d, k)'
  BY <1>8, FetchedType, PutCounts DEF TransformRaises
<1>9. CASE SaveIndex
  BY <1>9 DEF SaveIndex, CountedBy, Users
<1>10. CASE UNCHANGED storeVars
  BY <1>10 DEF storeVars, CountedBy, Users
<1> QED BY <1>1, <1>2, <1>3, <1>4, <1>5, <1>6, <1>7, <1>8, <1>9, <1>10 DEF Handlers

(* A reload counts anew.                                                    *)
LEMMA DigestsStep == StoreTypeOK /\ DigestsExact /\ [StoreNext]_storeVars => DigestsExact'
<1> SUFFICES ASSUME StoreTypeOK, DigestsExact, [StoreNext]_storeVars PROVE DigestsExact'
  OBVIOUS
<1>1. CASE [Handlers]_storeVars
  <2>1. \A d \in Digest : CountedBy(d, 0)
    BY UsersFinite DEF DigestsExact, CountedBy
  <2>2. \A d \in Digest : CountedBy(d, 0)'
    BY <1>1, <2>1, HandlersCount
  <2>3. \A d \in Digest : Cardinality(Users(items', d)) \in Nat
    BY UsersFinite
  <2> QED BY <2>2, <2>3 DEF DigestsExact, CountedBy
<1>2. CASE Restart
  BY <1>2 DEF Restart, DigestsExact
<1> QED BY <1>1, <1>2 DEF StoreNext

(* A digest's count is always the number of indexed items that carry it.    *)
THEOREM StoreDigestsExact == StoreSpec => []DigestsExact
<1>1. StoreInit => StoreTypeOK /\ DigestsExact
  BY StoreTypeInit, DigestsInit
<1>2. StoreTypeOK /\ DigestsExact /\ [StoreNext]_storeVars => (StoreTypeOK /\ DigestsExact)'
  BY StoreTypeStep, DigestsStep
<1> QED BY <1>1, <1>2, PTL DEF StoreSpec

-----------------------------------------------------------------------------
(* Deduplication.  A restart reads the index file back, so the file must be *)
(* free of duplicates as well as the index.                                 *)

DedupInv ==
    /\ StoreTypeOK
    /\ DigestsExact
    /\ Deduped(items)
    /\ Deduped(index)

(* A put that gives an untouched item no digest an untouched item has keeps *)
(* the index free of duplicates, and with it what Save writes.              *)
LEMMA PutDeduped ==
    ASSUME DedupInv, touched \subseteq touched',
           NEW i \in Id, NEW item \in Item, Put(i, item),
           i \in touched' \/ (items[i] # None /\ item.sha = items[i].sha)
           \/ Users(items, item.sha) = {}
    PROVE  Deduped(items)'
<1> SUFFICES ASSUME NEW j \in Id \ touched', NEW k \in Id \ touched', j # k,
                    items'[j] # None, items'[k] # None
             PROVE  items'[j].sha # items'[k].sha
  BY DEF Deduped
<1>1. /\ items'[i] = item
      /\ \A x \in Id \ {i} : items'[x] = items[x]
  BY DEF Put, DedupInv, StoreTypeOK
<1>2. CASE j # i /\ k # i
  BY <1>1, <1>2 DEF DedupInv, Deduped
<1>3. ASSUME NEW x \in Id \ touched', x # i, items'[x] # None, i \notin touched'
      PROVE  items'[x].sha # item.sha
  <2>1. items[x] # None /\ items'[x] = items[x]
    BY <1>1, <1>3
  <2>2. CASE Users(items, item.sha) = {}
    BY <2>1, <2>2 DEF Users
  <2>3. CASE items[i] # None /\ item.sha = items[i].sha
    BY <1>3, <2>1, <2>3 DEF DedupInv, Deduped
  <2> QED BY <1>3, <2>2, <2>3
<1> QED BY <1>1, <1>2, <1>3

LEMMA SaveDeduped ==
    ASSUME DedupInv, touched \subseteq touched', Deduped(items)', Save
    PROVE  Deduped(index)'
  BY DEF DedupInv, Deduped, Save

LEMMA DedupStep == DedupInv /\ [StoreNext]_storeVars => DedupInv'
<1> SUFFICES ASSUME DedupInv, [StoreNext]_storeVars
             PROVE  Deduped(items)' /\ Deduped(index)'
  BY StoreTypeStep, DigestsStep DEF DedupInv
<1> USE DEF DedupInv
<1>1. ASSUME NEW i \in Id, NEW p \in Path, NEW d \in Digest, Upload(i, p, d)
      PROVE Deduped(items)' /\ Deduped(index)'
  <2>1. PICK stale \in BOOLEAN :
          Put(i, [path |-> p, sha |-> d, trashed |-> FALSE, stale |-> stale])
    BY <1>1 DEF Upload
  <2>2. [path |-> p, sha |-> d, trashed |-> FALSE, stale |-> stale] \in Item
    BY DEF Item
  <2>3. Users(items, d) = {}
    BY <1>1, UsersFinite, FS_EmptySet DEF Upload, DigestsExact
  <2>4. Deduped(items)'
    BY <1>1, <2>1, <2>2, <2>3, PutDeduped DEF Upload
  <2> QED BY <1>1, <2>4, SaveDeduped DEF Upload
<1>2. ASSUME NEW i \in Id, Refresh(i) PROVE Deduped(items)' /\ Deduped(index)'
  <2>1. PICK item \in Fetched(i) :
          /\ Put(i, item)
          /\ touched' = IF item = items[i] THEN touched ELSE touched \cup {i}
    BY <1>2 DEF Refresh
  <2>2. item \in Item /\ touched \subseteq touched'
    BY <1>2, <2>1, FetchedType DEF Refresh
  <2>3. Deduped(items)'
    BY <1>2, <2>1, <2>2, PutDeduped DEF Refresh
  <2> QED BY <1>2, <2>2, <2>3, SaveDeduped DEF Refresh
<1>3. ASSUME NEW i \in Id, Hide(i) PROVE Deduped(items)' /\ Deduped(index)'
  <2>1. items[i] \in Item
    BY <1>3 DEF Hide, StoreTypeOK
  <2>2. Deduped(items)'
    BY <1>3, <2>1, PutDeduped DEF Hide
  <2> QED BY <1>3, <2>2, SaveDeduped DEF Hide
<1>4. ASSUME NEW i \in Id, Trash(i) PROVE Deduped(items)' /\ Deduped(index)'
  <2> DEFINE item == [items[i] EXCEPT !.trashed = TRUE]
  <2>1. item \in Item /\ item.sha = items[i].sha
    BY <1>4 DEF Trash, StoreTypeOK, Item
  <2>2. Put(i, item) /\ touched \subseteq touched' /\ items[i] # None /\ Save
    BY <1>4 DEF Trash
  <2>3. Deduped(items)'
    BY <2>1, <2>2, PutDeduped
  <2> QED BY <2>2, <2>3, SaveDeduped
<1>5. ASSUME NEW i \in Id, DeletePermanent(i) PROVE Deduped(items)' /\ Deduped(index)'
  <2>1. Deduped(items)'
    BY <1>5 DEF DeletePermanent, Drop, Deduped, StoreTypeOK
  <2> QED BY <1>5, <2>1, SaveDeduped DEF DeletePermanent
<1>6. ASSUME NEW i \in Id, Restore(i) PROVE Deduped(items)' /\ Deduped(index)'
  <2> DEFINE item == [items[i] EXCEPT !.trashed = FALSE]
  <2>1. item \in Item /\ item.sha = items[i].sha
    BY <1>6 DEF Restore, StoreTypeOK, Item
  <2>2. Put(i, item) /\ touched \subseteq touched' /\ items[i] # None /\ Save
    BY <1>6 DEF Restore
  <2>3. Deduped(items)'
    BY <2>1, <2>2, PutDeduped
  <2> QED BY <2>2, <2>3, SaveDeduped
<1>7. ASSUME NEW i \in Id, NEW d \in Digest, Transform(i, d)
      PROVE Deduped(items)' /\ Deduped(index)'
  <2>1. PICK item \in Fetched(i) : Put(i, [item EXCEPT !.sha = d, !.stale = FALSE])
    BY <1>7 DEF Transform
  <2>2. [item EXCEPT !.sha = d, !.stale = FALSE] \in Item
    BY <1>7, <2>1, FetchedType DEF Transform, Item
  <2>3. touched \subseteq touched' /\ i \in touched' /\ Save
    BY <1>7 DEF Transform
  <2>4. Deduped(items)'
    BY <2>1, <2>2, <2>3, PutDeduped
  <2> QED BY <2>3, <2>4, SaveDeduped
<1>8. ASSUME NEW i \in Id, NEW d \in Digest, TransformRaises(i, d)
      PROVE Deduped(items)' /\ Deduped(index)'
  <2>1. PICK item \in Fetched(i) : Put(i, item)
    BY <1>8 DEF TransformRaises
  <2>2. item \in Item
    BY <1>8, <2>1, FetchedType DEF TransformRaises
  <2>3. touched \subseteq touched' /\ i \in touched' /\ index' = index
    BY <1>8 DEF TransformRaises
  <2>4. Deduped(items)'
    BY <2>1, <2>2, <2>3, PutDeduped
  <2> QED BY <2>3, <2>4 DEF Deduped
<1>9. CASE SaveIndex
  BY <1>9 DEF SaveIndex, Deduped
<1>10. CASE Restart
  <2>1. \A i \in Id : items'[i] # None => index[i] # None /\ items'[i].sha = index[i].sha
    BY <1>10 DEF Restart, StoreTypeOK, Item
  <2> QED BY <1>10, <2>1 DEF Restart, Deduped
<1>11. CASE UNCHANGED storeVars
  BY <1>11 DEF storeVars, Deduped
<1> QED
  BY <1>1, <1>2, <1>3, <1>4, <1>5, <1>6, <1>7, <1>8, <1>9, <1>10, <1>11 DEF StoreNext, Handlers

(* Two indexed items share a digest only if one of them was rewritten or    *)
(* re-extracted since it was ingested.                                      *)
THEOREM StoreDedupHolds == StoreSpec => []DedupHolds
<1>1. StoreInit => DedupInv
  BY StoreTypeInit, DigestsInit DEF StoreInit, DedupInv, Deduped
<1>2. DedupInv => DedupHolds
  BY DEF DedupInv, DedupHolds
<1> QED BY <1>1, <1>2, DedupStep, PTL DEF StoreSpec

-----------------------------------------------------------------------------
(* Where the files are.  Items that come back from an older index bring     *)
(* their files along, so the invariant speaks of every id that was handed   *)
(* out, indexed or not, and of paths that never were.                       *)

KeepsPath(its) == \A i \in Id : its[i] # None => issued[i] = its[i].path

(* No file is at a path no item was ingested at.                            *)
FreshPathsEmpty ==
    \A p \in Path : (\A i \in Id : issued[i] # p) => media[p] = None /\ trash[p] = None

Held(i) == (media[issued[i]] = None) # (trash[issued[i]] = None)

FlagTells(i) == items[i].trashed <=> trash[items[i].path] # None

PlaceInv ==
    /\ StoreTypeOK
    /\ KeepsPath(items)
    /\ KeepsPath(index)
    /\ FreshPathsEmpty
    /\ \A i \in Id \ purged : SolePath(i) => Held(i)
    /\ \A i \in purged : issued[i] # None
    /\ clean => Indexed \cap purged = {}
    /\ clean => \A i \in Indexed : SolePath(i) => FlagTells(i)

LEMMA PlaceInit == StoreInit => PlaceInv
<1> SUFFICES ASSUME StoreInit PROVE PlaceInv
  OBVIOUS
<1>1. StoreTypeOK
  BY StoreTypeInit
<1> QED BY <1>1 DEF StoreInit, PlaceInv, KeepsPath, FreshPathsEmpty, SolePath, Indexed

(* Items are changed only in place: no step but Upload gives an id a path.  *)
LEMMA PutKeepsPath ==
    ASSUME PlaceInv, issued' = issued, NEW i \in Id, NEW item \in Item, Put(i, item),
           items[i] # None, item.path = items[i].path
    PROVE  /\ KeepsPath(items)'
           /\ Indexed' = Indexed
           /\ index' \in {items', index} => KeepsPath(index)'
<1>1. /\ items'[i] = item
      /\ \A x \in Id \ {i} : items'[x] = items[x]
  BY DEF Put, PlaceInv, StoreTypeOK
<1>2. item # None
  BY NoneItemAssumption
<1> QED BY <1>1, <1>2 DEF PlaceInv, KeepsPath, Indexed

(* An item alone on its path shares it with no indexed item.                *)
LEMMA SoleIsAlone ==
    ASSUME PlaceInv, NEW i \in Id, SolePath(i), NEW j \in Id \ {i}, items[j] # None
    PROVE  items[j].path # issued[i]
  BY DEF PlaceInv, KeepsPath, SolePath

(* A handler of item i touches files at that item's path only, so what the  *)
(* invariant says of every other id and path stands.                        *)
LEMMA Elsewhere ==
    ASSUME PlaceInv, StoreTypeOK', NEW i \in Id, items[i] # None,
           issued' = issued, purged \subseteq purged', clean' = clean,
           \A j \in Id \ {i} : items'[j] = items[j],
           \A p \in Path \ {items[i].path} : media'[p] = media[p] /\ trash'[p] = trash[p]
    PROVE  /\ FreshPathsEmpty'
           /\ \A j \in Id \ {i} : j \notin purged' /\ SolePath(j)' => Held(j)'
           /\ clean' => \A j \in Indexed' \ {i} : SolePath(j)' => FlagTells(j)'
<1>1. issued[i] = items[i].path /\ items[i].path \in Path
  BY DEF PlaceInv, KeepsPath, StoreTypeOK, Item
<1>2. FreshPathsEmpty'
  BY <1>1 DEF PlaceInv, FreshPathsEmpty
<1>3. ASSUME NEW j \in Id \ {i}, SolePath(j)'
      PROVE  /\ SolePath(j)
             /\ issued[j] \in Path \ {items[i].path}
  BY <1>1, <1>3 DEF SolePath, PlaceInv, StoreTypeOK
<1>4. ASSUME NEW j \in Id \ {i}, j \notin purged', SolePath(j)' PROVE Held(j)'
  BY <1>3, <1>4 DEF PlaceInv, Held
<1>5. ASSUME clean', NEW j \in Indexed' \ {i}, SolePath(j)' PROVE FlagTells(j)'
  <2>1. j \in Id \ {i} /\ j \in Indexed /\ items'[j] = items[j]
    BY <1>5 DEF Indexed
  <2>2. items[j].path = issued[j]
    BY <2>1 DEF PlaceInv, KeepsPath, Indexed
  <2> QED BY <1>3, <1>5, <2>1, <2>2 DEF PlaceInv, FlagTells
<1> QED BY <1>2, <1>4, <1>5

(* What is left to show of a handler that puts item i back at its path.     *)
LEMMA InPlace ==
    ASSUME PlaceInv, StoreTypeOK', NEW i \in Id, items[i] # None,
           NEW item \in Item, Put(i, item), item.path = items[i].path,
           issued' = issued, purged' = purged, clean' = clean,
           index' \in {items', index},
           \A p \in Path \ {items[i].path} : media'[p] = media[p] /\ trash'[p] = trash[p],
           i \notin purged /\ SolePath(i) => Held(i)',
           clean /\ SolePath(i) => FlagTells(i)'
    PROVE  PlaceInv'
<1>1. /\ \A j \in Id \ {i} : items'[j] = items[j]
      /\ KeepsPath(items)' /\ Indexed' = Indexed /\ KeepsPath(index)'
  BY PutKeepsPath DEF Put, PlaceInv, StoreTypeOK
<1>2. /\ FreshPathsEmpty'
      /\ \A j \in Id \ {i} : j \notin purged' /\ SolePath(j)' => Held(j)'
      /\ clean' => \A j \in Indexed' \ {i} : SolePath(j)' => FlagTells(j)'
  BY <1>1, Elsewhere
<1>3. SolePath(i)' = SolePath(i)
  BY DEF SolePath
<1>4. \A j \in Id \ purged' : SolePath(j)' => Held(j)'
  BY <1>2, <1>3
<1>5. clean' => \A j \in Indexed' : SolePath(j)' => FlagTells(j)'
  BY <1>2, <1>3
<1> QED BY <1>1, <1>2, <1>4, <1>5 DEF PlaceInv

LEMMA PlaceUpload ==
    ASSUME PlaceInv, StoreTypeOK', NEW i \in Id, NEW p \in Path, NEW d \in Digest,
           Upload(i, p, d)
    PROVE  PlaceInv'
<1>1. PICK stale \in BOOLEAN :
        Put(i, [path |-> p, sha |-> d, trashed |-> FALSE, stale |-> stale])
  BY DEF Upload
<1> DEFINE item == [path |-> p, sha |-> d, trashed |-> FALSE, stale |-> stale]
<1>2. item \in Item /\ item # None
  <2>1. item \in Item
    BY DEF Item
  <2> QED BY <2>1, NoneItemAssumption
<1>3. /\ items'[i] = item
      /\ \A x \in Id \ {i} : items'[x] = items[x]
  BY <1>1 DEF Put, PlaceInv, StoreTypeOK
<1>4. /\ issued[i] = None
      /\ issued'[i] = p
      /\ \A x \in Id \ {i} : issued'[x] = issued[x]
      /\ purged' = purged /\ clean' = clean
      /\ media' = [media EXCEPT ![p] = d] /\ trash' = trash
  BY DEF Upload, PlaceInv, StoreTypeOK
<1>5. items[i] = None /\ index[i] = None
  BY <1>4, NoneAssumption DEF PlaceInv, KeepsPath, StoreTypeOK, Item
<1>6. KeepsPath(items)' /\ KeepsPath(index)'
  <2>1. KeepsPath(items)'
    BY <1>3, <1>4 DEF PlaceInv, KeepsPath
  <2>2. ASSUME index' = index PROVE KeepsPath(index)'
    BY <1>4, <1>5, <2>2 DEF PlaceInv, KeepsPath
  <2> QED BY <2>1, <2>2 DEF Upload, Save, KeepsPath
<1>7. FreshPathsEmpty'
  BY <1>4, NoneAssumption DEF PlaceInv, FreshPathsEmpty, StoreTypeOK
<1>8. ASSUME NEW j \in Id \ {i}, SolePath(j)'
      PROVE  SolePath(j) /\ issued[j] \in Path \ {p} /\ issued'[j] = issued[j]
  <2>1. SolePath(j)
    BY <1>4, <1>8 DEF SolePath, PlaceInv, StoreTypeOK
  <2> QED BY <1>4, <1>8, <2>1 DEF SolePath, PlaceInv, StoreTypeOK
<1>9. SolePath(i)' => media[p] = None /\ trash[p] = None
  <2>1. SolePath(i)' => \A j \in Id : issued[j] # p
    BY <1>4, NoneAssumption DEF SolePath
  <2> QED BY <2>1 DEF PlaceInv, FreshPathsEmpty
<1>10. \A j \in Id \ purged' : SolePath(j)' => Held(j)'
  <2>1. SolePath(i)' => Held(i)'
    BY <1>4, <1>9, NoneAssumption DEF Held, PlaceInv, StoreTypeOK
  <2>2. ASSUME NEW j \in Id \ {i}, j \notin purged', SolePath(j)' PROVE Held(j)'
    BY <1>4, <1>8, <2>2 DEF Held, PlaceInv, StoreTypeOK
  <2> QED BY <2>1, <2>2
<1>11. Indexed' = Indexed \cup {i} /\ i \notin purged
  BY <1>2, <1>3, <1>4 DEF Indexed, PlaceInv
<1>12. ASSUME clean', NEW j \in Indexed', SolePath(j)' PROVE FlagTells(j)'
  <2>1. CASE j = i
    BY <1>3, <1>4, <1>9, <1>12, <2>1 DEF FlagTells
  <2>2. CASE j # i
    <3>1. j \in Id \ {i} /\ j \in Indexed
      BY <1>11, <2>2 DEF Indexed
    <3>2. items[j].path = issued[j]
      BY <3>1 DEF PlaceInv, KeepsPath, Indexed
    <3> QED BY <1>3, <1>4, <1>8, <1>12, <3>1, <3>2 DEF PlaceInv, FlagTells
  <2> QED BY <2>1, <2>2
<1>13. (\A j \in purged : issued[j] # None)'
  BY <1>4, NoneAssumption DEF PlaceInv, StoreTypeOK
<1>14. clean' => Indexed' \cap purged' = {}
  BY <1>4, <1>11 DEF PlaceInv
<1> QED BY <1>6, <1>7, <1>10, <1>12, <1>13, <1>14 DEF PlaceInv

LEMMA PlaceRestart ==
    ASSUME PlaceInv, StoreTypeOK', Restart
    PROVE  PlaceInv'
<1>1. \A i \in Id : /\ items'[i] # None <=> index[i] # None
                    /\ index[i] # None => /\ items'[i].path = index[i].path
                                          /\ items'[i].trashed = index[i].trashed
  BY NoneItemAssumption DEF Restart, PlaceInv, StoreTypeOK, Item
<1>2. KeepsPath(items)' /\ KeepsPath(index)'
  BY <1>1 DEF PlaceInv, KeepsPath, Restart
<1>3. FreshPathsEmpty' /\ \A i \in Id \ purged' : SolePath(i)' => Held(i)'
  BY DEF PlaceInv, FreshPathsEmpty, SolePath, Held, Restart
<1>4. ASSUME clean' PROVE Indexed' = Indexed /\ \A i \in Indexed : FlagTells(i)' = FlagTells(i)
  BY <1>1, <1>4 DEF Indexed, FlagTells, Restart
<1>5. clean' => clean /\ purged' = purged /\ issued' = issued
  BY DEF Restart
<1> QED BY <1>2, <1>3, <1>4, <1>5 DEF PlaceInv, SolePath, Restart

LEMMA PlaceDelete ==
    ASSUME PlaceInv, StoreTypeOK', NEW i \in Id, DeletePermanent(i)
    PROVE  PlaceInv'
<1>1. /\ items'[i] = None
      /\ \A j \in Id \ {i} : items'[j] = items[j]
  BY DEF DeletePermanent, Drop, PlaceInv, StoreTypeOK
<1>2. issued[i] = items[i].path /\ items[i].path \in Path /\ items[i] # None
  BY DEF DeletePermanent, PlaceInv, KeepsPath, StoreTypeOK, Item
<1>3. /\ issued' = issued /\ purged' = purged \cup {i} /\ clean' = clean
      /\ \A p \in Path \ {items[i].path} : media'[p] = media[p] /\ trash'[p] = trash[p]
  BY DEF DeletePermanent, PlaceInv, StoreTypeOK
<1>4. KeepsPath(items)' /\ KeepsPath(index)'
  BY <1>1, <1>3 DEF DeletePermanent, Save, PlaceInv, KeepsPath
<1>5. Indexed' = Indexed \ {i}
  BY <1>1 DEF Indexed
<1>6. /\ FreshPathsEmpty'
      /\ \A j \in Id \ {i} : j \notin purged' /\ SolePath(j)' => Held(j)'
      /\ clean' => \A j \in Indexed' \ {i} : SolePath(j)' => FlagTells(j)'
  BY <1>1, <1>2, <1>3, Elsewhere
<1>7. \A j \in Id \ purged' : SolePath(j)' => Held(j)'
  BY <1>3, <1>6
<1>8. clean' => \A j \in Indexed' : SolePath(j)' => FlagTells(j)'
  BY <1>5, <1>6
<1>9. (\A j \in purged : issued[j] # None)'
  BY <1>2, <1>3, NoneAssumption DEF PlaceInv
<1>10. clean' => Indexed' \cap purged' = {}
  BY <1>3, <1>5 DEF PlaceInv
<1> QED BY <1>4, <1>6, <1>7, <1>8, <1>9, <1>10 DEF PlaceInv

LEMMA PlaceStep == PlaceInv /\ [StoreNext]_storeVars => PlaceInv'
<1> SUFFICES ASSUME PlaceInv, [StoreNext]_storeVars PROVE PlaceInv'
  OBVIOUS
<1>t. StoreTypeOK'
  BY StoreTypeStep DEF PlaceInv
<1>0. ASSUME NEW i \in Id, items[i] # None
      PROVE  /\ items[i] \in Item /\ issued[i] = items[i].path /\ items[i].path \in Path
             /\ i \in Indexed
             /\ clean => i \notin purged
             /\ clean /\ SolePath(i) => Held(i) /\ FlagTells(i)
  BY <1>0 DEF PlaceInv, KeepsPath, StoreTypeOK, Item, Indexed
<1>1. ASSUME NEW i \in Id, NEW p \in Path, NEW d \in Digest, Upload(i, p, d)
      PROVE PlaceInv'
  BY <1>t, <1>1, PlaceUpload
<1>2. ASSUME NEW i \in Id, NEW item \in Item, items[i] # None, Put(i, item),
             item.path = items[i].path, item.trashed = items[i].trashed,
             issued' = issued, purged' = purged, clean' = clean, trash' = trash,
             index' \in {items', index},
             \A p \in Path \ {items[i].path} : media'[p] = media[p],
             media'[items[i].path] = None <=> media[items[i].path] = None
      PROVE PlaceInv'
  <2>1. items'[i] = item
    BY <1>2 DEF Put, PlaceInv, StoreTypeOK
  <2>2. i \notin purged /\ SolePath(i) => Held(i)'
    BY <1>0, <1>2 DEF PlaceInv, Held
  <2>3. clean /\ SolePath(i) => FlagTells(i)'
    BY <1>0, <1>2, <2>1 DEF FlagTells
  <2> QED BY <1>t, <1>2, <2>2, <2>3, InPlace
<1>3. ASSUME NEW i \in Id, Refresh(i) PROVE PlaceInv'
  <2>1. PICK item \in Fetched(i) : Put(i, item)
    BY <1>3 DEF Refresh
  <2>2. item \in Item /\ item.path = items[i].path /\ item.trashed = items[i].trashed
    BY <1>3, <2>1, FetchedType DEF Refresh, PlaceInv
  <2>3. /\ items[i] # None /\ index' \in {items', index}
        /\ issued' = issued /\ purged' = purged /\ clean' = clean
        /\ trash' = trash /\ media' = media
    BY <1>3 DEF Refresh, Save
  <2> QED BY <1>2, <2>1, <2>2, <2>3
<1>4. ASSUME NEW i \in Id, Hide(i) PROVE PlaceInv'
  <2>1. /\ items[i] # None /\ Put(i, items[i]) /\ index' \in {items', index}
        /\ issued' = issued /\ purged' = purged /\ clean' = clean
        /\ trash' = trash /\ media' = media
    BY <1>4 DEF Hide, Save
  <2>2. items[i] \in Item
    BY <1>0, <2>1
  <2> QED BY <1>2, <2>1, <2>2
<1>5. ASSUME NEW i \in Id, Trash(i) PROVE PlaceInv'
  <2> DEFINE item == [items[i] EXCEPT !.trashed = TRUE]
             p == items[i].path
  <2>1. /\ item \in Item /\ item.path = p /\ item.trashed = TRUE /\ items[i] # None
        /\ Put(i, item) /\ p \in Path /\ issued[i] = p
    BY <1>0, <1>5 DEF Trash, Item
  <2>2. items'[i] = item
    BY <2>1 DEF Put, PlaceInv, StoreTypeOK
  <2>3. /\ issued' = issued /\ purged' = purged /\ clean' = clean /\ index' \in {items', index}
        /\ \A q \in Path \ {p} : media'[q] = media[q] /\ trash'[q] = trash[q]
    BY <1>5 DEF Trash, Save, PlaceInv, StoreTypeOK
  <2>4. /\ media[p] # None => media'[p] = None /\ trash'[p] # None
        /\ media[p] = None => media'[p] = None /\ trash'[p] = trash[p]
    BY <1>5, <2>1 DEF Trash, PlaceInv, StoreTypeOK
  <2>5. i \notin purged /\ SolePath(i) => trash'[p] # None /\ media'[p] = None
    BY <2>1, <2>4 DEF PlaceInv, Held
  <2>6. i \notin purged /\ SolePath(i) => Held(i)'
    BY <2>1, <2>3, <2>5 DEF Held
  <2>7. clean /\ SolePath(i) => FlagTells(i)'
    BY <1>0, <2>1, <2>2, <2>5 DEF FlagTells
  <2> QED BY <1>t, <2>1, <2>3, <2>6, <2>7, InPlace
<1>6. ASSUME NEW i \in Id, Restore(i) PROVE PlaceInv'
  <2> DEFINE item == [items[i] EXCEPT !.trashed = FALSE]
             p == items[i].path
  <2>1. /\ item \in Item /\ item.path = p /\ item.trashed = FALSE /\ items[i] # None
        /\ items[i].trashed /\ Put(i, item) /\ p \in Path /\ issued[i] = p
    BY <1>0, <1>6 DEF Restore, Item
  <2>2. items'[i] = item
    BY <2>1 DEF Put, PlaceInv, StoreTypeOK
  <2>3. /\ issued' = issued /\ purged' = purged /\ clean' = clean /\ index' \in {items', index}
        /\ \A q \in Path \ {p} : media'[q] = media[q] /\ trash'[q] = trash[q]
    BY <1>6 DEF Restore, Save, PlaceInv, StoreTypeOK
  <2>4. media'[p] # None /\ trash'[p] = None
    BY <1>6, <2>1 DEF Restore, PlaceInv, StoreTypeOK
  <2>5. Held(i)' /\ FlagTells(i)'
    BY <2>1, <2>2, <2>3, <2>4 DEF Held, FlagTells
  <2> QED BY <1>t, <2>1, <2>3, <2>5, InPlace
<1>7. ASSUME NEW i \in Id, DeletePermanent(i) PROVE PlaceInv'
  BY <1>t, <1>7, PlaceDelete
<1>8. ASSUME NEW i \in Id, NEW d \in Digest, Transform(i, d) PROVE PlaceInv'
  <2>1. PICK item \in Fetched(i) : Put(i, [item EXCEPT !.sha = d, !.stale = FALSE])
    BY <1>8 DEF Transform
  <2> DEFINE new == [item EXCEPT !.sha = d, !.stale = FALSE]
  <2>2. new \in Item /\ new.path = items[i].path /\ new.trashed = items[i].trashed
    BY <1>8, <2>1, FetchedType DEF Transform, PlaceInv, Item
  <2>3. /\ items[i] # None /\ index' \in {items', index}
        /\ issued' = issued /\ purged' = purged /\ clean' = clean /\ trash' = trash
        /\ media[items[i].path] # None /\ media' = [media EXCEPT ![items[i].path] = d]
    BY <1>8 DEF Transform, Save
  <2>4. /\ \A p \in Path \ {items[i].path} : media'[p] = media[p]
        /\ media'[items[i].path] = None <=> media[items[i].path] = None
    BY <1>0, <2>3, NoneAssumption DEF PlaceInv, StoreTypeOK
  <2> QED BY <1>2, <2>1, <2>2, <2>3, <2>4
<1>9. ASSUME NEW i \in Id, NEW d \in Digest, TransformRaises(i, d) PROVE PlaceInv'
  <2>1. PICK item \in Fetched(i) : Put(i, item)
    BY <1>9 DEF TransformRaises
  <2>2. item \in Item /\ item.path = items[i].path /\ item.trashed = items[i].trashed
    BY <1>9, <2>1, FetchedType DEF TransformRaises, PlaceInv
  <2>3. /\ items[i] # None /\ index' \in {items', index}
        /\ issued' = issued /\ purged' = purged /\ clean' = clean /\ trash' = trash
        /\ media[items[i].path] # None /\ media' = [media EXCEPT ![items[i].path] = d]
    BY <1>9 DEF TransformRaises, Save
  <2>4. /\ \A p \in Path \ {items[i].path} : media'[p] = media[p]
        /\ media'[items[i].path] = None <=> media[items[i].path] = None
    BY <1>0, <2>3, NoneAssumption DEF PlaceInv, StoreTypeOK
  <2> QED BY <1>2, <2>1, <2>2, <2>3, <2>4
<1>10. CASE SaveIndex
  BY <1>t, <1>10 DEF SaveIndex, PlaceInv, KeepsPath, FreshPathsEmpty, SolePath, Held, FlagTells,
     Indexed
<1>11. CASE Restart
  BY <1>t, <1>11, PlaceRestart
<1>12. CASE UNCHANGED storeVars
  BY <1>t, <1>12 DEF storeVars, PlaceInv, KeepsPath, FreshPathsEmpty, SolePath, Held, FlagTells,
     Indexed
<1> QED
  BY <1>1, <1>3, <1>4, <1>5, <1>6, <1>7, <1>8, <1>9, <1>10, <1>11, <1>12 DEF StoreNext, Handlers

(* The bytes of an item alone on its path are in exactly one of the two     *)
(* trees until a permanent delete is asked for.                             *)
THEOREM StoreOnePlace == StoreSpec => []OnePlace
<1>1. PlaceInv => OnePlace
  BY DEF PlaceInv, KeepsPath, OnePlace, Indexed, Held
<1> QED BY <1>1, PlaceInit, PlaceStep, PTL DEF StoreSpec

(* While nothing unsaved was lost, the trashed mark tells the file's tree.  *)
THEOREM StoreFlagTellsPlace == StoreSpec => []FlagTellsPlace
<1>1. PlaceInv => FlagTellsPlace
  BY DEF PlaceInv, FlagTellsPlace, FlagTells
<1> QED BY <1>1, PlaceInit, PlaceStep, PTL DEF StoreSpec

(* A step of the library changes the bytes of an item alone on its path     *)
(* only by rewriting that item, or by its permanent delete.                 *)
LEMMA BytesStep ==
    ASSUME PlaceInv, StoreNext, NEW i \in Id,
           issued[i] # None, SolePath(i)', i \notin purged', Bytes(issued[i])' # Bytes(issued[i])
    PROVE  \E d \in Digest : Transform(i, d) \/ TransformRaises(i, d)
<1> USE DEF PlaceInv
<1>u. issued'[i] = issued[i]
  BY DEF StoreNext, Handlers, Upload, Refresh, Hide, Trash, DeletePermanent, Restore, Transform,
     TransformRaises, SaveIndex, Restart, StoreTypeOK
<1>0. issued[i] \in Path /\ ~(media' = media /\ trash' = trash)
  BY <1>u DEF Bytes, StoreTypeOK
<1>1. ASSUME NEW j \in Id, items[j] # None, issued' = issued
      PROVE  /\ issued[j] = items[j].path /\ SolePath(i)
             /\ j # i => items[j].path # issued[i]
  BY <1>1 DEF KeepsPath, SolePath
<1>2. ASSUME NEW j \in Id, NEW p \in Path, NEW d \in Digest, Upload(j, p, d) PROVE FALSE
  <2>1. /\ issued[j] = None /\ issued'[j] = p /\ j # i /\ issued'[i] = issued[i]
        /\ media' = [media EXCEPT ![p] = d] /\ trash' = trash
    BY <1>2 DEF Upload, StoreTypeOK
  <2>2. p # issued[i]
    BY <2>1 DEF SolePath
  <2> QED BY <1>0, <1>u, <2>1, <2>2 DEF Bytes, StoreTypeOK
<1>3. ASSUME NEW j \in Id, Refresh(j) \/ Hide(j) PROVE FALSE
  BY <1>0, <1>3 DEF Refresh, Hide
<1>4. ASSUME NEW j \in Id, Trash(j) PROVE FALSE
  <2>1. items[j] # None /\ issued' = issued /\ i \notin purged
    BY <1>4 DEF Trash
  <2>2. CASE j # i
    BY <1>0, <1>1, <1>4, <2>1, <2>2 DEF Trash, Bytes, StoreTypeOK
  <2>3. CASE j = i
    <3>1. items[i].path = issued[i] /\ Held(i)
      BY <1>1, <2>1, <2>3
    <3> QED BY <1>0, <1>4, <2>3, <3>1 DEF Trash, Bytes, Held, StoreTypeOK
  <2> QED BY <2>2, <2>3
<1>5. ASSUME NEW j \in Id, DeletePermanent(j) PROVE FALSE
  <2>1. items[j] # None /\ issued' = issued /\ j # i
    BY <1>5 DEF DeletePermanent
  <2> QED BY <1>0, <1>1, <1>5, <2>1 DEF DeletePermanent, Bytes, StoreTypeOK
<1>6. ASSUME NEW j \in Id, Restore(j) PROVE FALSE
  <2>1. items[j] # None /\ issued' = issued /\ i \notin purged
    BY <1>6 DEF Restore
  <2>2. CASE j # i
    BY <1>0, <1>1, <1>6, <2>1, <2>2 DEF Restore, Bytes, StoreTypeOK
  <2>3. CASE j = i
    <3>1. items[i].path = issued[i] /\ Held(i)
      BY <1>1, <2>1, <2>3
    <3> QED BY <1>0, <1>6, <2>3, <3>1 DEF Restore, Bytes, Held, StoreTypeOK
  <2> QED BY <2>2, <2>3
<1>7. ASSUME NEW j \in Id, NEW d \in Digest, Transform(j, d) \/ TransformRaises(j, d)
      PROVE  j = i
  <2>1. /\ items[j] # None /\ issued' = issued
        /\ media' = [media EXCEPT ![items[j].path] = d] /\ trash' = trash
    BY <1>7 DEF Transform, TransformRaises
  <2> QED BY <1>0, <1>1, <2>1 DEF Bytes, StoreTypeOK
<1>8. ~SaveIndex /\ ~Restart
  BY <1>0 DEF SaveIndex, Restart
<1> QED BY <1>2, <1>3, <1>4, <1>5, <1>6, <1>7, <1>8 DEF StoreNext, Handlers

(* No other item's handlers, and no trash, restore, refresh, save or        *)
(* restart, ever change the bytes of an item alone on its path.             *)
THEOREM StoreBytesConserved == StoreSpec => BytesConserved
<1> DEFINE Conserved ==
      \A i \in Id :
        issued[i] # None /\ SolePath(i)' /\ i \notin purged' /\ Bytes(issued[i])' # Bytes(issued[i])
          => \E d \in Digest : Transform(i, d) \/ TransformRaises(i, d)
<1>1. PlaceInv /\ [StoreNext]_storeVars => [Conserved]_storeVars
  BY BytesStep
<1> QED BY <1>1, PlaceInit, PlaceStep, PTL DEF StoreSpec, BytesConserved
=============================================================================
