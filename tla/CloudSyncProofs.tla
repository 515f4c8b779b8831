-------------------------- MODULE CloudSyncProofs --------------------------
(***************************************************************************)
(* Proofs about CloudSync, for every set of photos, sync passes, delete    *)
(* runs and paths, and for every cap.                                      *)
(***************************************************************************)
EXTENDS CloudSync, MediaStoreProofs

-----------------------------------------------------------------------------
(* What every action leaves of the library is a handler, a restart, one of  *)
(* the four that write into it from a sync pass, or nothing.                *)

Foreign(s) == MoveStaged(s) \/ AddCount(s) \/ (\E i \in Id : AddItem(s, i)) \/ SyncEnd(s)

LEMMA LibrarySteps ==
    ASSUME [CloudNext]_vars
    PROVE  [Handlers]_storeVars \/ RestartServer \/ \E s \in Syncer : Foreign(s)
<1>1. CASE LibraryStep
  BY <1>1 DEF LibraryStep, Handlers
<1>2. CASE \E i \in Id, d \in Digest : TransformMedia(i, d)
  BY <1>2 DEF TransformMedia, Handlers
<1>3. CASE RestartServer
  BY <1>3
<1>4. ASSUME NEW s \in Syncer, SyncList(s) \/ SyncStep(s)
      PROVE  UNCHANGED storeVars \/ Foreign(s)
  BY <1>4 DEF SyncStep, Foreign, SyncList, SyncPick, Download, DownloadFails, CheckDuplicate,
     Duplicate, AddRead, SyncRecord
<1>5. ASSUME NEW c \in Cleaner, CleanStart(c) \/ CleanStep(c)
      PROVE  UNCHANGED storeVars
  BY <1>5 DEF CleanStep, CleanStart, ScanOne, ScanDone, Decide, AuditAborts, CallDelete,
     Deleted, Failed, CleanEnd
<1>6. CASE UNCHANGED vars
  BY <1>6 DEF vars
<1> QED BY <1>1, <1>2, <1>3, <1>4, <1>5, <1>6 DEF CloudNext, ServerStep

-----------------------------------------------------------------------------
(* Type correctness, with what the program counters say of the photos.      *)

Working(s) == syncer[s].pc \notin {"idle", "loop"}
Engaged(c) == cleaner[c].pc \in {"call", "deleted", "failed"}

CloudTypeInv ==
    /\ CloudTypeOK
    /\ \A s \in Syncer : /\ Working(s) => syncer[s].photo \in Photo
                         /\ syncer[s].pc = "return" => syncer[s].rec # None
    /\ \A c \in Cleaner : Engaged(c) => cleaner[c].photo \in Photo

LEMMA CloudTypeInit == CloudInit => CloudTypeInv
<1> SUFFICES ASSUME CloudInit PROVE CloudTypeInv
  OBVIOUS
<1>1. StoreTypeOK
  BY StoreTypeInit DEF CloudInit
<1>2. IdleSyncer \in SyncerState /\ IdleCleaner \in CleanerState
  BY DEF IdleSyncer, IdleCleaner, SyncerState, CleanerState
<1> QED BY <1>1, <1>2 DEF CloudInit, CloudTypeInv, CloudTypeOK, IdleSyncer, IdleCleaner,
   Working, Engaged

LEMMA CloudStoreType ==
    ASSUME CloudTypeInv, [CloudNext]_vars
    PROVE  StoreTypeOK'
<1>0. StoreTypeOK
  BY DEF CloudTypeInv, CloudTypeOK
<1>1. CASE [Handlers]_storeVars \/ RestartServer
  BY <1>0, <1>1, StoreTypeStep DEF StoreNext, RestartServer
<1>2. ASSUME NEW s \in Syncer, MoveStaged(s) PROVE StoreTypeOK'
  <2>1. media' \in [Path -> Digest \cup {None}]
    BY <1>0, <1>2 DEF MoveStaged, CloudTypeInv, CloudTypeOK, StoreTypeOK
  <2> QED BY <1>0, <1>2, <2>1 DEF MoveStaged, StoreTypeOK
<1>3. ASSUME NEW s \in Syncer, AddCount(s) \/ \E i \in Id : AddItem(s, i) PROVE StoreTypeOK'
  <2> DEFINE p == syncer[s].photo
  <2>1. p \in Photo /\ syncer[s].n + 1 \in Nat
    <3>1. syncer[s].n \in Nat
      BY DEF CloudTypeInv, CloudTypeOK, SyncerState
    <3> QED BY <1>3, <3>1 DEF AddCount, AddItem, CloudTypeInv, Working
  <2>2. Content[p] \in Digest /\ FileOf[p] \in Path
    BY <2>1, CloudAssumption
  <2>3. CASE AddCount(s)
    <3>1. digests' \in [Digest -> Nat]
      BY <1>0, <2>1, <2>2, <2>3 DEF AddCount, StoreTypeOK
    <3> QED BY <1>0, <2>3, <3>1 DEF AddCount, StoreTypeOK
  <2>4. ASSUME NEW i \in Id, AddItem(s, i) PROVE StoreTypeOK'
    <3>1. \A stale \in BOOLEAN :
            [path |-> FileOf[p], sha |-> Content[p], trashed |-> FALSE, stale |-> stale] \in Item
      BY <2>2 DEF Item
    <3>2. items' \in [Id -> Item \cup {None}]
      BY <1>0, <2>4, <3>1 DEF AddItem, StoreTypeOK
    <3>3. issued' \in [Id -> Path \cup {None}]
      BY <1>0, <2>2, <2>4 DEF AddItem, StoreTypeOK
    <3> QED BY <1>0, <2>4, <3>2, <3>3 DEF AddItem, StoreTypeOK
  <2> QED BY <1>3, <2>3, <2>4
<1>4. ASSUME NEW s \in Syncer, SyncEnd(s) PROVE StoreTypeOK'
  BY <1>0, <1>4 DEF SyncEnd, StoreTypeOK
<1> QED BY <1>1, <1>2, <1>3, <1>4, LibrarySteps DEF Foreign

(* What History notes down is photos.                                       *)
LEMMA HistoryType ==
    ASSUME CloudTypeInv, Losses
    PROVE  exposed' \in SUBSET Photo /\ lost' \in SUBSET Photo
<1>1. InFlight \subseteq Photo
  BY DEF InFlight, CloudTypeInv, Engaged
<1> QED BY <1>1 DEF Losses, CloudTypeInv, CloudTypeOK

LEMMA RacedType == ASSUME CloudTypeInv, History PROVE Losses /\ raced' \in SUBSET Digest
  BY DEF History, CloudTypeInv, CloudTypeOK

(* The part of the state that a sync pass writes.                           *)
SyncTypeOK ==
    /\ syncer \in [Syncer -> SyncerState]
    /\ \A s \in Syncer : /\ Working(s) => syncer[s].photo \in Photo
                         /\ syncer[s].pc = "return" => syncer[s].rec # None

(* A pass that changes its own state only, to a well-formed one.            *)
LEMMA SyncerStep ==
    ASSUME CloudTypeInv, NEW s \in Syncer, NEW st \in SyncerState,
           syncer' = [syncer EXCEPT ![s] = st],
           st.pc \notin {"idle", "loop"} => st.photo \in Photo,
           st.pc = "return" => st.rec # None
    PROVE  SyncTypeOK'
<1>1. syncer' \in [Syncer -> SyncerState]
  BY DEF CloudTypeInv, CloudTypeOK
<1>2. syncer'[s] = st /\ \A t \in Syncer \ {s} : syncer'[t] = syncer[t]
  BY DEF CloudTypeInv, CloudTypeOK
<1> QED BY <1>1, <1>2 DEF SyncTypeOK, CloudTypeInv, Working

LEMMA CleanerStep ==
    ASSUME CloudTypeInv, NEW c \in Cleaner, NEW st \in CleanerState,
           cleaner' = [cleaner EXCEPT ![c] = st],
           st.pc \in {"call", "deleted", "failed"} => st.photo \in Photo
    PROVE  /\ cleaner' \in [Cleaner -> CleanerState]
           /\ \A x \in Cleaner : Engaged(x)' => cleaner'[x].photo \in Photo
<1>1. cleaner' \in [Cleaner -> CleanerState]
  BY DEF CloudTypeInv, CloudTypeOK
<1>2. cleaner'[c] = st /\ \A x \in Cleaner \ {c} : cleaner'[x] = cleaner[x]
  BY DEF CloudTypeInv, CloudTypeOK
<1> QED BY <1>1, <1>2 DEF CloudTypeInv, Engaged

LEMMA SyncTypeStep ==
    ASSUME CloudTypeInv, NEW s \in Syncer, SyncList(s) \/ SyncStep(s)
    PROVE  SyncTypeOK' /\ records' \in [Photo -> Record \cup {None}]
<1> DEFINE old == syncer[s]
           p == old.photo
<1>0. /\ old \in SyncerState
      /\ Working(s) => p \in Photo /\ Content[p] \in Digest
      /\ remote \in SUBSET Photo
      /\ records \in [Photo -> Record \cup {None}]
  BY CloudAssumption DEF CloudTypeInv, CloudTypeOK
<1>1. CASE SyncList(s)
  <2>1. [IdleSyncer EXCEPT !.pc = "loop", !.todo = remote] \in SyncerState
    BY <1>0 DEF IdleSyncer, SyncerState
  <2> QED BY <1>0, <1>1, <2>1, SyncerStep DEF SyncList, IdleSyncer
<1>2. CASE SyncPick(s)
  <2>1. PICK q \in old.todo :
          syncer' = [syncer EXCEPT ![s].pc = "download", ![s].photo = q, ![s].todo = @ \ {q}]
    BY <1>2 DEF SyncPick
  <2> DEFINE st == [old EXCEPT !.pc = "download", !.photo = q, !.todo = @ \ {q}]
  <2>2. st \in SyncerState /\ st.photo \in Photo /\ st.pc = "download"
    BY <1>0 DEF SyncerState
  <2>3. syncer' = [syncer EXCEPT ![s] = st]
    BY <2>1
  <2> QED BY <1>0, <1>2, <2>2, <2>3, SyncerStep DEF SyncPick
<1>3. CASE Download(s)
  <2> DEFINE st == [old EXCEPT !.pc = "check"]
  <2>1. st \in SyncerState /\ st.photo = p /\ p \in Photo /\ st.pc = "check"
    BY <1>0, <1>3 DEF SyncerState, Download, Working
  <2>2. syncer' = [syncer EXCEPT ![s] = st]
    BY <1>3 DEF Download
  <2> QED BY <1>0, <1>3, <2>1, <2>2, SyncerStep DEF Download
<1>4. CASE DownloadFails(s)
  <2> DEFINE st == [old EXCEPT !.pc = "loop", !.photo = None]
  <2>1. st \in SyncerState /\ st.pc = "loop"
    BY <1>0 DEF SyncerState
  <2>2. syncer' = [syncer EXCEPT ![s] = st]
    BY <1>4 DEF DownloadFails
  <2> QED BY <1>0, <1>4, <2>1, <2>2, SyncerStep DEF DownloadFails
<1>5. CASE CheckDuplicate(s)
  <2>1. PICK pc \in {"duplicate", "move"} : syncer' = [syncer EXCEPT ![s].pc = pc]
    BY <1>5 DEF CheckDuplicate
  <2> DEFINE st == [old EXCEPT !.pc = pc]
  <2>2. st \in SyncerState /\ st.photo = p /\ p \in Photo /\ st.pc = pc
    BY <1>0, <1>5 DEF SyncerState, CheckDuplicate, Working
  <2>3. syncer' = [syncer EXCEPT ![s] = st]
    BY <2>1
  <2> QED BY <1>0, <1>5, <2>2, <2>3, SyncerStep DEF CheckDuplicate
<1>6. CASE Duplicate(s)
  <2>1. PICK i \in Id \cup {None} :
          syncer' = [syncer EXCEPT ![s].pc = "return",
                       ![s].rec = [item |-> i, sha |-> Content[p],
                                   verified |-> i # None, deleted |-> FALSE]]
    BY <1>6 DEF Duplicate, Users
  <2> DEFINE rec == [item |-> i, sha |-> Content[p], verified |-> i # None, deleted |-> FALSE]
             st == [old EXCEPT !.pc = "return", !.rec = rec]
  <2>2. p \in Photo /\ rec \in Record
    BY <1>0, <1>6 DEF Duplicate, Working, Record
  <2>3. st \in SyncerState /\ st.photo = p /\ st.rec = rec
    BY <1>0, <2>2 DEF SyncerState
  <2>4. rec # None
    BY <2>2, NoneRecordAssumption
  <2>5. syncer' = [syncer EXCEPT ![s] = st]
    BY <2>1
  <2> QED BY <1>0, <1>6, <2>2, <2>3, <2>4, <2>5, SyncerStep DEF Duplicate
<1>7. CASE MoveStaged(s)
  <2>1. syncer' = [syncer EXCEPT ![s].pc = "add"]
        \/ syncer' = [syncer EXCEPT ![s].pc = "loop", ![s].photo = None]
    BY <1>7 DEF MoveStaged
  <2>2. p \in Photo
    BY <1>0, <1>7 DEF MoveStaged, Working
  <2>3. CASE syncer' = [syncer EXCEPT ![s].pc = "add"]
    <3> DEFINE st == [old EXCEPT !.pc = "add"]
    <3>1. st \in SyncerState /\ st.photo = p /\ st.pc = "add"
      BY <1>0 DEF SyncerState
    <3>2. syncer' = [syncer EXCEPT ![s] = st]
      BY <2>3
    <3> QED BY <1>0, <1>7, <2>2, <3>1, <3>2, SyncerStep DEF MoveStaged
  <2>4. CASE syncer' = [syncer EXCEPT ![s].pc = "loop", ![s].photo = None]
    <3> DEFINE st == [old EXCEPT !.pc = "loop", !.photo = None]
    <3>1. st \in SyncerState /\ st.pc = "loop"
      BY <1>0 DEF SyncerState
    <3>2. syncer' = [syncer EXCEPT ![s] = st]
      BY <2>4
    <3> QED BY <1>0, <1>7, <3>1, <3>2, SyncerStep DEF MoveStaged
  <2> QED BY <2>1, <2>3, <2>4
<1>8. ASSUME NEW i \in Id, AddItem(s, i)
      PROVE  SyncTypeOK' /\ records' \in [Photo -> Record \cup {None}]
  <2> DEFINE rec == [item |-> i, sha |-> Content[p], verified |-> TRUE, deleted |-> FALSE]
             st == [old EXCEPT !.pc = "return", !.rec = rec]
  <2>1. p \in Photo /\ rec \in Record
    BY <1>0, <1>8 DEF AddItem, Working, Record
  <2>2. st \in SyncerState /\ st.photo = p /\ st.rec = rec
    BY <1>0, <2>1 DEF SyncerState
  <2>3. rec # None
    BY <2>1, NoneRecordAssumption
  <2>4. syncer' = [syncer EXCEPT ![s] = st]
    BY <1>8 DEF AddItem
  <2> QED BY <1>0, <1>8, <2>1, <2>2, <2>3, <2>4, SyncerStep DEF AddItem
<1>11. CASE AddRead(s)
  <2> DEFINE st == [old EXCEPT !.pc = "count", !.n = digests[Content[p]]]
  <2>1. p \in Photo /\ digests[Content[p]] \in Nat
    BY <1>0, <1>11 DEF AddRead, Working, CloudTypeInv, CloudTypeOK, StoreTypeOK
  <2>2. st \in SyncerState /\ st.photo = p /\ st.pc = "count"
    BY <1>0, <2>1 DEF SyncerState
  <2>3. syncer' = [syncer EXCEPT ![s] = st]
    BY <1>11 DEF AddRead
  <2> QED BY <1>0, <1>11, <2>1, <2>2, <2>3, SyncerStep DEF AddRead
<1>12. CASE AddCount(s)
  <2> DEFINE st == [old EXCEPT !.pc = "put", !.n = 0]
  <2>1. p \in Photo
    BY <1>0, <1>12 DEF AddCount, Working
  <2>2. st \in SyncerState /\ st.photo = p /\ st.pc = "put"
    BY <1>0 DEF SyncerState
  <2>3. syncer' = [syncer EXCEPT ![s] = st]
    BY <1>12 DEF AddCount
  <2> QED BY <1>0, <1>12, <2>1, <2>2, <2>3, SyncerStep DEF AddCount
<1>9. CASE SyncRecord(s)
  <2> DEFINE st == [old EXCEPT !.pc = "loop", !.photo = None, !.rec = None, !.changed = TRUE]
  <2>1. st \in SyncerState /\ st.pc = "loop"
    BY <1>0 DEF SyncerState
  <2>2. syncer' = [syncer EXCEPT ![s] = st]
    BY <1>9 DEF SyncRecord
  <2>3. records' \in [Photo -> Record \cup {None}]
    BY <1>0, <1>9 DEF SyncRecord, SyncerState
  <2> QED BY <2>1, <2>2, <2>3, SyncerStep
<1>10. CASE SyncEnd(s)
  <2>1. IdleSyncer \in SyncerState
    BY DEF IdleSyncer, SyncerState
  <2> QED BY <1>0, <1>10, <2>1, SyncerStep DEF SyncEnd, IdleSyncer
<1> QED BY <1>1, <1>2, <1>3, <1>4, <1>5, <1>6, <1>7, <1>8, <1>9, <1>10, <1>11, <1>12 DEF SyncStep

(* One more of a counter.                                                   *)
LEMMA Counted ==
    ASSUME NEW S, NEW f \in [S -> Nat], NEW x \in S
    PROVE  [f EXCEPT ![x] = @ + 1] \in [S -> Nat]
<1>1. f[x] + 1 \in Nat
  OBVIOUS
<1> QED BY <1>1

LEMMA CleanTypeStep ==
    ASSUME CloudTypeInv, NEW c \in Cleaner, CleanStart(c) \/ CleanStep(c)
    PROVE  /\ cleaner' \in [Cleaner -> CleanerState]
           /\ \A x \in Cleaner : Engaged(x)' => cleaner'[x].photo \in Photo
           /\ records' \in [Photo -> Record \cup {None}]
           /\ intents' \in [Photo -> Nat]
           /\ calls' \in [Photo -> Nat]
           /\ remote' \in SUBSET Photo
<1> DEFINE old == cleaner[c]
           p == old.photo
           Rest == /\ records' \in [Photo -> Record \cup {None}]
                   /\ intents' \in [Photo -> Nat]
                   /\ calls' \in [Photo -> Nat]
                   /\ remote' \in SUBSET Photo
<1>0. /\ old \in CleanerState
      /\ Engaged(c) => p \in Photo
      /\ records \in [Photo -> Record \cup {None}]
      /\ intents \in [Photo -> Nat]
      /\ calls \in [Photo -> Nat]
      /\ remote \in SUBSET Photo
  BY DEF CloudTypeInv, CloudTypeOK
<1>n. old.removed + 1 \in Nat /\ old.deleted + 1 \in Nat /\ old.failed + 1 \in Nat
  <2>1. old.removed \in Nat /\ old.deleted \in Nat /\ old.failed \in Nat
    BY <1>0 DEF CleanerState
  <2> QED BY <2>1
<1>i. IdleCleaner \in CleanerState /\ IdleCleaner.pc = "idle"
  BY DEF IdleCleaner, CleanerState
<1>1. CASE CleanStart(c)
  <2> DEFINE st == [IdleCleaner EXCEPT !.pc = "scan", !.todo = {q \in Photo : records[q] # None}]
  <2>1. st \in CleanerState /\ st.pc = "scan"
    BY DEF IdleCleaner, CleanerState
  <2>2. cleaner' = [cleaner EXCEPT ![c] = st] /\ Rest
    BY <1>0, <1>1 DEF CleanStart
  <2> HIDE DEF st
  <2> QED BY <2>1, <2>2, CleanerStep
<1>2. CASE ScanOne(c)
  <2>1. PICK q \in old.todo :
          cleaner' = [cleaner EXCEPT ![c].todo = @ \ {q},
                        ![c].cands = IF ~records[q].deleted /\ Verifies(q) THEN @ \cup {q} ELSE @]
    BY <1>2 DEF ScanOne
  <2> DEFINE st == [old EXCEPT !.todo = @ \ {q},
                      !.cands = IF ~records[q].deleted /\ Verifies(q) THEN @ \cup {q} ELSE @]
  <2>2. st \in CleanerState /\ st.pc = old.pc
    BY <1>0 DEF CleanerState
  <2>3. cleaner' = [cleaner EXCEPT ![c] = st] /\ Rest /\ old.pc = "scan"
    BY <1>0, <1>2, <2>1 DEF ScanOne
  <2> HIDE DEF st
  <2> QED BY <2>2, <2>3, CleanerStep
<1>3. CASE ScanDone(c)
  <2> DEFINE st == [old EXCEPT !.pc = "loop"]
  <2>1. st \in CleanerState /\ st.pc = "loop"
    BY <1>0 DEF CleanerState
  <2>2. cleaner' = [cleaner EXCEPT ![c] = st] /\ Rest
    BY <1>0, <1>3 DEF ScanDone
  <2> HIDE DEF st
  <2> QED BY <2>1, <2>2, CleanerStep
<1>4. CASE Decide(c)
  <2>1. PICK q \in old.cands :
          \/ /\ cleaner' = [cleaner EXCEPT ![c].cands = @ \ {q}]
             /\ UNCHANGED intents
          \/ /\ intents' = [intents EXCEPT ![q] = @ + 1]
             /\ cleaner' = [cleaner EXCEPT ![c].pc = "call", ![c].photo = q, ![c].cands = @ \ {q}]
    BY <1>4 DEF Decide
  <2>2. old.pc = "loop" /\ q \in Photo /\ records' = records /\ calls' = calls /\ remote' = remote
    BY <1>0, <1>4 DEF Decide, CleanerState
  <2>3. CASE cleaner' = [cleaner EXCEPT ![c].cands = @ \ {q}] /\ UNCHANGED intents
    <3> DEFINE st == [old EXCEPT !.cands = @ \ {q}]
    <3>1. st \in CleanerState /\ st.pc = "loop"
      BY <1>0, <2>2 DEF CleanerState
    <3>2. cleaner' = [cleaner EXCEPT ![c] = st] /\ Rest
      BY <1>0, <2>2, <2>3
    <3> HIDE DEF st
    <3> QED BY <3>1, <3>2, CleanerStep
  <2>4. CASE /\ intents' = [intents EXCEPT ![q] = @ + 1]
             /\ cleaner' = [cleaner EXCEPT ![c].pc = "call", ![c].photo = q, ![c].cands = @ \ {q}]
    <3> DEFINE st == [old EXCEPT !.pc = "call", !.photo = q, !.cands = @ \ {q}]
    <3>1. st \in CleanerState /\ st.photo \in Photo
      BY <1>0, <2>2 DEF CleanerState
    <3>2. cleaner' = [cleaner EXCEPT ![c] = st]
      BY <2>4
    <3>3. intents' \in [Photo -> Nat]
      BY <1>0, <2>2, <2>4, Counted
    <3>4. Rest
      BY <1>0, <2>2, <3>3
    <3> HIDE DEF st
    <3> QED BY <3>1, <3>2, <3>4, CleanerStep
  <2> QED BY <2>1, <2>3, <2>4
<1>5. CASE AuditAborts(c) \/ CleanEnd(c)
  <2>1. cleaner' = [cleaner EXCEPT ![c] = IdleCleaner] /\ Rest
    BY <1>0, <1>5 DEF AuditAborts, CleanEnd
  <2> QED BY <1>i, <2>1, CleanerStep
<1>6. CASE CallDelete(c)
  <2>1. PICK pc \in {"deleted", "failed"} :
          \/ cleaner' = [cleaner EXCEPT ![c].pc = pc, ![c].removed = @ + 1]
          \/ cleaner' = [cleaner EXCEPT ![c].pc = pc]
    BY <1>6 DEF CallDelete
  <2>2. p \in Photo
    BY <1>0, <1>6 DEF CallDelete, Engaged
  <2>3. Rest
    <3>1. calls' = [calls EXCEPT ![p] = @ + 1]
      BY <1>6 DEF CallDelete
    <3>2. calls' \in [Photo -> Nat]
      BY <1>0, <2>2, <3>1, Counted
    <3> QED BY <1>0, <1>6, <3>2 DEF CallDelete
  <2>4. CASE cleaner' = [cleaner EXCEPT ![c].pc = pc, ![c].removed = @ + 1]
    <3> DEFINE st == [old EXCEPT !.pc = pc, !.removed = @ + 1]
    <3>1. st \in CleanerState /\ st.photo = p
      BY <1>0, <1>n DEF CleanerState
    <3>2. cleaner' = [cleaner EXCEPT ![c] = st]
      BY <2>4
    <3> HIDE DEF st
    <3> QED BY <2>2, <2>3, <3>1, <3>2, CleanerStep
  <2>5. CASE cleaner' = [cleaner EXCEPT ![c].pc = pc]
    <3> DEFINE st == [old EXCEPT !.pc = pc]
    <3>1. st \in CleanerState /\ st.photo = p
      BY <1>0 DEF CleanerState
    <3>2. cleaner' = [cleaner EXCEPT ![c] = st]
      BY <2>5
    <3> HIDE DEF st
    <3> QED BY <2>2, <2>3, <3>1, <3>2, CleanerStep
  <2> QED BY <2>1, <2>4, <2>5
<1>7. CASE Deleted(c)
  <2> DEFINE st == [old EXCEPT !.pc = "loop", !.photo = None, !.deleted = @ + 1]
  <2>1. st \in CleanerState /\ st.pc = "loop"
    BY <1>0, <1>n DEF CleanerState
  <2>2. cleaner' = [cleaner EXCEPT ![c] = st]
    BY <1>7 DEF Deleted
  <2>3. records' \in [Photo -> Record \cup {None}]
    <3>1. CASE records[p] # None
      <4>1. p \in Photo /\ records[p] \in Record
        BY <1>0, <1>7, <3>1 DEF Deleted, Engaged
      <4>2. [records[p] EXCEPT !.deleted = TRUE] \in Record
        BY <4>1 DEF Record
      <4>3. records' = [records EXCEPT ![p] = [records[p] EXCEPT !.deleted = TRUE]]
        BY <1>7, <3>1 DEF Deleted
      <4> QED BY <1>0, <4>1, <4>2, <4>3
    <3>2. CASE records[p] = None
      BY <1>0, <1>7, <3>2 DEF Deleted
    <3> QED BY <3>1, <3>2
  <2>4. Rest
    BY <1>0, <1>7, <2>3 DEF Deleted
  <2> HIDE DEF st
  <2> QED BY <2>1, <2>2, <2>4, CleanerStep
<1>8. CASE Failed(c)
  <2> DEFINE st == [old EXCEPT !.pc = "loop", !.photo = None, !.failed = @ + 1]
  <2>1. st \in CleanerState /\ st.pc = "loop"
    BY <1>0, <1>n DEF CleanerState
  <2>2. cleaner' = [cleaner EXCEPT ![c] = st] /\ Rest
    BY <1>0, <1>8 DEF Failed
  <2> HIDE DEF st
  <2> QED BY <2>1, <2>2, CleanerStep
<1> QED BY <1>1, <1>2, <1>3, <1>4, <1>5, <1>6, <1>7, <1>8 DEF CleanStep

LEMMA UnverifyType ==
    ASSUME CloudTypeInv, NEW i \in Id, Unverify(i)
    PROVE  /\ records' \in [Photo -> Record \cup {None}]
           /\ state' \in [Photo -> Record \cup {None}]
<1>1. \A q \in Photo : records[q] # None => [records[q] EXCEPT !.verified = FALSE] \in Record
  BY DEF CloudTypeInv, CloudTypeOK, Record
<1>2. records' \in [Photo -> Record \cup {None}]
  BY <1>1 DEF Unverify, CloudTypeInv, CloudTypeOK
<1> QED BY <1>2 DEF Unverify, SaveState, CloudTypeInv, CloudTypeOK

LEMMA CloudTypeStep == CloudTypeInv /\ [CloudNext]_vars => CloudTypeInv'
<1> SUFFICES ASSUME CloudTypeInv, [CloudNext]_vars PROVE CloudTypeInv'
  OBVIOUS
<1>0. StoreTypeOK'
  BY CloudStoreType
<1>1. ASSUME NEW s \in Syncer, SyncList(s) \/ SyncStep(s) PROVE CloudTypeInv'
  <2>1. SyncTypeOK' /\ records' \in [Photo -> Record \cup {None}]
    BY <1>1, SyncTypeStep
  <2>2. exposed' \in SUBSET Photo /\ lost' \in SUBSET Photo /\ raced' \in SUBSET Digest
    BY <1>1, HistoryType, RacedType DEF SyncList, SyncStep, SyncPick, Download, DownloadFails,
       CheckDuplicate, Duplicate, MoveStaged, AddRead, AddCount, AddItem, SyncRecord, SyncEnd
  <2>3. UNCHANGED <<remote, intents, calls, cleaner>>
    BY <1>1 DEF SyncList, SyncStep, SyncPick, Download, DownloadFails,
       CheckDuplicate, Duplicate, MoveStaged, AddRead, AddCount, AddItem, SyncRecord, SyncEnd
  <2>4. state' \in {records, state}
    BY <1>1 DEF SyncList, SyncStep, SyncPick, Download, DownloadFails,
       CheckDuplicate, Duplicate, MoveStaged, AddRead, AddCount, AddItem, SyncRecord, SyncEnd
  <2>5. staging' \in [Path -> Digest \cup {None}]
    <3>1. CASE Download(s)
      <4>1. syncer[s].photo \in Photo
        BY <3>1 DEF Download, CloudTypeInv, Working
      <4> QED BY <3>1, <4>1, CloudAssumption DEF Download, CloudTypeInv, CloudTypeOK
    <3>2. CASE CheckDuplicate(s) \/ MoveStaged(s)
      BY <3>2 DEF CheckDuplicate, MoveStaged, CloudTypeInv, CloudTypeOK
    <3>3. CASE ~(Download(s) \/ CheckDuplicate(s) \/ MoveStaged(s))
      <4>1. staging' = staging
        BY <1>1, <3>3 DEF SyncList, SyncStep, SyncPick, DownloadFails, Duplicate, AddRead,
           AddCount, AddItem, SyncRecord, SyncEnd
      <4> QED BY <4>1 DEF CloudTypeInv, CloudTypeOK
    <3> QED BY <3>1, <3>2, <3>3
  <2> QED BY <1>0, <2>1, <2>2, <2>3, <2>4, <2>5 DEF CloudTypeInv, CloudTypeOK, SyncTypeOK, Engaged
<1>2. ASSUME NEW c \in Cleaner, CleanStart(c) \/ CleanStep(c) PROVE CloudTypeInv'
  <2>1. /\ cleaner' \in [Cleaner -> CleanerState]
        /\ \A x \in Cleaner : Engaged(x)' => cleaner'[x].photo \in Photo
        /\ records' \in [Photo -> Record \cup {None}]
        /\ intents' \in [Photo -> Nat]
        /\ calls' \in [Photo -> Nat]
        /\ remote' \in SUBSET Photo
    BY <1>2, CleanTypeStep
  <2>2. exposed' \in SUBSET Photo /\ lost' \in SUBSET Photo /\ raced' \in SUBSET Digest
    BY <1>2, HistoryType, RacedType DEF CleanStart, CleanStep, ScanOne, ScanDone, Decide, AuditAborts,
       CallDelete, Deleted, Failed, CleanEnd
  <2>3. UNCHANGED <<syncer, staging>> /\ state' \in {records', state}
    BY <1>2 DEF CleanStart, CleanStep, ScanOne, ScanDone, Decide, AuditAborts, CallDelete,
       Deleted, Failed, CleanEnd, SaveState
  <2> QED BY <1>0, <2>1, <2>2, <2>3 DEF CloudTypeInv, CloudTypeOK, Working
<1>3. ASSUME NEW i \in Id, NEW d \in Digest, TransformMedia(i, d) PROVE CloudTypeInv'
  <2>1. /\ records' \in [Photo -> Record \cup {None}]
        /\ state' \in [Photo -> Record \cup {None}]
    BY <1>3, UnverifyType DEF TransformMedia
  <2>2. exposed' \in SUBSET Photo /\ lost' \in SUBSET Photo /\ raced' \in SUBSET Digest
    BY <1>3, HistoryType, RacedType DEF TransformMedia
  <2> QED BY <1>0, <1>3, <2>1, <2>2 DEF TransformMedia, CloudTypeInv, CloudTypeOK, Working, Engaged
<1>4. CASE LibraryStep
  <2>1. exposed' \in SUBSET Photo /\ lost' \in SUBSET Photo /\ raced' \in SUBSET Digest
    BY <1>4, HistoryType, RacedType DEF LibraryStep
  <2> QED BY <1>0, <1>4, <2>1 DEF LibraryStep, CloudTypeInv, CloudTypeOK, Working, Engaged
<1>5. CASE RestartServer
  <2>1. exposed' \in SUBSET Photo /\ lost' \in SUBSET Photo /\ raced' \in SUBSET Digest
    BY <1>5, HistoryType, RacedType DEF RestartServer
  <2>2. IdleSyncer \in SyncerState /\ IdleCleaner \in CleanerState
    BY DEF IdleSyncer, IdleCleaner, SyncerState, CleanerState
  <2> QED BY <1>0, <1>5, <2>1, <2>2 DEF RestartServer, CloudTypeInv, CloudTypeOK, Working, Engaged,
     IdleSyncer, IdleCleaner
<1>6. CASE UNCHANGED vars
  BY <1>0, <1>6 DEF vars, cloudVars, CloudTypeInv, CloudTypeOK, Working, Engaged
<1> QED BY <1>1, <1>2, <1>3, <1>4, <1>5, <1>6 DEF CloudNext, ServerStep

(* Every variable keeps its type, however passes, runs, handlers and        *)
(* restarts interleave.                                                     *)
THEOREM CloudTypeCorrect == CloudSpec => []CloudTypeOK
<1>1. CloudTypeInv => CloudTypeOK
  BY DEF CloudTypeInv
<1> QED BY <1>1, CloudTypeInit, CloudTypeStep, PTL DEF CloudSpec

-----------------------------------------------------------------------------
(* Audit before action: what a run's "call" state stands for is an intent   *)
(* line no provider.delete has used yet.                                    *)

LEMMA CallingFinite ==
    ASSUME NEW p
    PROVE  IsFiniteSet(Calling(p)) /\ Cardinality(Calling(p)) \in Nat
  BY CloudAssumption, FS_Subset, FS_CardinalityType DEF Calling

(* A step that neither logs nor calls, and after which no further run is    *)
(* about to call.                                                           *)
LEMMA NoNewCalling ==
    ASSUME CloudTypeInv, AuditBeforeAction, calls' = calls, intents' = intents,
           \A c \in Cleaner : cleaner'[c].pc = "call"
              => cleaner[c].pc = "call" /\ cleaner'[c].photo = cleaner[c].photo
    PROVE  AuditBeforeAction'
<1> SUFFICES ASSUME NEW p \in Photo
             PROVE  calls[p] + Cardinality(Calling(p)') <= intents[p]
  BY DEF AuditBeforeAction
<1>1. Calling(p)' \subseteq Calling(p)
  BY DEF Calling
<1>2. Cardinality(Calling(p)') <= Cardinality(Calling(p)) /\ Cardinality(Calling(p)') \in Nat
  BY <1>1, CallingFinite, FS_Subset, FS_CardinalityType
<1>3. calls[p] + Cardinality(Calling(p)) <= intents[p] /\ calls[p] \in Nat /\ intents[p] \in Nat
  BY DEF AuditBeforeAction, CloudTypeInv, CloudTypeOK
<1> QED BY <1>2, <1>3, CallingFinite

LEMMA AuditStep ==
    CloudTypeInv /\ AuditBeforeAction /\ [CloudNext]_vars => AuditBeforeAction'
<1> SUFFICES ASSUME CloudTypeInv, AuditBeforeAction, [CloudNext]_vars PROVE AuditBeforeAction'
  OBVIOUS
<1>c. \A c \in Cleaner : cleaner[c] \in CleanerState
  BY DEF CloudTypeInv, CloudTypeOK
<1>1. ASSUME NEW c \in Cleaner, Decide(c) PROVE AuditBeforeAction'
  <2>1. PICK q \in cleaner[c].cands :
          \/ /\ cleaner' = [cleaner EXCEPT ![c].cands = @ \ {q}]
             /\ UNCHANGED intents
          \/ /\ intents' = [intents EXCEPT ![q] = @ + 1]
             /\ cleaner' = [cleaner EXCEPT ![c].pc = "call", ![c].photo = q, ![c].cands = @ \ {q}]
    BY <1>1 DEF Decide
  <2>2. cleaner[c].pc = "loop" /\ calls' = calls /\ q \in Photo
    BY <1>1, <1>c DEF Decide, CleanerState
  <2>3. CASE cleaner' = [cleaner EXCEPT ![c].cands = @ \ {q}] /\ UNCHANGED intents
    <3>1. \A x \in Cleaner : cleaner'[x].pc = cleaner[x].pc /\ cleaner'[x].photo = cleaner[x].photo
      BY <1>c, <2>3 DEF CleanerState, CloudTypeInv, CloudTypeOK
    <3> QED BY <2>2, <2>3, <3>1, NoNewCalling
  <2>4. CASE /\ intents' = [intents EXCEPT ![q] = @ + 1]
             /\ cleaner' = [cleaner EXCEPT ![c].pc = "call", ![c].photo = q, ![c].cands = @ \ {q}]
    <3> SUFFICES ASSUME NEW p \in Photo
                 PROVE  calls[p] + Cardinality(Calling(p)') <= intents'[p]
      BY <2>2 DEF AuditBeforeAction
    <3>1. /\ cleaner'[c].pc = "call" /\ cleaner'[c].photo = q
          /\ \A x \in Cleaner \ {c} : cleaner'[x] = cleaner[x]
      BY <1>c, <2>4 DEF CleanerState, CloudTypeInv, CloudTypeOK
    <3>2. Calling(p)' = IF p = q THEN Calling(p) \cup {c} ELSE Calling(p)
      BY <2>2, <3>1 DEF Calling
    <3>3. c \notin Calling(p)
      BY <2>2 DEF Calling
    <3>4. Cardinality(Calling(p) \cup {c}) = Cardinality(Calling(p)) + 1
      BY <3>3, CallingFinite, FS_AddElement
    <3>5. intents'[p] = IF p = q THEN intents[p] + 1 ELSE intents[p]
      BY <2>4 DEF CloudTypeInv, CloudTypeOK
    <3>6. calls[p] + Cardinality(Calling(p)) <= intents[p] /\ calls[p] \in Nat /\ intents[p] \in Nat
      BY DEF AuditBeforeAction, CloudTypeInv, CloudTypeOK
    <3> QED BY <3>2, <3>4, <3>5, <3>6, CallingFinite
  <2> QED BY <2>1, <2>3, <2>4
<1>2. ASSUME NEW c \in Cleaner, CallDelete(c) PROVE AuditBeforeAction'
  <2> DEFINE q == cleaner[c].photo
  <2>1. /\ cleaner[c].pc = "call" /\ q \in Photo /\ intents' = intents
        /\ calls' = [calls EXCEPT ![q] = @ + 1]
    BY <1>2 DEF CallDelete, CloudTypeInv, Engaged
  <2>2. cleaner'[c].pc \in {"deleted", "failed"}
    BY <1>2, <1>c DEF CallDelete, CleanerState, CloudTypeInv, CloudTypeOK
  <2>3. \A x \in Cleaner \ {c} : cleaner'[x] = cleaner[x]
    BY <1>2 DEF CallDelete, CloudTypeInv, CloudTypeOK
  <2> SUFFICES ASSUME NEW p \in Photo
               PROVE  calls'[p] + Cardinality(Calling(p)') <= intents[p]
    BY <2>1 DEF AuditBeforeAction
  <2>4. Calling(p)' = IF p = q THEN Calling(p) \ {c} ELSE Calling(p)
    BY <2>1, <2>2, <2>3 DEF Calling
  <2>5. p = q => c \in Calling(p)
    BY <2>1 DEF Calling
  <2>6. p = q => Cardinality(Calling(p) \ {c}) = Cardinality(Calling(p)) - 1
    BY <2>5, CallingFinite, FS_RemoveElement
  <2>7. calls'[p] = IF p = q THEN calls[p] + 1 ELSE calls[p]
    BY <2>1 DEF CloudTypeInv, CloudTypeOK
  <2>8. calls[p] + Cardinality(Calling(p)) <= intents[p] /\ calls[p] \in Nat /\ intents[p] \in Nat
    BY DEF AuditBeforeAction, CloudTypeInv, CloudTypeOK
  <2> QED BY <2>4, <2>6, <2>7, <2>8, CallingFinite
<1>3. ASSUME NEW c \in Cleaner, CleanStart(c) \/ ScanOne(c) \/ ScanDone(c) \/ AuditAborts(c)
                                \/ Deleted(c) \/ Failed(c) \/ CleanEnd(c)
      PROVE AuditBeforeAction'
  <2>1. calls' = calls /\ intents' = intents
    BY <1>3 DEF CleanStart, ScanOne, ScanDone, AuditAborts, Deleted, Failed, CleanEnd
  <2>2. cleaner'[c].pc # "call"
    <3>1. CASE CleanStart(c)
      BY <3>1 DEF CleanStart, IdleCleaner, CloudTypeInv, CloudTypeOK
    <3>2. CASE ScanOne(c)
      BY <1>c, <3>2 DEF ScanOne, CleanerState, CloudTypeInv, CloudTypeOK
    <3>3. CASE ScanDone(c)
      BY <1>c, <3>3 DEF ScanDone, CleanerState, CloudTypeInv, CloudTypeOK
    <3>4. CASE AuditAborts(c) \/ CleanEnd(c)
      BY <3>4 DEF AuditAborts, CleanEnd, IdleCleaner, CloudTypeInv, CloudTypeOK
    <3>5. CASE Deleted(c)
      BY <1>c, <3>5 DEF Deleted, CleanerState, CloudTypeInv, CloudTypeOK
    <3>6. CASE Failed(c)
      BY <1>c, <3>6 DEF Failed, CleanerState, CloudTypeInv, CloudTypeOK
    <3> QED BY <1>3, <3>1, <3>2, <3>3, <3>4, <3>5, <3>6
  <2>3. \A x \in Cleaner \ {c} : cleaner'[x] = cleaner[x]
    BY <1>3 DEF CleanStart, ScanOne, ScanDone, AuditAborts, Deleted, Failed, CleanEnd,
       CloudTypeInv, CloudTypeOK
  <2> QED BY <2>1, <2>2, <2>3, NoNewCalling
<1>4. ASSUME NEW s \in Syncer, SyncList(s) \/ SyncStep(s) PROVE AuditBeforeAction'
  <2>1. UNCHANGED <<intents, calls, cleaner>>
    BY <1>4 DEF SyncList, SyncStep, SyncPick, Download, DownloadFails,
       CheckDuplicate, Duplicate, MoveStaged, AddRead, AddCount, AddItem, SyncRecord, SyncEnd
  <2> QED BY <2>1, NoNewCalling
<1>5. CASE LibraryStep \/ \E i \in Id, d \in Digest : TransformMedia(i, d)
  BY <1>5, NoNewCalling DEF LibraryStep, TransformMedia
<1>6. CASE RestartServer
  BY <1>6, NoNewCalling DEF RestartServer, IdleCleaner
<1>7. CASE UNCHANGED vars
  BY <1>7, NoNewCalling DEF vars, cloudVars
<1> QED BY <1>1, <1>2, <1>3, <1>4, <1>5, <1>6, <1>7 DEF CloudNext, ServerStep, CleanStep

LEMMA AuditInit == CloudInit => AuditBeforeAction
<1> SUFFICES ASSUME CloudInit, NEW p \in Photo
             PROVE  calls[p] + Cardinality(Calling(p)) <= intents[p]
  BY DEF AuditBeforeAction
<1>1. Calling(p) = {}
  BY DEF CloudInit, Calling, IdleCleaner
<1> QED BY <1>1, FS_EmptySet DEF CloudInit

(* Every provider.delete ever begun has an intent line of its own, with any *)
(* number of concurrent runs and through restarts.                          *)
THEOREM CloudAuditBeforeAction == CloudSpec => []AuditBeforeAction
<1>1. CloudInit => CloudTypeInv /\ AuditBeforeAction
  BY CloudTypeInit, AuditInit
<1>2. CloudTypeInv /\ AuditBeforeAction /\ [CloudNext]_vars => (CloudTypeInv /\ AuditBeforeAction)'
  BY CloudTypeStep, AuditStep
<1> QED BY <1>1, <1>2, PTL DEF CloudSpec

-----------------------------------------------------------------------------
(* No loss but in flight: a run that is about to call has verified its      *)
(* photo, and a change of the local copy since then is noted.               *)

(* A run gets into its "call" state in Decide only, with a photo that       *)
(* verifies in that very step.                                              *)
LEMMA CallOrigin ==
    ASSUME CloudTypeInv, [CloudNext]_vars, NEW c \in Cleaner, cleaner'[c].pc = "call"
    PROVE  \/ cleaner[c].pc = "call" /\ cleaner'[c].photo = cleaner[c].photo
           \/ Verifies(cleaner[c].photo)'
<1>c. \A x \in Cleaner : cleaner[x] \in CleanerState
  BY DEF CloudTypeInv, CloudTypeOK
<1>1. ASSUME NEW x \in Cleaner, x # c, CleanStart(x) \/ CleanStep(x)
      PROVE  cleaner'[c] = cleaner[c]
  BY <1>1 DEF CleanStep, CleanStart, ScanOne, ScanDone, Decide, AuditAborts, CallDelete, Deleted,
     Failed, CleanEnd, CloudTypeInv, CloudTypeOK
<1>2. ~CleanStart(c)
  BY DEF CleanStart, IdleCleaner, CloudTypeInv, CloudTypeOK
<1>3. ~ScanOne(c) /\ ~ScanDone(c)
  BY <1>c DEF ScanOne, ScanDone, CleanerState, CloudTypeInv, CloudTypeOK
<1>4. ~AuditAborts(c) /\ ~CleanEnd(c)
  BY DEF AuditAborts, CleanEnd, IdleCleaner, CloudTypeInv, CloudTypeOK
<1>5. ~CallDelete(c)
  BY <1>c DEF CallDelete, CleanerState, CloudTypeInv, CloudTypeOK
<1>6. ~Deleted(c)
  BY <1>c DEF Deleted, CleanerState, CloudTypeInv, CloudTypeOK
<1>7. ~Failed(c)
  BY <1>c DEF Failed, CleanerState, CloudTypeInv, CloudTypeOK
<1>8. ASSUME Decide(c) PROVE Verifies(cleaner[c].photo)'
  <2>1. PICK q \in cleaner[c].cands :
          \/ cleaner' = [cleaner EXCEPT ![c].cands = @ \ {q}]
          \/ /\ Verifies(q)
             /\ cleaner' = [cleaner EXCEPT ![c].pc = "call", ![c].photo = q, ![c].cands = @ \ {q}]
    BY <1>8 DEF Decide
  <2>2. cleaner[c].pc = "loop" /\ UNCHANGED <<storeVars, records>>
    BY <1>8 DEF Decide
  <2>3. cleaner' # [cleaner EXCEPT ![c].cands = @ \ {q}]
    BY <1>c, <2>2 DEF CleanerState, CloudTypeInv, CloudTypeOK
  <2>4. Verifies(q) /\ cleaner'[c].photo = q
    BY <1>c, <2>1, <2>3 DEF CleanerState, CloudTypeInv, CloudTypeOK
  <2>5. Verifies(q)'
    BY <2>2, <2>4 DEF Verifies, Tracked, storeVars
  <2> QED BY <2>4, <2>5
<1>9. ASSUME NEW s \in Syncer, SyncList(s) \/ SyncStep(s) PROVE cleaner' = cleaner
  BY <1>9 DEF SyncList, SyncStep, SyncPick, Download, DownloadFails,
     CheckDuplicate, Duplicate, MoveStaged, AddRead, AddCount, AddItem, SyncRecord, SyncEnd
<1>10. ASSUME LibraryStep \/ \E i \in Id, d \in Digest : TransformMedia(i, d)
       PROVE  cleaner' = cleaner
  BY <1>10 DEF LibraryStep, TransformMedia
<1>11. ~RestartServer
  BY DEF RestartServer, IdleCleaner
<1>12. ASSUME UNCHANGED vars PROVE cleaner' = cleaner
  BY <1>12 DEF vars, cloudVars
<1> QED BY <1>1, <1>2, <1>3, <1>4, <1>5, <1>6, <1>7, <1>8, <1>9, <1>10, <1>11, <1>12
   DEF CloudNext, ServerStep, CleanStep

LossInv ==
    /\ CloudTypeInv
    /\ LossOnlyInFlight
    /\ \A p \in InFlight : Verifies(p) \/ p \in exposed

LEMMA StepHistory == ASSUME CloudNext PROVE Losses
<1>1. ASSUME NEW s \in Syncer, SyncList(s) \/ SyncStep(s) PROVE Losses
  BY <1>1 DEF SyncList, SyncStep, SyncPick, Download, DownloadFails,
     CheckDuplicate, Duplicate, MoveStaged, AddRead, AddCount, AddItem, SyncRecord, SyncEnd, History
<1>2. ASSUME NEW c \in Cleaner, CleanStart(c) \/ CleanStep(c) PROVE Losses
  BY <1>2 DEF CleanStart, CleanStep, ScanOne, ScanDone, Decide, AuditAborts,
     CallDelete, Deleted, Failed, CleanEnd, History
<1> QED BY <1>1, <1>2 DEF CloudNext, ServerStep, TransformMedia, LibraryStep, RestartServer, History

(* Only a call in flight takes a photo from the provider.                   *)
LEMMA RemovedInFlight == ASSUME CloudTypeInv, [CloudNext]_vars PROVE remote \ remote' \subseteq InFlight
<1>1. ASSUME NEW s \in Syncer, SyncList(s) \/ SyncStep(s) PROVE remote' = remote
  BY <1>1 DEF SyncList, SyncStep, SyncPick, Download, DownloadFails,
     CheckDuplicate, Duplicate, MoveStaged, AddRead, AddCount, AddItem, SyncRecord, SyncEnd
<1>2. ASSUME NEW c \in Cleaner, CleanStart(c) \/ CleanStep(c)
      PROVE  remote \ remote' \subseteq InFlight
  <2>1. CASE CallDelete(c)
    BY <2>1 DEF CallDelete, InFlight
  <2>2. CASE ~CallDelete(c)
    BY <1>2, <2>2 DEF CleanStart, CleanStep, ScanOne, ScanDone, Decide, AuditAborts,
       Deleted, Failed, CleanEnd
  <2> QED BY <2>1, <2>2
<1> QED BY <1>1, <1>2 DEF CloudNext, ServerStep, TransformMedia, LibraryStep, RestartServer, vars, cloudVars

LEMMA LossStep == LossInv /\ [CloudNext]_vars => LossInv'
<1> SUFFICES ASSUME LossInv, [CloudNext]_vars PROVE LossInv'
  OBVIOUS
<1>0. CloudTypeInv /\ CloudTypeInv'
  BY CloudTypeStep DEF LossInv
<1>1. CASE UNCHANGED vars
  BY <1>0, <1>1 DEF vars, cloudVars, storeVars, LossInv, LossOnlyInFlight, InFlight, Verifies, Tracked
<1>2. CASE CloudNext
  <2>1. /\ exposed' = exposed \cup {p \in InFlight : Verifies(p) /\ ~Verifies(p)'}
        /\ lost' = lost \cup {p \in remote \ remote' : ~Verifies(p)}
    BY <1>2, StepHistory DEF Losses
  <2>2. \A p \in InFlight : ~Verifies(p)' => p \in exposed'
    BY <2>1 DEF LossInv
  <2>3. LossOnlyInFlight'
    BY <1>0, <2>1, RemovedInFlight DEF LossInv, LossOnlyInFlight
  <2>4. ASSUME NEW c \in Cleaner, cleaner'[c].pc = "call"
        PROVE  Verifies(cleaner[c].photo)' \/ cleaner'[c].photo \in exposed'
    <3>1. CASE cleaner[c].pc = "call" /\ cleaner'[c].photo = cleaner[c].photo
      BY <2>2, <3>1 DEF InFlight
    <3>2. CASE Verifies(cleaner[c].photo)'
      BY <3>2
    <3> QED BY <1>0, <2>4, <3>1, <3>2, CallOrigin
  <2>5. \A p \in InFlight' : Verifies(p)' \/ p \in exposed'
    BY <2>4 DEF InFlight
  <2> QED BY <1>0, <2>3, <2>5 DEF LossInv
<1> QED BY <1>1, <1>2

(* Only while a provider.delete is in flight can the local copy it was      *)
(* judged by go bad unnoticed.                                              *)
THEOREM CloudLossOnlyInFlight == CloudSpec => []LossOnlyInFlight
<1>1. CloudInit => LossInv
  <2>1. CloudInit => CloudTypeInv
    BY CloudTypeInit
  <2> QED BY <2>1 DEF CloudInit, LossInv, LossOnlyInFlight, InFlight, IdleCleaner
<1>2. LossInv => LossOnlyInFlight
  BY DEF LossInv
<1> QED BY <1>1, <1>2, LossStep, PTL DEF CloudSpec

-----------------------------------------------------------------------------
(* Records carry the remote photo's own digest.                             *)

ShaInv ==
    /\ CloudTypeInv
    /\ RecordShaIsRemote
    /\ \A p \in Photo : state[p] # None => state[p].sha = Content[p]
    /\ \A s \in Syncer : syncer[s].pc = "return" => syncer[s].rec.sha = Content[syncer[s].photo]

(* A pass has a record to hand back only if it made it from its photo.      *)
LEMMA ReturnOrigin ==
    ASSUME CloudTypeInv, [CloudNext]_vars, NEW s \in Syncer, syncer'[s].pc = "return"
    PROVE  \/ syncer'[s] = syncer[s]
           \/ syncer'[s].rec.sha = Content[syncer'[s].photo] /\ ~syncer'[s].rec.deleted
<1>s. \A t \in Syncer : syncer[t] \in SyncerState
  BY DEF CloudTypeInv, CloudTypeOK
<1>1. ASSUME NEW t \in Syncer, t # s, SyncList(t) \/ SyncStep(t) PROVE syncer'[s] = syncer[s]
  BY <1>1 DEF SyncList, SyncStep, SyncPick, Download, DownloadFails, CheckDuplicate, Duplicate,
     MoveStaged, AddRead, AddCount, AddItem, SyncRecord, SyncEnd, CloudTypeInv, CloudTypeOK
<1>2. ~SyncList(s) /\ ~SyncEnd(s)
  <2>1. ASSUME syncer' = [syncer EXCEPT ![s] = IdleSyncer] PROVE FALSE
    BY <2>1 DEF IdleSyncer, CloudTypeInv, CloudTypeOK
  <2>2. ASSUME syncer' = [syncer EXCEPT ![s] = [IdleSyncer EXCEPT !.pc = "loop", !.todo = remote]]
        PROVE  FALSE
    BY <2>2 DEF IdleSyncer, CloudTypeInv, CloudTypeOK
  <2> QED BY <2>1, <2>2 DEF SyncList, SyncEnd
<1>3. ~SyncPick(s) /\ ~Download(s) /\ ~DownloadFails(s)
  <2>1. ~SyncPick(s)
    <3>1. ASSUME NEW q, syncer' = [syncer EXCEPT ![s].pc = "download", ![s].photo = q,
                                     ![s].todo = @ \ {q}]
          PROVE  FALSE
      BY <1>s, <3>1 DEF SyncerState, CloudTypeInv, CloudTypeOK
    <3> QED BY <3>1 DEF SyncPick
  <2>2. ~Download(s)
    BY <1>s DEF Download, SyncerState, CloudTypeInv, CloudTypeOK
  <2>3. ~DownloadFails(s)
    BY <1>s DEF DownloadFails, SyncerState, CloudTypeInv, CloudTypeOK
  <2> QED BY <2>1, <2>2, <2>3
<1>4. ~CheckDuplicate(s) /\ ~MoveStaged(s) /\ ~AddRead(s) /\ ~AddCount(s)
  BY <1>s DEF CheckDuplicate, MoveStaged, AddRead, AddCount, SyncerState, CloudTypeInv, CloudTypeOK
<1>5. ~SyncRecord(s)
  BY <1>s DEF SyncRecord, SyncerState, CloudTypeInv, CloudTypeOK
<1>6. ASSUME Duplicate(s) \/ \E i \in Id : AddItem(s, i)
      PROVE  syncer'[s].rec.sha = Content[syncer'[s].photo] /\ ~syncer'[s].rec.deleted
  <2>1. PICK i, v :
          syncer' = [syncer EXCEPT ![s].pc = "return",
                       ![s].rec = [item |-> i, sha |-> Content[syncer[s].photo],
                                   verified |-> v, deleted |-> FALSE]]
    BY <1>6 DEF Duplicate, AddItem
  <2> QED BY <1>s, <2>1 DEF SyncerState, CloudTypeInv, CloudTypeOK
<1>7. ASSUME NEW c \in Cleaner, CleanStart(c) \/ CleanStep(c) PROVE syncer' = syncer
  BY <1>7 DEF CleanStart, CleanStep, ScanOne, ScanDone, Decide, AuditAborts,
     CallDelete, Deleted, Failed, CleanEnd
<1>8. ASSUME LibraryStep \/ \E i \in Id, d \in Digest : TransformMedia(i, d) PROVE syncer' = syncer
  BY <1>8 DEF LibraryStep, TransformMedia
<1>9. ~RestartServer
  BY DEF RestartServer, IdleSyncer
<1>10. ASSUME UNCHANGED vars PROVE syncer' = syncer
  BY <1>10 DEF vars, cloudVars
<1> QED BY <1>1, <1>2, <1>3, <1>4, <1>5, <1>6, <1>7, <1>8, <1>9, <1>10 DEF CloudNext, ServerStep, SyncStep

(* How a step may change a photo's record.                                  *)
LEMMA RecordOrigin ==
    ASSUME CloudTypeInv, [CloudNext]_vars, NEW p \in Photo
    PROVE  \/ records'[p] = records[p]
           \/ \E s \in Syncer : /\ syncer[s].pc = "return" /\ syncer[s].photo = p
                                /\ SyncRecord(s)
                                /\ records'[p] = syncer[s].rec
           \/ /\ records[p] # None /\ records'[p] # None
              /\ records'[p].sha = records[p].sha
              /\ records'[p].item = records[p].item
              /\ records[p].deleted => records'[p].deleted
              /\ records'[p].deleted
                   => \/ records[p].deleted
                      \/ \E c \in Cleaner : Deleted(c) /\ cleaner[c].photo = p
           \/ RestartServer /\ records' = state
<1>r. records \in [Photo -> Record \cup {None}]
  BY DEF CloudTypeInv, CloudTypeOK
<1>r1. ASSUME records[p] # None
       PROVE  /\ records[p] \in Record
              /\ [records[p] EXCEPT !.verified = FALSE] \in Record
              /\ [records[p] EXCEPT !.deleted = TRUE] \in Record
  BY <1>r, <1>r1 DEF Record
<1>1. ASSUME NEW s \in Syncer, SyncList(s) \/ SyncStep(s)
      PROVE  records' = records \/ SyncRecord(s)
  BY <1>1 DEF SyncList, SyncStep, SyncPick, Download, DownloadFails, CheckDuplicate, Duplicate,
     MoveStaged, AddRead, AddCount, AddItem, SyncEnd
<1>2. ASSUME NEW s \in Syncer, SyncRecord(s), records'[p] # records[p]
      PROVE  syncer[s].pc = "return" /\ syncer[s].photo = p /\ records'[p] = syncer[s].rec
  BY <1>r, <1>2 DEF SyncRecord
<1>3. ASSUME NEW c \in Cleaner, CleanStart(c) \/ CleanStep(c)
      PROVE  records' = records \/ Deleted(c)
  BY <1>3 DEF CleanStart, CleanStep, ScanOne, ScanDone, Decide, AuditAborts, CallDelete,
     Failed, CleanEnd
<1>4. ASSUME NEW c \in Cleaner, Deleted(c), records'[p] # records[p]
      PROVE  /\ records[p] # None /\ records'[p] # None
             /\ records'[p].sha = records[p].sha
             /\ records'[p].item = records[p].item
             /\ records'[p].deleted
             /\ cleaner[c].photo = p
  <2>1. /\ records[p] # None /\ records'[p] = [records[p] EXCEPT !.deleted = TRUE]
        /\ cleaner[c].photo = p
    BY <1>r, <1>4 DEF Deleted
  <2> QED BY <1>r1, <2>1, NoneRecordAssumption DEF Record
<1>5. ASSUME NEW i \in Id, Unverify(i), records'[p] # records[p]
      PROVE  /\ records[p] # None /\ records'[p] # None
             /\ records'[p].sha = records[p].sha
             /\ records'[p].item = records[p].item
             /\ records'[p].deleted = records[p].deleted
  <2>1. records[p] # None /\ records'[p] = [records[p] EXCEPT !.verified = FALSE]
    BY <1>5 DEF Unverify
  <2> QED BY <1>r1, <2>1, NoneRecordAssumption DEF Record
<1>6. LibraryStep => records' = records
  BY DEF LibraryStep
<1>7. RestartServer => records' = state
  BY DEF RestartServer
<1>8. UNCHANGED vars => records' = records
  BY DEF vars, cloudVars
<1> QED BY <1>1, <1>2, <1>3, <1>4, <1>5, <1>6, <1>7, <1>8 DEF CloudNext, ServerStep, TransformMedia

(* The state file is a record map of now or of before.                      *)
LEMMA StateOrigin == ASSUME [CloudNext]_vars PROVE state' \in {records', records, state}
<1>1. ASSUME NEW s \in Syncer, SyncList(s) \/ SyncStep(s) PROVE state' \in {records, state}
  BY <1>1 DEF SyncList, SyncStep, SyncPick, Download, DownloadFails, CheckDuplicate, Duplicate,
     MoveStaged, AddRead, AddCount, AddItem, SyncRecord, SyncEnd
<1>2. ASSUME NEW c \in Cleaner, CleanStart(c) \/ CleanStep(c) PROVE state' \in {records', state}
  BY <1>2 DEF CleanStart, CleanStep, ScanOne, ScanDone, Decide, AuditAborts, CallDelete,
     Deleted, Failed, CleanEnd, SaveState
<1> QED BY <1>1, <1>2 DEF CloudNext, ServerStep, TransformMedia, Unverify, SaveState, LibraryStep,
   RestartServer, vars, cloudVars

LEMMA ShaStep == ShaInv /\ [CloudNext]_vars => ShaInv'
<1> SUFFICES ASSUME ShaInv, [CloudNext]_vars PROVE ShaInv'
  OBVIOUS
<1>0. CloudTypeInv /\ CloudTypeInv'
  BY CloudTypeStep DEF ShaInv
<1>1. \A p \in Photo : records'[p] # None => records'[p].sha = Content[p]
  BY <1>0, RecordOrigin DEF ShaInv, RecordShaIsRemote
<1>2. \A p \in Photo : state'[p] # None => state'[p].sha = Content[p]
  BY <1>1, StateOrigin DEF ShaInv, RecordShaIsRemote
<1>3. ASSUME NEW s \in Syncer, syncer'[s].pc = "return"
      PROVE  syncer'[s].rec.sha = Content[syncer'[s].photo]
  BY <1>0, <1>3, ReturnOrigin DEF ShaInv
<1> QED BY <1>0, <1>1, <1>2, <1>3 DEF ShaInv, RecordShaIsRemote

(* Whatever got mixed up on the way, a record's digest is the content of    *)
(* the photo it is filed under.                                             *)
THEOREM CloudRecordShaIsRemote == CloudSpec => []RecordShaIsRemote
<1>1. CloudInit => ShaInv
  <2>1. CloudInit => CloudTypeInv
    BY CloudTypeInit
  <2> QED BY <2>1 DEF CloudInit, ShaInv, RecordShaIsRemote, IdleSyncer
<1>2. ShaInv => RecordShaIsRemote
  BY DEF ShaInv
<1> QED BY <1>1, <1>2, ShaStep, PTL DEF CloudSpec

-----------------------------------------------------------------------------
(* The cap of one run.                                                      *)

RunBounded(st) ==
    /\ st.removed <= st.deleted + st.failed + (IF st.pc \in {"deleted", "failed"} THEN 1 ELSE 0)
    /\ st.deleted <= Cap
    /\ st.pc \in {"call", "deleted"} => st.deleted < Cap

CapInv == CloudTypeInv /\ \A c \in Cleaner : RunBounded(cleaner[c])

(* One run's own steps keep its books.                                      *)
LEMMA RunBoundedStep ==
    ASSUME CapInv, NEW c \in Cleaner, CleanStart(c) \/ CleanStep(c)
    PROVE  RunBounded(cleaner[c])'
<1> DEFINE old == cleaner[c]
<1>0. /\ old \in CleanerState /\ RunBounded(old)
      /\ old.removed \in Nat /\ old.deleted \in Nat /\ old.failed \in Nat /\ Cap \in Nat
  BY CloudAssumption DEF CapInv, CloudTypeInv, CloudTypeOK, CleanerState
<1>1. CASE CleanStart(c) \/ AuditAborts(c) \/ CleanEnd(c)
  <2>1. /\ cleaner'[c].removed = 0 /\ cleaner'[c].deleted = 0 /\ cleaner'[c].failed = 0
        /\ cleaner'[c].pc \in {"idle", "scan"}
    <3>1. CASE CleanStart(c)
      BY <3>1 DEF CleanStart, IdleCleaner, CapInv, CloudTypeInv, CloudTypeOK
    <3>2. CASE AuditAborts(c) \/ CleanEnd(c)
      BY <3>2 DEF AuditAborts, CleanEnd, IdleCleaner, CapInv, CloudTypeInv, CloudTypeOK
    <3> QED BY <1>1, <3>1, <3>2
  <2> QED BY <1>0, <2>1 DEF RunBounded
<1>2. CASE ScanOne(c) \/ ScanDone(c)
  <2>1. CASE ScanOne(c)
    <3>1. PICK todo, cands : cleaner' = [cleaner EXCEPT ![c].todo = todo, ![c].cands = cands]
      BY <2>1 DEF ScanOne
    <3>2. /\ cleaner'[c].removed = old.removed /\ cleaner'[c].deleted = old.deleted
          /\ cleaner'[c].failed = old.failed /\ cleaner'[c].pc = old.pc
      BY <1>0, <3>1 DEF CleanerState, CapInv, CloudTypeInv, CloudTypeOK
    <3> QED BY <1>0, <3>2 DEF RunBounded
  <2>2. CASE ScanDone(c)
    <3>1. /\ cleaner'[c].removed = old.removed /\ cleaner'[c].deleted = old.deleted
          /\ cleaner'[c].failed = old.failed /\ cleaner'[c].pc = "loop" /\ old.pc = "scan"
      BY <1>0, <2>2 DEF ScanDone, CleanerState, CapInv, CloudTypeInv, CloudTypeOK
    <3> QED BY <1>0, <3>1 DEF RunBounded
  <2> QED BY <1>2, <2>1, <2>2
<1>3. CASE Decide(c)
  <2>1. PICK q :
          \/ cleaner' = [cleaner EXCEPT ![c].cands = @ \ {q}]
          \/ cleaner' = [cleaner EXCEPT ![c].pc = "call", ![c].photo = q, ![c].cands = @ \ {q}]
    BY <1>3 DEF Decide
  <2>2. /\ cleaner'[c].removed = old.removed /\ cleaner'[c].deleted = old.deleted
        /\ cleaner'[c].failed = old.failed /\ cleaner'[c].pc \in {old.pc, "call"}
    BY <1>0, <2>1 DEF CleanerState, CapInv, CloudTypeInv, CloudTypeOK
  <2>3. old.pc = "loop" /\ old.deleted < Cap
    BY <1>3 DEF Decide
  <2> QED BY <1>0, <2>2, <2>3 DEF RunBounded
<1>4. CASE CallDelete(c)
  <2>1. PICK pc \in {"deleted", "failed"} :
          \/ cleaner' = [cleaner EXCEPT ![c].pc = pc, ![c].removed = @ + 1]
          \/ cleaner' = [cleaner EXCEPT ![c].pc = pc]
    BY <1>4 DEF CallDelete
  <2>2. /\ cleaner'[c].removed \in {old.removed, old.removed + 1}
        /\ cleaner'[c].deleted = old.deleted
        /\ cleaner'[c].failed = old.failed /\ cleaner'[c].pc = pc
    BY <1>0, <2>1 DEF CleanerState, CapInv, CloudTypeInv, CloudTypeOK
  <2>3. old.pc = "call"
    BY <1>4 DEF CallDelete
  <2> QED BY <1>0, <2>2, <2>3 DEF RunBounded
<1>5. CASE Deleted(c)
  <2>1. /\ cleaner'[c].removed = old.removed /\ cleaner'[c].deleted = old.deleted + 1
        /\ cleaner'[c].failed = old.failed /\ cleaner'[c].pc = "loop" /\ old.pc = "deleted"
    BY <1>0, <1>5 DEF Deleted, CleanerState, CapInv, CloudTypeInv, CloudTypeOK
  <2> QED BY <1>0, <2>1 DEF RunBounded
<1>6. CASE Failed(c)
  <2>1. /\ cleaner'[c].removed = old.removed /\ cleaner'[c].deleted = old.deleted
        /\ cleaner'[c].failed = old.failed + 1 /\ cleaner'[c].pc = "loop" /\ old.pc = "failed"
    BY <1>0, <1>6 DEF Failed, CleanerState, CapInv, CloudTypeInv, CloudTypeOK
  <2> QED BY <1>0, <2>1 DEF RunBounded
<1> QED BY <1>1, <1>2, <1>3, <1>4, <1>5, <1>6 DEF CleanStep

LEMMA CapStep == CapInv /\ [CloudNext]_vars => CapInv'
<1> SUFFICES ASSUME CapInv, [CloudNext]_vars, NEW c \in Cleaner PROVE RunBounded(cleaner[c])'
  BY CloudTypeStep DEF CapInv
<1>1. CASE cleaner'[c] = cleaner[c]
  BY <1>1 DEF CapInv, RunBounded
<1>2. ASSUME NEW x \in Cleaner, x # c, CleanStart(x) \/ CleanStep(x) PROVE cleaner'[c] = cleaner[c]
  BY <1>2 DEF CleanStep, CleanStart, ScanOne, ScanDone, Decide, AuditAborts, CallDelete, Deleted,
     Failed, CleanEnd, CapInv, CloudTypeInv, CloudTypeOK
<1>3. ASSUME NEW s \in Syncer, SyncList(s) \/ SyncStep(s) PROVE cleaner' = cleaner
  BY <1>3 DEF SyncList, SyncStep, SyncPick, Download, DownloadFails,
     CheckDuplicate, Duplicate, MoveStaged, AddRead, AddCount, AddItem, SyncRecord, SyncEnd
<1>4. ASSUME LibraryStep \/ (\E i \in Id, d \in Digest : TransformMedia(i, d)) \/ UNCHANGED vars
      PROVE  cleaner' = cleaner
  BY <1>4 DEF LibraryStep, TransformMedia, vars, cloudVars
<1>5. CASE RestartServer
  <2>1. cleaner'[c] = IdleCleaner
    BY <1>5 DEF RestartServer
  <2> QED BY <2>1, CloudAssumption DEF IdleCleaner, RunBounded
<1> QED BY <1>1, <1>2, <1>3, <1>4, <1>5, RunBoundedStep DEF CloudNext, ServerStep

(* One run takes at most Cap photos beyond those it reported as failed, for *)
(* every cap and any number of runs beside it.                              *)
THEOREM CloudRemovalsBounded == CloudSpec => []RemovalsBounded
<1>1. CloudInit => CapInv
  <2>1. CloudInit => CloudTypeInv
    BY CloudTypeInit
  <2> QED BY <2>1, CloudAssumption DEF CloudInit, CapInv, IdleCleaner, RunBounded
<1>2. CapInv => RemovalsBounded
  <2> SUFFICES ASSUME CapInv, NEW c \in Cleaner
               PROVE  cleaner[c].removed <= Cap + cleaner[c].failed
                                            + (IF cleaner[c].pc = "failed" THEN 1 ELSE 0)
    BY DEF RemovalsBounded
  <2>1. /\ cleaner[c].removed \in Nat /\ cleaner[c].deleted \in Nat /\ cleaner[c].failed \in Nat
        /\ Cap \in Nat /\ RunBounded(cleaner[c])
    BY CloudAssumption DEF CapInv, CloudTypeInv, CloudTypeOK, CleanerState
  <2> QED BY <2>1 DEF RunBounded
<1> QED BY <1>1, <1>2, CapStep, PTL DEF CloudSpec

-----------------------------------------------------------------------------
(* Stamps.  The only steps that put a photo into a pass's hands are picks,  *)
(* and those pass over what is tracked.                                     *)

LEMMA HandOrigin ==
    ASSUME CloudTypeInv, [CloudNext]_vars, NEW s \in Syncer, syncer'[s].photo \in Photo
    PROVE  syncer'[s].photo = syncer[s].photo \/ ~Tracked(syncer'[s].photo)
<1>s. /\ \A t \in Syncer : syncer[t] \in SyncerState
      /\ syncer \in [Syncer -> SyncerState]
      /\ None \notin Photo
  BY NoneRecordAssumption DEF CloudTypeInv, CloudTypeOK
<1>1. ASSUME NEW t \in Syncer, t # s, SyncList(t) \/ SyncStep(t) PROVE syncer'[s] = syncer[s]
  BY <1>1 DEF SyncList, SyncStep, SyncPick, Download, DownloadFails, CheckDuplicate, Duplicate,
     MoveStaged, AddRead, AddCount, AddItem, SyncRecord, SyncEnd, CloudTypeInv, CloudTypeOK
<1>2. ASSUME SyncPick(s) PROVE ~Tracked(syncer'[s].photo)
  <2>1. PICK q : /\ ~Tracked(q)
                 /\ syncer' = [syncer EXCEPT ![s].pc = "download", ![s].photo = q, ![s].todo = @ \ {q}]
    BY <1>2 DEF SyncPick
  <2>2. syncer'[s].photo = q
    BY <1>s, <2>1 DEF SyncerState
  <2> QED BY <2>1, <2>2
<1>3. ~SyncList(s) /\ ~DownloadFails(s) /\ ~SyncRecord(s) /\ ~SyncEnd(s)
  <2>1. ~SyncList(s)
    BY <1>s DEF SyncList, IdleSyncer
  <2>2. ~SyncEnd(s)
    BY <1>s DEF SyncEnd, IdleSyncer
  <2>3. ~DownloadFails(s)
    BY <1>s DEF DownloadFails, SyncerState
  <2>4. ~SyncRecord(s)
    BY <1>s DEF SyncRecord, SyncerState
  <2> QED BY <2>1, <2>2, <2>3, <2>4
<1>4. ASSUME Download(s) \/ CheckDuplicate(s) \/ AddRead(s) \/ AddCount(s)
      PROVE  syncer'[s].photo = syncer[s].photo
  <2>1. CASE Download(s)
    BY <1>s, <2>1 DEF Download, SyncerState
  <2>2. CASE CheckDuplicate(s)
    BY <1>s, <2>2 DEF CheckDuplicate, SyncerState
  <2>3. CASE AddRead(s)
    BY <1>s, <2>3 DEF AddRead, SyncerState
  <2>4. CASE AddCount(s)
    BY <1>s, <2>4 DEF AddCount, SyncerState
  <2> QED BY <1>4, <2>1, <2>2, <2>3, <2>4
<1>5. ASSUME Duplicate(s) \/ \E i \in Id : AddItem(s, i) PROVE syncer'[s].photo = syncer[s].photo
  <2>1. PICK r : syncer' = [syncer EXCEPT ![s].pc = "return", ![s].rec = r]
    BY <1>5 DEF Duplicate, AddItem
  <2> QED BY <1>s, <2>1 DEF SyncerState
<1>6. ASSUME MoveStaged(s) PROVE syncer'[s].photo = syncer[s].photo
  <2>1. \/ syncer' = [syncer EXCEPT ![s].pc = "add"]
        \/ syncer' = [syncer EXCEPT ![s].pc = "loop", ![s].photo = None]
    BY <1>6 DEF MoveStaged
  <2> QED BY <1>s, <2>1 DEF SyncerState
<1>7. ASSUME NEW c \in Cleaner, CleanStart(c) \/ CleanStep(c) PROVE syncer' = syncer
  BY <1>7 DEF CleanStart, CleanStep, ScanOne, ScanDone, Decide, AuditAborts,
     CallDelete, Deleted, Failed, CleanEnd
<1>8. ASSUME LibraryStep \/ (\E i \in Id, d \in Digest : TransformMedia(i, d)) \/ UNCHANGED vars
      PROVE  syncer' = syncer
  BY <1>8 DEF LibraryStep, TransformMedia, vars, cloudVars
<1>9. ~RestartServer
  BY <1>s DEF RestartServer, IdleSyncer
<1> QED BY <1>1, <1>2, <1>3, <1>4, <1>5, <1>6, <1>7, <1>8, <1>9 DEF CloudNext, ServerStep, SyncStep

(* However many passes overlap, a photo that is tracked and in no pass's    *)
(* hands stays so, and keeps its stamp, until a restart loads an older      *)
(* state file.                                                              *)
THEOREM CloudStampKept == CloudSpec => StampKept
<1> DEFINE Kept == \A p \in Photo : Settled(p) /\ records[p].deleted /\ ~RestartServer
                                      => Settled(p)' /\ records'[p].deleted
<1>1. CloudTypeInv /\ [CloudNext]_vars => [Kept]_vars
  <2> SUFFICES ASSUME CloudTypeInv, [CloudNext]_vars, NEW p \in Photo,
                      Settled(p), records[p].deleted, ~RestartServer
               PROVE  Settled(p)' /\ records'[p].deleted
    OBVIOUS
  <2>1. Tracked(p) /\ \A s \in Syncer : syncer[s].photo # p
    BY DEF Settled
  <2>2. /\ records'[p] # None /\ records'[p].item = records[p].item
        /\ records'[p].deleted
    BY <2>1, RecordOrigin DEF Tracked
  <2>3. \A s \in Syncer : syncer'[s].photo # p
    BY <2>1, HandOrigin
  <2> QED BY <2>1, <2>2, <2>3 DEF Settled, Tracked
<1>2. CloudTypeInv /\ [CloudNext]_vars => CloudTypeInv'
  BY CloudTypeStep
<1> QED BY <1>1, <1>2, CloudTypeInit, PTL DEF CloudSpec, StampKept

-----------------------------------------------------------------------------
(* The reference counts, written to by the handlers and by the passes'      *)
(* executor threads.                                                        *)

(* An id that was never given out is in no index.                           *)
Unused == \A i \in Id : issued[i] = None => items[i] = None /\ index[i] = None

LEMMA UnusedHandlers ==
    ASSUME StoreTypeOK, Unused, [Handlers]_storeVars
    PROVE  Unused'
<1>1. ASSUME NEW i \in Id, NEW p \in Path, NEW d \in Digest, Upload(i, p, d) PROVE Unused'
  <2>1. p # None
    BY NoneAssumption
  <2> QED BY <1>1, <2>1 DEF Upload, Put, Save, Unused, StoreTypeOK
<1>2. ASSUME NEW i \in Id, Refresh(i) PROVE Unused'
  BY <1>2 DEF Refresh, Put, Save, Unused, StoreTypeOK
<1>3. ASSUME NEW i \in Id, Hide(i) PROVE Unused'
  BY <1>3 DEF Hide, Put, Save, Unused, StoreTypeOK
<1>4. ASSUME NEW i \in Id, Trash(i) PROVE Unused'
  BY <1>4 DEF Trash, Put, Save, Unused, StoreTypeOK
<1>5. ASSUME NEW i \in Id, DeletePermanent(i) PROVE Unused'
  BY <1>5 DEF DeletePermanent, Drop, Save, Unused, StoreTypeOK
<1>6. ASSUME NEW i \in Id, Restore(i) PROVE Unused'
  BY <1>6 DEF Restore, Put, Save, Unused, StoreTypeOK
<1>7. ASSUME NEW i \in Id, NEW d \in Digest, Transform(i, d) PROVE Unused'
  BY <1>7 DEF Transform, Put, Save, Unused, StoreTypeOK
<1>8. ASSUME NEW i \in Id, NEW d \in Digest, TransformRaises(i, d) PROVE Unused'
  BY <1>8 DEF TransformRaises, Put, Unused, StoreTypeOK
<1>9. CASE SaveIndex \/ UNCHANGED storeVars
  BY <1>9 DEF SaveIndex, storeVars, Unused
<1> QED BY <1>1, <1>2, <1>3, <1>4, <1>5, <1>6, <1>7, <1>8, <1>9 DEF Handlers

LEMMA UnusedStep ==
    ASSUME CloudTypeInv, Unused, [CloudNext]_vars
    PROVE  Unused'
<1>0. StoreTypeOK
  BY DEF CloudTypeInv, CloudTypeOK
<1>1. CASE RestartServer
  BY <1>1 DEF RestartServer, Restart, Unused
<1>2. ASSUME NEW s \in Syncer, MoveStaged(s) \/ AddCount(s) \/ SyncEnd(s) PROVE Unused'
  BY <1>2 DEF MoveStaged, AddCount, SyncEnd, Unused
<1>3. ASSUME NEW s \in Syncer, NEW i \in Id, AddItem(s, i) PROVE Unused'
  <2>1. FileOf[syncer[s].photo] # None
    BY <1>3, CloudAssumption, NoneAssumption DEF AddItem, CloudTypeInv, Working
  <2> QED BY <1>0, <1>3, <2>1 DEF AddItem, Unused, StoreTypeOK
<1> QED BY <1>0, <1>1, <1>2, <1>3, LibrarySteps, UnusedHandlers DEF Foreign

(* The threads that have counted an item of digest d and not entered it.    *)
Entries(d) == {s \in Syncer : Entering(s, d)}

LEMMA EntriesFinite == ASSUME NEW d PROVE IsFiniteSet(Entries(d)) /\ Cardinality(Entries(d)) \in Nat
  BY CloudAssumption, FS_Subset, FS_CardinalityType DEF Entries

RaceInv ==
    /\ CloudTypeInv
    /\ Unused
    /\ \A d \in Digest \ raced :
         /\ CountedBy(d, Cardinality(Entries(d)))
         /\ \A s \in Syncer : Counting(s, d) => syncer[s].n = digests[d]

(* What is left to show of a step for one digest nobody raced for.          *)
Told(d) ==
    /\ CountedBy(d, Cardinality(Entries(d)))
    /\ \A s \in Syncer : Counting(s, d) => syncer[s].n = digests[d]

(* A step that leaves the passes where they are.                            *)
LEMMA RaceElsewhere ==
    ASSUME RaceInv, [Handlers]_storeVars, syncer' = syncer, digests' = digests \/ History,
           NEW d \in Digest, d \notin raced, d \notin raced'
    PROVE  Told(d)'
<1>1. StoreTypeOK /\ Told(d)
  BY DEF RaceInv, Told, CloudTypeInv, CloudTypeOK
<1>2. Entries(d)' = Entries(d)
  BY DEF Entries, Entering
<1>3. CountedBy(d, Cardinality(Entries(d)))'
  <2>1. PICK k \in Nat : k = Cardinality(Entries(d))
    BY EntriesFinite
  <2>2. CountedBy(d, k)
    BY <1>1, <2>1 DEF Told
  <2>3. CountedBy(d, k)'
    BY <1>1, <2>2, HandlersCount
  <2> QED BY <1>2, <2>1, <2>3 DEF CountedBy
<1>4. ASSUME NEW s \in Syncer, Counting(s, d)' PROVE syncer'[s].n = digests'[d]
  <2>1. Counting(s, d)
    BY <1>4 DEF Counting
  <2>2. digests'[d] = digests[d]
    BY <1>4, <2>1 DEF History
  <2> QED BY <1>1, <2>1, <2>2 DEF Told
<1> QED BY <1>3, <1>4 DEF Told

(* The steps of one pass.                                                   *)
LEMMA RacePass ==
    ASSUME RaceInv, NEW s \in Syncer, SyncList(s) \/ SyncStep(s),
           NEW d \in Digest, d \notin raced, d \notin raced'
    PROVE  Told(d)'
<1> DEFINE c == Content[syncer[s].photo]
<1>0. /\ syncer \in [Syncer -> SyncerState] /\ syncer[s] \in SyncerState
      /\ StoreTypeOK /\ Told(d)
  BY DEF RaceInv, Told, CloudTypeInv, CloudTypeOK
<1>1. \A t \in Syncer \ {s} : syncer'[t] = syncer[t]
  BY <1>0 DEF SyncList, SyncStep, SyncPick, Download, DownloadFails, CheckDuplicate, Duplicate,
     MoveStaged, AddRead, AddCount, AddItem, SyncRecord, SyncEnd
<1>2. CASE AddRead(s)
  <2>1. /\ syncer'[s].pc = "count" /\ syncer'[s].photo = syncer[s].photo
        /\ syncer'[s].n = digests[c] /\ syncer[s].pc = "add"
        /\ digests' = digests /\ items' = items
    BY <1>0, <1>2 DEF AddRead, SyncerState, storeVars
  <2>2. Entries(d)' = Entries(d)
    BY <1>1, <2>1 DEF Entries, Entering
  <2>3. ASSUME NEW t \in Syncer, Counting(t, d)' PROVE syncer'[t].n = digests'[d]
    BY <1>0, <1>1, <2>1, <2>3 DEF Counting, Told
  <2> QED BY <1>0, <2>1, <2>2, <2>3 DEF Told, CountedBy
<1>3. CASE AddCount(s)
  <2>1. /\ syncer'[s].pc = "put" /\ syncer'[s].photo = syncer[s].photo
        /\ syncer[s].pc = "count" /\ items' = items
        /\ digests' = [digests EXCEPT ![c] = syncer[s].n + 1]
        /\ History
    BY <1>0, <1>3 DEF AddCount, SyncerState
  <2>2. CASE d = c
    <3>1. syncer[s].n = digests[d] /\ digests[d] \in Nat
      BY <1>0, <2>1, <2>2 DEF Counting, Told, StoreTypeOK
    <3>2. digests'[d] = digests[d] + 1
      BY <1>0, <2>1, <2>2, <3>1 DEF StoreTypeOK
    <3>3. Entries(d)' = Entries(d) \cup {s} /\ s \notin Entries(d)
      BY <1>1, <2>1, <2>2 DEF Entries, Entering
    <3>4. Cardinality(Entries(d)') = Cardinality(Entries(d)) + 1
      BY <3>3, EntriesFinite, FS_AddElement
    <3>5. CountedBy(d, Cardinality(Entries(d)))'
      <4>1. Cardinality(Users(items, d)) \in Nat /\ Cardinality(Entries(d)) \in Nat
        BY UsersFinite, EntriesFinite
      <4>2. digests[d] = Cardinality(Users(items, d)) + Cardinality(Entries(d))
        BY <1>0 DEF Told, CountedBy
      <4> QED BY <2>1, <3>2, <3>4, <4>1, <4>2 DEF CountedBy
    <3>6. ASSUME NEW t \in Syncer, Counting(t, d)' PROVE FALSE
      <4>1. Counting(t, d)
        BY <1>1, <2>1, <3>6 DEF Counting
      <4>2. digests'[d] # digests[d]
        BY <3>1, <3>2
      <4> QED BY <2>1, <3>6, <4>1, <4>2 DEF History
    <3> QED BY <3>5, <3>6 DEF Told
  <2>3. CASE d # c
    <3>1. digests'[d] = digests[d]
      BY <1>0, <2>1, <2>3 DEF StoreTypeOK
    <3>2. Entries(d)' = Entries(d)
      BY <1>1, <2>1, <2>3 DEF Entries, Entering
    <3>3. ASSUME NEW t \in Syncer, Counting(t, d)' PROVE syncer'[t].n = digests'[d]
      BY <1>0, <1>1, <2>1, <3>1, <3>3 DEF Counting, Told
    <3> QED BY <1>0, <2>1, <3>1, <3>2, <3>3 DEF Told, CountedBy
  <2> QED BY <2>2, <2>3
<1>4. ASSUME NEW i \in Id, AddItem(s, i) PROVE Told(d)'
  <2>1. PICK stale \in BOOLEAN :
          /\ items' = [items EXCEPT ![i] = [path |-> FileOf[syncer[s].photo], sha |-> c,
                                             trashed |-> FALSE, stale |-> stale]]
          /\ syncer' = [syncer EXCEPT ![s].pc = "return",
                           ![s].rec = [item |-> i, sha |-> c, verified |-> TRUE,
                                       deleted |-> FALSE]]
    BY <1>4 DEF AddItem
  <2>2. /\ syncer'[s].pc = "return" /\ syncer[s].pc = "put"
        /\ digests' = digests /\ items[i] = None
    BY <1>0, <1>4, <2>1 DEF AddItem, SyncerState, RaceInv, Unused
  <2>3. ASSUME NEW t \in Syncer, Counting(t, d)' PROVE syncer'[t].n = digests'[d]
    BY <1>0, <1>1, <2>2, <2>3 DEF Counting, Told
  <2>4. [path |-> FileOf[syncer[s].photo], sha |-> c, trashed |-> FALSE, stale |-> stale] # None
    <3>1. syncer[s].photo \in Photo
      BY <2>2 DEF RaceInv, CloudTypeInv, Working
    <3>2. [path |-> FileOf[syncer[s].photo], sha |-> c, trashed |-> FALSE, stale |-> stale] \in Item
      BY <3>1, CloudAssumption DEF Item
    <3> QED BY <3>2, NoneItemAssumption
  <2>5. Users(items', d) = IF d = c THEN Users(items, d) \cup {i} ELSE Users(items, d)
    BY <1>0, <2>1, <2>2, <2>4 DEF Users, StoreTypeOK
  <2>6. i \notin Users(items, d)
    BY <2>2 DEF Users
  <2>7. CASE d = c
    <3>1. Entries(d)' = Entries(d) \ {s} /\ s \in Entries(d)
      BY <1>1, <2>2, <2>7 DEF Entries, Entering
    <3>2. Cardinality(Entries(d)') = Cardinality(Entries(d)) - 1
      BY <3>1, EntriesFinite, FS_RemoveElement
    <3>3. Cardinality(Users(items', d)) = Cardinality(Users(items, d)) + 1
      BY <2>5, <2>6, <2>7, UsersFinite, FS_AddElement
    <3>4. Cardinality(Users(items, d)) \in Nat /\ Cardinality(Entries(d)) \in Nat
      BY UsersFinite, EntriesFinite
    <3>5. digests[d] = Cardinality(Users(items, d)) + Cardinality(Entries(d))
      BY <1>0 DEF Told, CountedBy
    <3>6. CountedBy(d, Cardinality(Entries(d)))'
      BY <2>2, <3>2, <3>3, <3>4, <3>5 DEF CountedBy
    <3> QED BY <2>3, <3>6 DEF Told
  <2>8. CASE d # c
    <3>1. Entries(d)' = Entries(d)
      BY <1>1, <2>2, <2>8 DEF Entries, Entering
    <3> QED BY <1>0, <2>2, <2>3, <2>5, <2>8, <3>1 DEF Told, CountedBy
  <2> QED BY <2>7, <2>8
<1>5. ASSUME SyncList(s) \/ SyncPick(s) \/ Download(s) \/ DownloadFails(s) \/ CheckDuplicate(s)
               \/ Duplicate(s) \/ MoveStaged(s) \/ SyncRecord(s) \/ SyncEnd(s)
      PROVE  Told(d)'
  <2>1. digests' = digests /\ items' = items /\ syncer[s].pc \notin {"count", "put"}
    BY <1>5 DEF SyncList, SyncPick, Download, DownloadFails, CheckDuplicate, Duplicate,
       MoveStaged, SyncRecord, SyncEnd, storeVars
  <2>2. syncer'[s].pc \notin {"count", "put"}
    <3>1. CASE SyncList(s) \/ SyncEnd(s)
      <4>1. CASE SyncList(s)
        BY <1>0, <4>1 DEF SyncList, IdleSyncer
      <4>2. CASE SyncEnd(s)
        BY <1>0, <4>2 DEF SyncEnd, IdleSyncer
      <4> QED BY <3>1, <4>1, <4>2
    <3>2. CASE SyncPick(s)
      BY <1>0, <3>2 DEF SyncPick, SyncerState
    <3>3. CASE Download(s) \/ DownloadFails(s) \/ CheckDuplicate(s)
      BY <1>0, <3>3 DEF Download, DownloadFails, CheckDuplicate, SyncerState
    <3>4. CASE Duplicate(s)
      BY <1>0, <3>4 DEF Duplicate, SyncerState
    <3>5. CASE MoveStaged(s) \/ SyncRecord(s)
      BY <1>0, <3>5 DEF MoveStaged, SyncRecord, SyncerState
    <3> QED BY <1>5, <3>1, <3>2, <3>3, <3>4, <3>5
  <2>3. Entries(d)' = Entries(d)
    BY <1>1, <2>1, <2>2 DEF Entries, Entering
  <2>4. ASSUME NEW t \in Syncer, Counting(t, d)' PROVE syncer'[t].n = digests'[d]
    BY <1>0, <1>1, <2>1, <2>2, <2>4 DEF Counting, Told
  <2> QED BY <1>0, <2>1, <2>3, <2>4 DEF Told, CountedBy
<1> QED BY <1>2, <1>3, <1>4, <1>5 DEF SyncStep

LEMMA RaceStep == RaceInv /\ [CloudNext]_vars => RaceInv'
<1> SUFFICES ASSUME RaceInv, [CloudNext]_vars PROVE RaceInv'
  OBVIOUS
<1>0. CloudTypeInv /\ CloudTypeInv' /\ Unused'
  BY CloudTypeStep, UnusedStep DEF RaceInv
<1> SUFFICES ASSUME NEW d \in Digest, d \notin raced' PROVE Told(d)'
  BY <1>0 DEF RaceInv, Told
<1>1. CASE RestartServer
  <2>1. digests'[d] = Cardinality(Users(items', d))
    BY <1>1 DEF RestartServer, Restart
  <2>2. Entries(d)' = {} /\ \A s \in Syncer : ~Counting(s, d)'
    BY <1>1 DEF RestartServer, IdleSyncer, Entries, Entering, Counting
  <2>3. Cardinality(Entries(d)') = 0 /\ Cardinality(Users(items', d)) \in Nat
    BY <2>2, FS_EmptySet, UsersFinite
  <2> QED BY <2>1, <2>2, <2>3 DEF Told, CountedBy
<1>2. ASSUME NEW s \in Syncer, SyncList(s) \/ SyncStep(s) PROVE Told(d)'
  <2>1. History
    BY <1>2 DEF SyncList, SyncStep, SyncPick, Download, DownloadFails, CheckDuplicate, Duplicate,
       MoveStaged, AddRead, AddCount, AddItem, SyncRecord, SyncEnd
  <2>2. d \notin raced
    BY <2>1 DEF History
  <2> QED BY <1>2, <2>2, RacePass
<1>3. ASSUME NEW c \in Cleaner, CleanStart(c) \/ CleanStep(c) PROVE Told(d)'
  <2>1. History /\ UNCHANGED storeVars /\ syncer' = syncer
    BY <1>3 DEF CleanStart, CleanStep, ScanOne, ScanDone, Decide, AuditAborts, CallDelete,
       Deleted, Failed, CleanEnd
  <2>2. d \notin raced
    BY <2>1 DEF History
  <2> QED BY <2>1, <2>2, RaceElsewhere
<1>4. ASSUME LibraryStep \/ \E i \in Id, c \in Digest : TransformMedia(i, c) PROVE Told(d)'
  <2>1. History /\ Handlers /\ syncer' = syncer
    BY <1>4 DEF LibraryStep, TransformMedia, Handlers
  <2>2. d \notin raced
    BY <2>1 DEF History
  <2> QED BY <2>1, <2>2, RaceElsewhere
<1>5. CASE UNCHANGED vars
  <2>1. UNCHANGED storeVars /\ syncer' = syncer /\ digests' = digests /\ raced' = raced
    BY <1>5 DEF vars, cloudVars, storeVars
  <2> QED BY <2>1, RaceElsewhere
<1> QED BY <1>1, <1>2, <1>3, <1>4, <1>5 DEF CloudNext, ServerStep

(* The counts behind sha256_exists are exact, with any number of passes'    *)
(* threads between reading and entering, but for the items on their way in  *)
(* and the digests somebody wrote to between a thread's read and write.     *)
THEOREM CloudCountsUnlessRaced == CloudSpec => []CountsUnlessRaced
<1>1. CloudInit => RaceInv
  <2> SUFFICES ASSUME CloudInit PROVE RaceInv
    OBVIOUS
  <2>1. CloudTypeInv /\ DigestsExact
    BY CloudTypeInit, DigestsInit DEF CloudInit
  <2>2. Unused
    BY DEF CloudInit, StoreInit, Unused
  <2>3. ASSUME NEW d \in Digest PROVE Told(d)
    <3>1. Entries(d) = {} /\ \A s \in Syncer : ~Counting(s, d)
      BY DEF CloudInit, IdleSyncer, Entries, Entering, Counting
    <3>2. Cardinality(Entries(d)) = 0 /\ Cardinality(Users(items, d)) \in Nat
      BY <3>1, FS_EmptySet, UsersFinite
    <3> QED BY <2>1, <3>1, <3>2 DEF Told, CountedBy, DigestsExact
  <2> QED BY <2>1, <2>2, <2>3 DEF RaceInv, Told
<1>2. RaceInv => CountsUnlessRaced
  BY DEF RaceInv, CountsUnlessRaced, CountedBy, Entries
<1> QED BY <1>1, <1>2, RaceStep, PTL DEF CloudSpec
=============================================================================
