----------------------------- MODULE CloudSync ------------------------------
(***************************************************************************)
(* Cloud photo sync and verified deletion (cloud/sync.py,                  *)
(* cloud/verify_and_delete.py) together with the media library they write  *)
(* into (MediaStore): one cloud provider, sync passes that pull its photos *)
(* in, and POST /cloud/delete runs that remove from it what is safely      *)
(* local.                                                                  *)
(*                                                                         *)
(* A pass or a run is a coroutine on the server's event loop.  What it     *)
(* does between two awaits is one action; what it awaits runs in an        *)
(* executor thread, and the handlers of MediaStore, other passes and other *)
(* runs act meanwhile.  The background worker and every POST /cloud/sync   *)
(* start a pass of their own, so several may be under way (Syncer); so may *)
(* several POST /cloud/delete (Cleaner).                                   *)
(***************************************************************************)
EXTENDS MediaStore

CONSTANTS
    Photo,       \* remote ids of the provider
    Content,     \* Content[p]: the bytes of photo p (a remote photo never changes)
    FileOf,      \* FileOf[p]: the path photo p is ingested at
    Syncer,      \* sync passes that may run at once
    Cleaner,     \* delete runs that may run at once
    Cap,         \* effective_cap of a delete run
    MaxIntents   \* bound: intent lines per photo the model lets the log hold

ASSUME CloudAssumption ==
    /\ Content \in [Photo -> Digest]
    /\ FileOf \in [Photo -> Path]
    /\ IsFiniteSet(Syncer)
    /\ IsFiniteSet(Cleaner)
    /\ Cap \in Nat
    /\ MaxIntents \in Nat

VARIABLES
    remote,    \* the photos the provider still has
    staging,   \* files under fs_root/.upload/cloud
    records,   \* CloudSyncState.records
    state,     \* cloud-state.json
    intents,   \* "intent" lines per photo in cloud-deletions.log (the outcome
               \*   lines that may follow are not modelled: nothing reads them)
    syncer,    \* where each sync pass is
    cleaner,   \* where each delete run is
    calls,     \* history: provider.delete calls begun per photo
    exposed,   \* history: photos whose local copy changed while a delete of
               \*   them was in flight
    lost,      \* history: photos deleted remotely without an intact local copy
    raced      \* history: digests whose count was written between another
               \*   thread's reading and writing it

cloudVars == <<remote, staging, records, state, intents, syncer,
               cleaner, calls, exposed, lost, raced>>
vars == <<storeVars, cloudVars>>

Record == [item : Id \cup {None}, sha : Digest, verified : BOOLEAN, deleted : BOOLEAN]

ASSUME NoneRecordAssumption == None \notin Record /\ None \notin Id /\ None \notin Photo

IdleSyncer == [pc |-> "idle", todo |-> {}, photo |-> None, n |-> 0, rec |-> None,
               changed |-> FALSE]
IdleCleaner == [pc |-> "idle", todo |-> {}, cands |-> {}, photo |-> None,
                deleted |-> 0, removed |-> 0, failed |-> 0]

(* Already tracked: the pass skips it (sync.py:236-240). *)
Tracked(p) == records[p] # None /\ records[p].item # None

(* CloudSyncEngine.verify_record: the item exists, is not trashed, and its  *)
(* file hashes, now, to the digest the record was made with.                *)
Verifies(p) ==
    /\ Tracked(p)
    /\ LET item == items[records[p].item]
       IN  /\ item # None
           /\ ~item.trashed
           /\ media[item.path] = records[p].sha

VerifiesCached(p) == Tracked(p) /\ records[p].verified

SaveState == state' \in {records', state}

(* Photos whose delete is on its way to the provider.                       *)
InFlight == {cleaner[c].photo : c \in {x \in Cleaner : cleaner[x].pc = "call"}}

(* A pass whose thread has read the count of digest d and not yet written it *)
(* back, and one that has counted its item and not yet entered it.          *)
Counting(s, d) == syncer[s].pc = "count" /\ Content[syncer[s].photo] = d
Entering(s, d) == syncer[s].pc = "put" /\ Content[syncer[s].photo] = d

(* Bookkeeping for the properties, taken along by every action.             *)
Losses ==
    /\ exposed' = exposed \cup {p \in InFlight : Verifies(p) /\ ~Verifies(p)'}
    /\ lost' = lost \cup {p \in remote \ remote' : ~Verifies(p)}

History ==
    /\ Losses
    /\ raced' = raced \cup {d \in Digest : /\ digests'[d] # digests[d]
                                          /\ \E s \in Syncer : Counting(s, d) /\ Counting(s, d)'}

-----------------------------------------------------------------------------
(* A sync pass: sync_provider, and _download_and_ingest in the executor.    *)

SyncList(s) ==
    /\ syncer[s].pc = "idle"
    /\ syncer' = [syncer EXCEPT ![s] = [IdleSyncer EXCEPT !.pc = "loop", !.todo = remote]]
    /\ UNCHANGED <<storeVars, remote, staging, records, state, intents,
                   cleaner, calls>>
    /\ History

(* A slip of SyncPick: only a record that is marked verified is passed over. *)
SyncPickUnverified(s) ==
    /\ syncer[s].pc = "loop"
    /\ \E p \in syncer[s].todo :
         /\ ~VerifiesCached(p)
         /\ syncer' = [syncer EXCEPT ![s].pc = "download", ![s].photo = p, ![s].todo = @ \ {p}]
    /\ UNCHANGED <<storeVars, remote, staging, records, state, intents,
                   cleaner, calls>>
    /\ History

(* The loop reaches the next photo that no record places locally and awaits *)
(* its download.                                                            *)
SyncPick(s) ==
    /\ syncer[s].pc = "loop"
    /\ \E p \in syncer[s].todo :
         /\ ~Tracked(p)
         /\ syncer' = [syncer EXCEPT ![s].pc = "download", ![s].photo = p, ![s].todo = @ \ {p}]
    /\ UNCHANGED <<storeVars, remote, staging, records, state, intents,
                   cleaner, calls>>
    /\ History

(* Executor: the bytes arrive and are written to .upload/cloud/<filename>,  *)
(* a path every photo of that name shares.                                  *)
Download(s) ==
    /\ syncer[s].pc = "download"
    /\ syncer[s].photo \in remote
    /\ staging' = [staging EXCEPT ![FileOf[syncer[s].photo]] = Content[syncer[s].photo]]
    /\ syncer' = [syncer EXCEPT ![s].pc = "check"]
    /\ UNCHANGED <<storeVars, remote, records, state, intents, cleaner, calls>>
    /\ History

(* Executor: the download fails, the photo is gone, is over the size limit  *)
(* or cannot be staged: the pass counts a failure and goes on.              *)
DownloadFails(s) ==
    /\ syncer[s].pc = "download"
    /\ syncer' = [syncer EXCEPT ![s].pc = "loop", ![s].photo = None]
    /\ UNCHANGED <<storeVars, remote, staging, records, state, intents,
                   cleaner, calls>>
    /\ History

(* Executor: sha256_exists decides between duplicate and new.               *)
CheckDuplicate(s) ==
    /\ syncer[s].pc = "check"
    /\ LET p == syncer[s].photo
       IN  IF digests[Content[p]] > 0
           THEN /\ staging' = [staging EXCEPT ![FileOf[p]] = None]
                /\ syncer' = [syncer EXCEPT ![s].pc = "duplicate"]
           ELSE /\ syncer' = [syncer EXCEPT ![s].pc = "move"]
                /\ UNCHANGED staging
    /\ UNCHANGED <<storeVars, remote, records, state, intents, cleaner, calls>>
    /\ History

(* Executor: _store_id_for_digest looks for the copy the check found; the   *)
(* item may be gone by now, and it may be trashed.                          *)
Duplicate(s) ==
    /\ syncer[s].pc = "duplicate"
    /\ LET p == syncer[s].photo
           found == Users(items, Content[p])
       IN  \E i \in IF found = {} THEN {None} ELSE found :
             syncer' = [syncer EXCEPT ![s].pc = "return",
                          ![s].rec = [item |-> i, sha |-> Content[p],
                                      verified |-> i # None, deleted |-> FALSE]]
    /\ UNCHANGED <<storeVars, remote, staging, records, state, intents,
                   cleaner, calls>>
    /\ History

(* Executor: the staged file is renamed to its place in the media tree.     *)
(* Whatever is staged under that name goes, which may be another pass's     *)
(* download.  When nothing is left there, or the rename fails, the staged   *)
(* file is unlinked and the photo counts as failed.                         *)
MoveStaged(s) ==
    /\ syncer[s].pc = "move"
    /\ LET f == FileOf[syncer[s].photo]
       IN  /\ staging' = [staging EXCEPT ![f] = None]
           /\ \/ /\ staging[f] # None
                 /\ media' = [media EXCEPT ![f] = staging[f]]
                 /\ syncer' = [syncer EXCEPT ![s].pc = "add"]
              \/ /\ syncer' = [syncer EXCEPT ![s].pc = "loop", ![s].photo = None]
                 /\ UNCHANGED media
    /\ UNCHANGED <<items, digests, trash, index, issued, touched, purged, clean,
                   remote, records, state, intents, cleaner, calls>>
    /\ History

(* Executor: store.add is _put of a new id, in three steps of the thread    *)
(* with the event loop and other threads running between them: it reads the *)
(* digest's count, writes it back one higher, and enters the item.          *)
AddRead(s) ==
    /\ syncer[s].pc = "add"
    /\ syncer' = [syncer EXCEPT ![s].pc = "count", ![s].n = digests[Content[syncer[s].photo]]]
    /\ UNCHANGED <<storeVars, remote, staging, records, state, intents, cleaner, calls>>
    /\ History

(* A slip of AddCount: the new item is not counted.                         *)
AddCountForgets(s) ==
    /\ syncer[s].pc = "count"
    /\ syncer' = [syncer EXCEPT ![s].pc = "put", ![s].n = 0]
    /\ UNCHANGED <<storeVars, remote, staging, records, state, intents, cleaner, calls>>
    /\ History

AddCount(s) ==
    /\ syncer[s].pc = "count"
    /\ digests' = [digests EXCEPT ![Content[syncer[s].photo]] = syncer[s].n + 1]
    /\ syncer' = [syncer EXCEPT ![s].pc = "put", ![s].n = 0]
    /\ UNCHANGED <<items, media, trash, index, issued, touched, purged, clean, remote,
                   staging, records, state, intents, cleaner, calls>>
    /\ History

(* A slip of AddItem: the record takes the digest of the file as it is now. *)
AddItemRehashed(s, i) ==
    /\ syncer[s].pc = "put"
    /\ issued[i] = None
    /\ LET p == syncer[s].photo
       IN  /\ media[FileOf[p]] # None
           /\ items' = [items EXCEPT ![i] =
                          [path |-> FileOf[p], sha |-> Content[p], trashed |-> FALSE,
                           stale |-> FALSE]]
           /\ issued' = [issued EXCEPT ![i] = FileOf[p]]
           /\ syncer' = [syncer EXCEPT ![s].pc = "return",
                           ![s].rec = [item |-> i, sha |-> media[FileOf[p]],
                                       verified |-> TRUE, deleted |-> FALSE]]
    /\ UNCHANGED <<digests, media, trash, index, touched, purged, clean, remote,
                   staging, records, state, intents, cleaner, calls>>
    /\ History

(* The item carries the digest of the downloaded bytes.                     *)
AddItem(s, i) ==
    /\ syncer[s].pc = "put"
    /\ issued[i] = None
    /\ LET p == syncer[s].photo
       IN  /\ \E stale \in BOOLEAN :
                items' = [items EXCEPT ![i] =
                            [path |-> FileOf[p], sha |-> Content[p], trashed |-> FALSE,
                             stale |-> stale]]
           /\ issued' = [issued EXCEPT ![i] = FileOf[p]]
           /\ syncer' = [syncer EXCEPT ![s].pc = "return",
                           ![s].rec = [item |-> i, sha |-> Content[p],
                                       verified |-> TRUE, deleted |-> FALSE]]
    /\ UNCHANGED <<digests, media, trash, index, touched, purged, clean, remote,
                   staging, records, state, intents, cleaner, calls>>
    /\ History

(* Back on the loop: the record made in the executor replaces whatever      *)
(* record the photo has by now.                                             *)
SyncRecord(s) ==
    /\ syncer[s].pc = "return"
    /\ records' = [records EXCEPT ![syncer[s].photo] = syncer[s].rec]
    /\ syncer' = [syncer EXCEPT ![s].pc = "loop", ![s].photo = None, ![s].rec = None,
                    ![s].changed = TRUE]
    /\ UNCHANGED <<storeVars, remote, staging, state, intents, cleaner, calls>>
    /\ History

(* The end of the pass: index first, then state, each save best effort; a   *)
(* pass that changed nothing saves the state only.                          *)
SyncEnd(s) ==
    /\ syncer[s].pc = "loop"
    /\ \A p \in syncer[s].todo : Tracked(p)
    /\ index' \in IF syncer[s].changed THEN {items, index} ELSE {index}
    /\ state' \in {records, state}
    /\ syncer' = [syncer EXCEPT ![s] = IdleSyncer]
    /\ UNCHANGED <<items, digests, media, trash, issued, touched, purged, clean,
                   remote, staging, records, intents, cleaner, calls>>
    /\ History

-----------------------------------------------------------------------------
(* A confirmed POST /cloud/delete: delete_verified.                         *)

CleanStart(c) ==
    /\ cleaner[c].pc = "idle"
    /\ cleaner' = [cleaner EXCEPT ![c] =
                     [IdleCleaner EXCEPT !.pc = "scan",
                        !.todo = {p \in Photo : records[p] # None}]]
    /\ UNCHANGED <<storeVars, remote, staging, records, state, intents, syncer, calls>>
    /\ History

(* Executor: dry_run_deletable looks at one record after the other.         *)
ScanOne(c) ==
    /\ cleaner[c].pc = "scan"
    /\ \E p \in cleaner[c].todo :
         cleaner' = [cleaner EXCEPT ![c].todo = @ \ {p},
                       ![c].cands = IF ~records[p].deleted /\ Verifies(p)
                                    THEN @ \cup {p} ELSE @]
    /\ UNCHANGED <<storeVars, remote, staging, records, state, intents, syncer, calls>>
    /\ History

ScanDone(c) ==
    /\ cleaner[c].pc = "scan"
    /\ cleaner[c].todo = {}
    /\ cleaner' = [cleaner EXCEPT ![c].pc = "loop"]
    /\ UNCHANGED <<storeVars, remote, staging, records, state, intents, syncer, calls>>
    /\ History

(* Slips of Decide: the cached flag is trusted; a failed append is ignored.  *)
DecideTrustsFlag(c) ==
    /\ cleaner[c].pc = "loop"
    /\ cleaner[c].deleted < Cap
    /\ \E p \in cleaner[c].cands :
         /\ VerifiesCached(p)
         /\ intents[p] < MaxIntents
         /\ intents' = [intents EXCEPT ![p] = @ + 1]
         /\ cleaner' = [cleaner EXCEPT ![c].pc = "call", ![c].photo = p,
                          ![c].cands = @ \ {p}]
    /\ UNCHANGED <<storeVars, remote, staging, records, state, syncer, calls>>
    /\ History

DecideIgnoresAuditError(c) ==
    /\ cleaner[c].pc = "loop"
    /\ cleaner[c].deleted < Cap
    /\ \E p \in cleaner[c].cands :
         /\ Verifies(p)
         /\ intents[p] < MaxIntents
         /\ intents' \in {intents, [intents EXCEPT ![p] = @ + 1]}
         /\ cleaner' = [cleaner EXCEPT ![c].pc = "call", ![c].photo = p,
                          ![c].cands = @ \ {p}]
    /\ UNCHANGED <<storeVars, remote, staging, records, state, syncer, calls>>
    /\ History

(* The loop takes a candidate: re-verified now, or skipped; the intent line *)
(* is on disk before the provider's delete is awaited.  The record's        *)
(* deleted_from_cloud_at stamp is not looked at again.                      *)
Decide(c) ==
    /\ cleaner[c].pc = "loop"
    /\ cleaner[c].deleted < Cap
    /\ \E p \in cleaner[c].cands :
         \/ /\ ~Verifies(p)
            /\ cleaner' = [cleaner EXCEPT ![c].cands = @ \ {p}]
            /\ UNCHANGED intents
         \/ /\ Verifies(p)
            /\ intents[p] < MaxIntents
            /\ intents' = [intents EXCEPT ![p] = @ + 1]
            /\ cleaner' = [cleaner EXCEPT ![c].pc = "call", ![c].photo = p,
                             ![c].cands = @ \ {p}]
    /\ UNCHANGED <<storeVars, remote, staging, records, state, syncer, calls>>
    /\ History

(* The intent line cannot be written: the run is aborted.                   *)
AuditAborts(c) ==
    /\ cleaner[c].pc = "loop"
    /\ cleaner[c].deleted < Cap
    /\ \E p \in cleaner[c].cands : Verifies(p)
    /\ cleaner' = [cleaner EXCEPT ![c] = IdleCleaner]
    /\ UNCHANGED <<storeVars, remote, staging, records, state, intents, syncer, calls>>
    /\ History

(* Executor: provider.delete.  It can fail before anything happened (also   *)
(* when the photo is gone already), or remove the photo and still be        *)
(* reported as failed, its answer lost.                                     *)
CallDelete(c) ==
    /\ cleaner[c].pc = "call"
    /\ LET p == cleaner[c].photo
       IN  /\ calls' = [calls EXCEPT ![p] = @ + 1]
           /\ \/ /\ p \in remote
                 /\ remote' = remote \ {p}
                 /\ \E pc \in {"deleted", "failed"} :
                      cleaner' = [cleaner EXCEPT ![c].pc = pc, ![c].removed = @ + 1]
              \/ /\ UNCHANGED remote
                 /\ cleaner' = [cleaner EXCEPT ![c].pc = "failed"]
    /\ UNCHANGED <<storeVars, staging, records, state, intents, syncer>>
    /\ History

(* A slip of Deleted: the deletion is not counted against the cap.          *)
DeletedUncounted(c) ==
    /\ cleaner[c].pc = "deleted"
    /\ records' = [records EXCEPT ![cleaner[c].photo].deleted = TRUE]
    /\ SaveState
    /\ cleaner' = [cleaner EXCEPT ![c].pc = "loop", ![c].photo = None]
    /\ UNCHANGED <<storeVars, remote, staging, intents, syncer, calls>>
    /\ History

(* Back on the loop after success: mark_deleted stamps the record, if there *)
(* is one, and saves the state, best effort.                                *)
Deleted(c) ==
    /\ cleaner[c].pc = "deleted"
    /\ LET p == cleaner[c].photo
       IN  IF records[p] # None
           THEN records' = [records EXCEPT ![p].deleted = TRUE] /\ SaveState
           ELSE UNCHANGED <<records, state>>
    /\ cleaner' = [cleaner EXCEPT ![c].pc = "loop", ![c].photo = None,
                     ![c].deleted = @ + 1]
    /\ UNCHANGED <<storeVars, remote, staging, intents, syncer, calls>>
    /\ History

(* Back on the loop after a failure: reported, and not counted.             *)
Failed(c) ==
    /\ cleaner[c].pc = "failed"
    /\ cleaner' = [cleaner EXCEPT ![c].pc = "loop", ![c].photo = None,
                     ![c].failed = @ + 1]
    /\ UNCHANGED <<storeVars, remote, staging, records, state, intents, syncer, calls>>
    /\ History

(* Capped, or out of candidates: the report is returned.                    *)
CleanEnd(c) ==
    /\ cleaner[c].pc = "loop"
    /\ cleaner[c].deleted >= Cap \/ cleaner[c].cands = {}
    /\ cleaner' = [cleaner EXCEPT ![c] = IdleCleaner]
    /\ UNCHANGED <<storeVars, remote, staging, records, state, intents, syncer, calls>>
    /\ History

-----------------------------------------------------------------------------
(* The library's own handlers, run between the awaits above.                *)

(* unverify_local_item, called by transform once the new digest is in.      *)
Unverify(i) ==
    LET hit == {p \in Photo : records[p] # None /\ records[p].item = i /\ records[p].verified}
    IN  /\ records' = [p \in Photo |->
                         IF p \in hit THEN [records[p] EXCEPT !.verified = FALSE]
                         ELSE records[p]]
        /\ IF hit # {} THEN SaveState ELSE UNCHANGED state

TransformMedia(i, d) ==
    /\ Transform(i, d)
    /\ Unverify(i)
    /\ UNCHANGED <<remote, staging, intents, syncer, cleaner, calls>>
    /\ History

LibraryStep ==
    /\ \/ \E i \in Id, p \in Path, d \in Digest : Upload(i, p, d)
       \/ \E i \in Id : \/ Refresh(i)
                        \/ Hide(i)
                        \/ Trash(i)
                        \/ DeletePermanent(i)
                        \/ Restore(i)
                        \/ \E d \in Digest : TransformRaises(i, d)
       \/ SaveIndex
    /\ UNCHANGED <<remote, staging, records, state, intents, syncer,
                   cleaner, calls>>
    /\ History

(* The process restarts: coroutines and executor threads are gone, files,   *)
(* the audit log and the provider's photos are what they were.              *)
RestartServer ==
    /\ Restart
    /\ records' = state
    /\ syncer' = [s \in Syncer |-> IdleSyncer]
    /\ cleaner' = [c \in Cleaner |-> IdleCleaner]
    /\ raced' = {}
    /\ UNCHANGED <<remote, staging, state, intents, calls>>
    /\ Losses

-----------------------------------------------------------------------------
SyncStep(s) ==
    \/ SyncPick(s)
    \/ Download(s)
    \/ DownloadFails(s)
    \/ CheckDuplicate(s)
    \/ Duplicate(s)
    \/ MoveStaged(s)
    \/ AddRead(s)
    \/ AddCount(s)
    \/ \E i \in Id : AddItem(s, i)
    \/ SyncRecord(s)
    \/ SyncEnd(s)

CleanStep(c) ==
    \/ ScanOne(c)
    \/ ScanDone(c)
    \/ Decide(c)
    \/ AuditAborts(c)
    \/ CallDelete(c)
    \/ Deleted(c)
    \/ Failed(c)
    \/ CleanEnd(c)

CloudInit ==
    /\ StoreInit
    /\ remote = Photo
    /\ staging = [f \in Path |-> None]
    /\ records = [p \in Photo |-> None]
    /\ state = records
    /\ intents = [p \in Photo |-> 0]
    /\ calls = [p \in Photo |-> 0]
    /\ syncer = [s \in Syncer |-> IdleSyncer]
    /\ cleaner = [c \in Cleaner |-> IdleCleaner]
    /\ exposed = {}
    /\ lost = {}
    /\ raced = {}

ServerStep ==
    \/ \E s \in Syncer : SyncList(s) \/ SyncStep(s)
    \/ \E c \in Cleaner : CleanStart(c) \/ CleanStep(c)
    \/ \E i \in Id, d \in Digest : TransformMedia(i, d)
    \/ LibraryStep

CloudNext == ServerStep \/ RestartServer

CloudSpec == CloudInit /\ [][CloudNext]_vars

-----------------------------------------------------------------------------
(* Properties. *)

SyncerState == [pc : {"idle", "loop", "download", "check", "duplicate", "move", "add",
                      "count", "put", "return"},
                todo : SUBSET Photo, photo : Photo \cup {None}, n : Nat,
                rec : Record \cup {None}, changed : BOOLEAN]

CleanerState == [pc : {"idle", "scan", "loop", "call", "deleted", "failed"},
                 todo : SUBSET Photo, cands : SUBSET Photo, photo : Photo \cup {None},
                 deleted : Nat, removed : Nat, failed : Nat]

CloudTypeOK ==
    /\ StoreTypeOK
    /\ remote \in SUBSET Photo
    /\ staging \in [Path -> Digest \cup {None}]
    /\ records \in [Photo -> Record \cup {None}]
    /\ state \in [Photo -> Record \cup {None}]
    /\ intents \in [Photo -> Nat]
    /\ calls \in [Photo -> Nat]
    /\ syncer \in [Syncer -> SyncerState]
    /\ cleaner \in [Cleaner -> CleanerState]
    /\ exposed \in SUBSET Photo
    /\ lost \in SUBSET Photo
    /\ raced \in SUBSET Digest

(* Runs that have logged their intent for p and not called yet.             *)
Calling(p) == {c \in Cleaner : cleaner[c].pc = "call" /\ cleaner[c].photo = p}

(* Audit before action (verify_and_delete.py:10-13): every provider.delete  *)
(* ever begun has an intent line of its own, which no other call, of this   *)
(* run or a concurrent one, before or after a restart, stands on.           *)
AuditBeforeAction ==
    \A p \in Photo : calls[p] + Cardinality(Calling(p)) <= intents[p]

(* A record's digest is the remote photo's own content, so "verifies" means *)
(* the local file is byte for byte the photo about to be deleted, however   *)
(* staged files, names and passes got mixed up (sync.py:404-464).           *)
RecordShaIsRemote ==
    \A p \in Photo : records[p] # None => records[p].sha = Content[p]

(* A photo is deleted from the cloud without an intact local copy only if   *)
(* that copy changed after the final re-verification, while the provider's  *)
(* delete was in flight (verify_and_delete.py:3-6, 188-207).                *)
LossOnlyInFlight == lost \subseteq exposed

(* One delete run takes at most Cap photos from the provider, beyond those  *)
(* whose delete it reported as failed (verify_and_delete.py:9, 183).        *)
RemovalsBounded ==
    \A c \in Cleaner :
        cleaner[c].removed <= Cap + cleaner[c].failed
                                  + (IF cleaner[c].pc = "failed" THEN 1 ELSE 0)

(* A photo that a record places locally and that no pass has in hand.       *)
Settled(p) == Tracked(p) /\ \A s \in Syncer : syncer[s].photo # p

(* However many passes run at once, a settled photo stays settled and keeps *)
(* its deleted_from_cloud_at stamp until the process restarts on an older   *)
(* state file: no listing made before the deletion, mark cleared by a       *)
(* transform or other run makes a pass fetch it again or rebuild its record *)
(* (sync.py:236-243, 346-377).  A pass that has the photo in hand when it   *)
(* is stamped does replace the record, stamp and all.                       *)
StampKept ==
    [][\A p \in Photo :
          Settled(p) /\ records[p].deleted /\ ~RestartServer
            => Settled(p)' /\ records'[p].deleted]_vars

(* The reference counts behind sha256_exists are exact, but for the items   *)
(* that are counted and about to be entered, and for the digests whose      *)
(* count somebody wrote between another thread's reading and writing it     *)
(* (store.py:119-131), until a restart counts anew.                         *)
CountsUnlessRaced ==
    \A d \in Digest \ raced :
        digests[d] = Cardinality(Users(items, d)) + Cardinality({s \in Syncer : Entering(s, d)})

(* What the code says of its guards.                                        *)

(* transform_media: marking the record unverified "is what stops the        *)
(* guarded cloud-cleanup from deleting the cloud copy out from under an     *)
(* edited local one" (api/routes.py:890-893).                               *)
NothingLost == lost = {}

(* Every write of the store goes through _put and _drop, and "that is the   *)
(* whole contract that keeps the derived indexes (digests, cached           *)
(* aggregates) honest" (ingest/store.py:113-116): between two writes the    *)
(* counts are the items'.                                                   *)
DigestsHonest ==
    (\A s \in Syncer : syncer[s].pc \notin {"count", "put"}) => DigestsExact

(* Photos are deleted from the cloud only once they are in the local        *)
(* library (docs/operations/cloud-sync.md:3-5): the item of a photo that    *)
(* was removed is still indexed, or the user has deleted it for good.       *)
RemovedStaysIndexed ==
    \A p \in Photo \ remote :
        \E i \in Indexed \cup purged : issued[i] = FileOf[p]
=============================================================================
