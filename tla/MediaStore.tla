----------------------------- MODULE MediaStore -----------------------------
(***************************************************************************)
(* The server's media library: the in-memory index of MediaStore           *)
(* (ingest/store.py), the two directory trees its items' files live in     *)
(* (fs_root/media and fs_root/.trash), the index file, and the HTTP        *)
(* handlers that change them (api/routes.py, ingest/upload.py).            *)
(*                                                                         *)
(* Every handler here runs without an await on the server's event loop, so *)
(* it is one action.  It ends with a best-effort save_to_disk: "the save   *)
(* failed" and "the process died before the save" leave the same files     *)
(* behind, so both are the branch of Save that keeps the old index.        *)
(*                                                                         *)
(* The library's writers outside the event loop are not here: a sync       *)
(* pass's thread is in CloudSync, the re-geocode thread in Library.  What  *)
(* the properties below say, they say of the handlers.                     *)
(*                                                                         *)
(* Abstractions.  A file's bytes are represented by their SHA-256, and a   *)
(* file that does not exist by None.  Path is the relative path            *)
(* YYYY/MM/DD/filename: two uploads of one name on one day get one Path.   *)
(* trash_path is always server_path (store.py:183), so `path' is both.     *)
(***************************************************************************)
EXTENDS Naturals, FiniteSets

CONSTANTS
    Id,      \* MediaItem ids the run may hand out (uuid4: never reused)
    Path,    \* relative paths under the media and trash roots
    Digest,  \* SHA-256 digests, standing for file contents
    None     \* Python's None: no item, no file

ASSUME IdAssumption == IsFiniteSet(Id)
ASSUME NoneAssumption == None \notin Digest \cup Path

VARIABLES
    items,    \* MediaStore._items
    digests,  \* MediaStore._digests; 0 stands for "no such key"
    media,    \* the files under media_root
    trash,    \* the files under trash_root
    index,    \* the index file, as the items a load would read
    issued,   \* history: the path each id was ingested at, None if not yet used
    touched,  \* history: ids whose file was re-extracted or rewritten
    purged,   \* history: ids a permanent delete was asked for
    clean     \* history: FALSE once a restart lost unsaved changes

storeVars == <<items, digests, media, trash, index, issued, touched, purged, clean>>

Item == [path : Path, sha : Digest, trashed : BOOLEAN, stale : BOOLEAN]
    \* stale = (schema_version is behind META_SCHEMA_VERSION)

ASSUME NoneItemAssumption == None \notin Item

Indexed == {i \in Id : items[i] # None}

(* The items of an index that carry digest d. *)
Users(its, d) == {i \in Id : its[i] # None /\ its[i].sha = d}

-----------------------------------------------------------------------------
(* The primitives of the store. *)

(* The count an item leaves behind when it is replaced or removed.          *)
Released(old) ==
    IF old = None THEN digests
    ELSE [digests EXCEPT ![old.sha] = IF @ > 1 THEN @ - 1 ELSE 0]

(* A slip of Put: the replaced item's digest is not released.               *)
PutKeepsOld(i, item) ==
    /\ items' = [items EXCEPT ![i] = item]
    /\ digests' = [digests EXCEPT ![item.sha] = @ + 1]

(* _put: insert or replace.                                                 *)
Put(i, item) ==
    /\ items' = [items EXCEPT ![i] = item]
    /\ digests' = [Released(items[i]) EXCEPT ![item.sha] = @ + 1]

(* _drop: remove.                                                           *)
Drop(i) ==
    /\ items' = [items EXCEPT ![i] = None]
    /\ digests' = Released(items[i])

(* store.get(id, media_root): a stale item whose file is there is           *)
(* re-extracted, which takes its digest from the bytes found at its path;   *)
(* when the extraction fails the stale item is returned.                    *)
Fetched(i) ==
    LET item == items[i]
    IN  {item} \cup
        (IF item.stale /\ media[item.path] # None
         THEN {[item EXCEPT !.sha = media[item.path], !.stale = FALSE]}
         ELSE {})

(* save_to_disk, best effort: the index file is replaced, or it is not. *)
Save == index' \in {items', index}

-----------------------------------------------------------------------------
(* The handlers. *)

(* A slip of Upload: the digest is not looked up.                            *)
UploadIgnoresDigest(i, p, d) ==
    /\ issued[i] = None
    /\ Put(i, [path |-> p, sha |-> d, trashed |-> FALSE,
               stale |-> FALSE])
    /\ media' = [media EXCEPT ![p] = d]
    /\ issued' = [issued EXCEPT ![i] = p]
    /\ Save
    /\ UNCHANGED <<trash, touched, purged, clean>>

(* POST /upload, from the digest check on: a file whose content is already  *)
(* indexed is refused; the staged file is renamed over whatever the target  *)
(* path holds; failed EXIF extraction leaves schema version 0 (stale).      *)
Upload(i, p, d) ==
    /\ issued[i] = None
    /\ digests[d] = 0
    /\ \E stale \in BOOLEAN :
         Put(i, [path |-> p, sha |-> d, trashed |-> FALSE,
                 stale |-> stale])
    /\ media' = [media EXCEPT ![p] = d]
    /\ issued' = [issued EXCEPT ![i] = p]
    /\ Save
    /\ UNCHANGED <<trash, touched, purged, clean>>

(* GET /media, GET /media/{id} and the tag handlers: the read refreshes a   *)
(* stale item; the manual date and place a tag sets are not modelled here.  *)
Refresh(i) ==
    /\ items[i] # None
    /\ \E item \in Fetched(i) :
         /\ Put(i, item)
         /\ touched' = IF item = items[i] THEN touched ELSE touched \cup {i}
    /\ Save
    /\ UNCHANGED <<media, trash, issued, purged, clean>>

(* PATCH /media/{id}, and DELETE /media/{id} with hide_policy "keep", which *)
(* tags the item do_not_display: the item is put back with other display    *)
(* data and its file stays.  hide_policy is the user's to PATCH just before *)
(* any DELETE, so either of Hide and Trash may answer one.                  *)
Hide(i) ==
    /\ items[i] # None
    /\ Put(i, items[i])
    /\ Save
    /\ UNCHANGED <<media, trash, issued, touched, purged, clean>>

(* A slip of Trash: the item is not marked.                                 *)
TrashForgetsFlag(i) ==
    /\ items[i] # None
    /\ LET p == items[i].path
       IN  IF media[p] # None
           THEN /\ trash' = [trash EXCEPT ![p] = media[p]]
                /\ media' = [media EXCEPT ![p] = None]
           ELSE UNCHANGED <<media, trash>>
    /\ Put(i, items[i])
    /\ Save
    /\ UNCHANGED <<issued, touched, purged, clean>>

(* DELETE /media/{id} with hide_policy "delete": the file, if there is one, *)
(* is renamed into the trash over whatever is there; the item is marked     *)
(* trashed in any case, also when it already was.                           *)
Trash(i) ==
    /\ items[i] # None
    /\ LET p == items[i].path
       IN  IF media[p] # None
           THEN /\ trash' = [trash EXCEPT ![p] = media[p]]
                /\ media' = [media EXCEPT ![p] = None]
           ELSE UNCHANGED <<media, trash>>
    /\ Put(i, [items[i] EXCEPT !.trashed = TRUE])
    /\ Save
    /\ UNCHANGED <<issued, touched, purged, clean>>

(* DELETE /media/{id}?permanent=true: the file is unlinked from the tree    *)
(* the item says it is in, and the item leaves the index.                   *)
DeletePermanent(i) ==
    /\ items[i] # None
    /\ LET p == items[i].path
       IN  IF items[i].trashed
           THEN trash' = [trash EXCEPT ![p] = None] /\ UNCHANGED media
           ELSE media' = [media EXCEPT ![p] = None] /\ UNCHANGED trash
    /\ Drop(i)
    /\ purged' = purged \cup {i}
    /\ Save
    /\ UNCHANGED <<issued, touched, clean>>

(* Slips of Restore: the file is moved back without looking whether the     *)
(* trash has it; it is copied back and stays in the trash as well.          *)
RestoreUnchecked(i) ==
    /\ items[i] # None
    /\ items[i].trashed
    /\ media' = [media EXCEPT ![items[i].path] = trash[items[i].path]]
    /\ trash' = [trash EXCEPT ![items[i].path] = None]
    /\ Put(i, [items[i] EXCEPT !.trashed = FALSE])
    /\ Save
    /\ UNCHANGED <<issued, touched, purged, clean>>

RestoreCopies(i) ==
    /\ items[i] # None
    /\ items[i].trashed
    /\ trash[items[i].path] # None
    /\ media' = [media EXCEPT ![items[i].path] = trash[items[i].path]]
    /\ Put(i, [items[i] EXCEPT !.trashed = FALSE])
    /\ Save
    /\ UNCHANGED <<trash, issued, touched, purged, clean>>

(* POST /media/{id}/restore: only a trashed item; its file comes back from  *)
(* the trash, over whatever is at its path; with no file in the trash one   *)
(* at the media path will do; with neither the request fails.               *)
Restore(i) ==
    /\ items[i] # None
    /\ items[i].trashed
    /\ LET p == items[i].path
       IN  \/ /\ trash[p] # None
              /\ media' = [media EXCEPT ![p] = trash[p]]
              /\ trash' = [trash EXCEPT ![p] = None]
           \/ /\ trash[p] = None
              /\ media[p] # None
              /\ UNCHANGED <<media, trash>>
    /\ Put(i, [items[i] EXCEPT !.trashed = FALSE])
    /\ Save
    /\ UNCHANGED <<issued, touched, purged, clean>>

(* POST /media/{id}/transform: reads the item (refreshing it), rewrites the *)
(* file to new bytes d, re-extracts and records the new digest.             *)
Transform(i, d) ==
    /\ items[i] # None
    /\ ~items[i].trashed
    /\ media[items[i].path] # None
    /\ media' = [media EXCEPT ![items[i].path] = d]
    /\ \E item \in Fetched(i) : Put(i, [item EXCEPT !.sha = d, !.stale = FALSE])
    /\ touched' = touched \cup {i}
    /\ Save
    /\ UNCHANGED <<trash, issued, purged, clean>>

(* The same handler when the re-extraction fails: it raises after the file  *)
(* was rewritten, so the digest stays the old one and nothing is saved.     *)
TransformRaises(i, d) ==
    /\ items[i] # None
    /\ ~items[i].trashed
    /\ media[items[i].path] # None
    /\ media' = [media EXCEPT ![items[i].path] = d]
    /\ \E item \in Fetched(i) : Put(i, item)
    /\ touched' = touched \cup {i}
    /\ UNCHANGED <<trash, index, issued, purged, clean>>

(* Any other save of the index: the face, re-geocode and cloud workers and  *)
(* the tag handlers write the whole file too.                               *)
SaveIndex ==
    /\ index' = items
    /\ UNCHANGED <<items, digests, media, trash, issued, touched, purged, clean>>

(* The process stops, by a crash or POST /admin/restart, and starts again:  *)
(* load_from_disk puts every line of the index file into an empty store.    *)
(* A new release may have raised META_SCHEMA_VERSION, making all stale.     *)
Restart ==
    /\ \E upgraded \in BOOLEAN :
         items' = [i \in Id |->
                     IF index[i] = None THEN None
                     ELSE [index[i] EXCEPT !.stale = @ \/ upgraded]]
    /\ digests' = [d \in Digest |-> Cardinality(Users(items', d))]
    /\ clean' = (clean /\ index = items)
    /\ UNCHANGED <<media, trash, index, issued, touched, purged>>

-----------------------------------------------------------------------------
StoreInit ==
    /\ items = [i \in Id |-> None]
    /\ digests = [d \in Digest |-> 0]
    /\ media = [p \in Path |-> None]
    /\ trash = [p \in Path |-> None]
    /\ index = items
    /\ issued = [i \in Id |-> None]
    /\ touched = {}
    /\ purged = {}
    /\ clean = TRUE

Handlers ==
    \/ \E i \in Id, p \in Path, d \in Digest : Upload(i, p, d)
    \/ \E i \in Id : \/ Refresh(i)
                     \/ Hide(i)
                     \/ Trash(i)
                     \/ DeletePermanent(i)
                     \/ Restore(i)
                     \/ \E d \in Digest : Transform(i, d) \/ TransformRaises(i, d)
    \/ SaveIndex

StoreNext == Handlers \/ Restart

StoreSpec == StoreInit /\ [][StoreNext]_storeVars

-----------------------------------------------------------------------------
(* Properties. *)

StoreTypeOK ==
    /\ items \in [Id -> Item \cup {None}]
    /\ digests \in [Digest -> Nat]
    /\ media \in [Path -> Digest \cup {None}]
    /\ trash \in [Path -> Digest \cup {None}]
    /\ index \in [Id -> Item \cup {None}]
    /\ issued \in [Id -> Path \cup {None}]
    /\ touched \in SUBSET Id
    /\ purged \in SUBSET Id
    /\ clean \in BOOLEAN

(* The reference counts behind sha256_exists are exact: a digest's count is *)
(* the number of indexed items carrying it, after any sequence of inserts,  *)
(* replacements, removals and reloads (store.py:119-144, "the whole         *)
(* contract that keeps the derived indexes honest").  A count too high      *)
(* refuses uploads for ever; one too low lets duplicates in.                *)
DigestsExact == \A d \in Digest : digests[d] = Cardinality(Users(items, d))

(* Content is ingested once (upload.py:111): two indexed items share a      *)
(* digest only if one of them has been rewritten or re-extracted since it   *)
(* was ingested, restarts from any saved index included.                    *)
Deduped(its) ==
    \A i, j \in Id \ touched :
        i # j /\ its[i] # None /\ its[j] # None => its[i].sha # its[j].sha

DedupHolds == Deduped(items)

(* No other upload ever got this item's path. *)
SolePath(i) ==
    /\ issued[i] # None
    /\ \A j \in Id \ {i} : issued[j] # issued[i]

(* The bytes of an item that shares its path with no other are in exactly   *)
(* one of the two trees as long as nobody asked to destroy them, whatever   *)
(* was trashed, trashed twice, restored, transformed, saved or lost by a    *)
(* restart (store.py:159-248).                                              *)
OnePlace ==
    \A i \in Indexed \ purged :
        SolePath(i) => (media[items[i].path] = None) # (trash[items[i].path] = None)

(* While no unsaved change has been lost, the trashed mark tells which tree *)
(* the file is in, so GET /media/{id}/file and restore look in the right    *)
(* place.                                                                   *)
FlagTellsPlace ==
    \A i \in Indexed :
        clean /\ SolePath(i) => (items[i].trashed <=> trash[items[i].path] # None)

Bytes(p) == IF media[p] # None THEN media[p] ELSE trash[p]

(* No step of another item's handlers, and no trash, restore, refresh, save *)
(* or restart, changes the bytes of an item that is alone on its path: only *)
(* its own transform, which leaves the item out of the trash, or its own    *)
(* permanent delete may.                                                    *)
BytesConserved ==
    [][\A i \in Id :
          issued[i] # None /\ SolePath(i)' /\ i \notin purged'
          /\ Bytes(issued[i])' # Bytes(issued[i])
            => \E d \in Digest : Transform(i, d) \/ TransformRaises(i, d)]_storeVars
=============================================================================
