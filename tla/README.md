# TLA+ models of Malmberg

Malmberg is a self-hosted photo system written in Python: a *server* that keeps a
media library and its dashboard, and a *display* (a frame) that shows the library as
a slideshow.  This directory models the parts of it that keep state and can go wrong
in ways a unit test hardly reaches.  TLC checks the models on small instances, TLAPS
proves many of their properties for every value of the constants.

    tlc -workers 2 -config MCRestarts.cfg MCRestarts.tla         # one run
    tlapm MediaStoreProofs.tla                                    # one proof module

`PROJECT.json` lists the components, the runs, the source lines each definition
stands for, the hazards and which property covers which, the theorems, and for each
property a plausible slip of the code (a definition marked "a slip of ...") that
breaks it.  A slip is never part of a next-state relation.

Paths below are relative to `src/malmberg_server/` (server), `src/malmberg_display/`
(display) or `src/malmberg_core/` (shared) of the repository.

## 1. Inventory

### Server

| component | state | operations | what makes it correct | module |
|---|---|---|---|---|
| Media store (`ingest/store.py`) | `_items`, the derived `_digests`, mutation counter, cached views and totals, the media and trash trees, the index file | add, get with lazy refresh, query, patch, trash, restore, delete, save, load | the counts match the items; a file is in one tree, the one its mark names; no bytes lost; answers never stale | MediaStore, Library |
| Upload and ingest (`ingest/upload.py`) | the staging file of a name | stream, hash, digest check, move, index | content is indexed once; what is stored is what was sent | MediaStore, CloudSync, Staging |
| HTTP handlers (`api/routes.py`) | none of their own | one handler per operation, on the event loop; some await | a handler that awaits copes with what others did meanwhile | all server modules |
| Cloud sync (`cloud/sync.py`) | `records`, `cloud-state.json`, staging directory | a pass lists, downloads in an executor thread, records | a record says truly which bytes were stored; what was deleted is not fetched again | CloudSync |
| Guarded deletion (`cloud/verify_and_delete.py`) | deletion log, marks on records | dry run, re-verify, log the intent, call the provider, mark | nothing leaves the cloud without an intact local copy; each call is logged first; the cap holds | CloudSync |
| Providers (`cloud/icloud.py`, `google_photos.py`) | sessions | list, download, delete | third-party: each call may fail, or succeed and be reported as failed | CloudSync |
| Faces and people (`faces/`) | people, faces per item, item tags; three files | a worker detects; recluster in a thread; rename, merge, delete, reassign, detach | index, people and tags agree | Faces |
| Geocoding (`ingest/regeocode.py`) | place fields of items | a worker in a thread fills in what is missing or stale | what a user typed is kept; every photo is geocoded in the end | Library |
| Thumbnails (`ingest/thumbs.py`) | a cache directory | a warmer in a thread, a route that renders, handlers that drop | a thumbnail is of the present bytes; all come to be | Thumbs |
| Programmed slideshows (`ingest/playlists.py`) | a map and its file | create, add, reorder, rename, delete | what was said to be added is there | Playlists |
| Dashboard (`api/web.py`) | the page's script: grid, card, upload queue, status | event handlers and reply callbacks | a press acts on the photo it seems to; the grid and the controls come to tell the truth whatever replies overtook one another | DashGrid, DashCard, DashUpload, DashControl, Playlists |
| Application (`app/app.py`) | the tasks | load, start workers, stop | a failed load must not overwrite the index | MediaStore, CloudSync (restarts) |
| Setup (`setup/__init__.py`) | facts on the host | a list of steps, each skipped when done | running it again repairs what a cut run left | Provision |
| Backup (`backup/`) | ZFS snapshots | snapshot, retention, verify | – | not modelled |

### Display

| component | state | operations | what makes it correct | module |
|---|---|---|---|---|
| Slideshow (`slideshow/slideshow.py`) | producer, generation, queue, history, cursor, override, pause | `produce_target`, `display_target`, skip, prev, next, pause, set_producer | what comes up is of the current source, in order; the cursor stays in range; something comes up | Slideshow |
| Sources (`slideshow/producers/`) | what is left of a cycle; a disk cache | looping and one-pass iteration; downloads, index, eviction | a one-pass source yields each id once; the cache stays in its limits and keeps what is to be shown | Slideshow, FrameCache |
| Remote control (`api/routes.py`) | mode, one revert task | show, play a list, play all, next, prev, pause | the display returns to the whole library and never takes away a newer choice | Slideshow |
| Application (`app/app.py`) | server_url | choose the first source, pair with a discovered server | the display goes on without a server | Slideshow |
| Setup (`setup/__init__.py`) | facts on the host | as the server's | as the server's | Provision |
| Screen output (`display/`) | pixels | load, compose, draw | – | not modelled |

### Shared

`provision.py` installs the unattended update (Updater): fetch, reset, sync, restart,
health check, rollback.  Models and services (`models/`, `hal/`, `networking/`) keep
no state of interest.

### How they interact

* The server and the display are each **one asyncio loop**: what runs between two
  awaits is atomic, and everything awaited (executor threads, HTTP, timers,
  `queue.get`, a dwell) lets any other task or handler run.  Hence the grain of the
  models: *one action per stretch between awaits*.
* Executor threads (a cloud pass's download and ingest, the dry run, recluster,
  detection, the re-geocode worker, the thumbnail warmer) share dictionaries and
  files with the loop.  Their actions are the single operations on shared state.
* The dashboard's script **runs to completion between events**: one event handler or
  one reply's callback is one action, and replies arrive in any order or not at all.
* Handlers end by writing whole files, best effort.  A save that fails and a crash
  before the save leave the same files, so one branch (`Save`) stands for both.
* The display learns of the library only through HTTP; the server does not know
  which displays exist, and forwards controls to the one selected.
* The update script and the setup programs act on services from outside, and may be
  cut short at any command.

### What is hard

Interleavings across awaits and with threads; state checked before and used after
one; saves that fail, several files saved one after the other, restarts on older
files; provider calls whose answer is lost; items that share a path, a content or a
staging file; switches of the source while something is fetched, loaded, queued or on
the screen; timers that race a newer choice; sources that yield nothing; replies that
overtake one another; caches whose key does not change with what they hold; a script
cut short between two commands.  `PROJECT.json` lists each hazard at its line.

## 2. Modules

    MediaStore <---- CloudSync       Slideshow        Faces        Library ==> Listing
        |                |               |              |             |
    MediaStoreProofs  CloudSyncProofs  SlideshowProofs  FacesProofs  LibraryProofs

    DashGrid  DashCard  Playlists                    DashUpload  DashControl
            |  DashProofs
    FrameCache  Staging  Thumbs  Updater  Provision
            |  UpkeepProofs
    Lists <---- Slideshow, DashGrid, Playlists, FrameCache, Staging
      |
    ListsProofs <---- SlideshowProofs, DashProofs, UpkeepProofs

`<--` is EXTENDS, `==>` an INSTANCE under a refinement mapping.  Lists has the loops
over Python lists that the models share (`Reduce`, `Only`, `Sum` and their like), each
a recursive function rather than a RECURSIVE operator, so that proofs can speak of it.

MCCloudSync, MCSlideshow, MCFaces, MCLibrary and MCUpdater give one module each its
constants; MCRestarts and MCCloudDelete extend MCCloudSync and watch two scenes each
(`scene`), of the store by itself or of passes and runs; MCParts extends the ten small modules of the dashboard and of the
upkeep, which share no state, and lets TLC watch one at a time (`part`).

### MediaStore

`items`, `digests`, `media`, `trash`, `index` are the store's dictionaries, the two
trees and the index file; `issued`, `touched`, `purged`, `clean` are history
variables the properties read and no guard depends on, but for `issued`, which only
keeps ids from being used twice (uuid4).  A file is its SHA-256 or `None`.  Actions:
`Upload`, `Refresh` (the lazy re-extraction of a stale item by a read), `Hide`,
`Trash`, `Restore`, `DeletePermanent`, `Transform`, `TransformRaises`, `SaveIndex`,
`Restart`.  `Put` and `Drop` are `_put` and `_drop`, the only two that touch the
counts.  These are the handlers of the event loop (`Handlers`) and `Restart`, and the
properties and theorems of this module are about them alone: the writers in threads are
elsewhere, a cloud pass's `_put` in CloudSync, step by step, and the re-geocode worker's
`patch` in Library, with the fields the listings show.  What such a patch writes back of
an item's digest, mark or existence is in no model of the trees.
Two ids may get one path (two uploads of one name on one day): then the
later file *is* renamed over the earlier one, and the properties about bytes speak
of items alone on their path (`SolePath`).

### CloudSync

EXTENDS MediaStore, so that the real handlers run between the steps of a pass and of
a delete run.  A pass (`syncer[s]`) goes `idle -> loop -> download -> check ->
duplicate | move -> add -> count -> put -> return -> loop`; the steps from `download`
to `put` run in the executor thread, `SyncRecord` back on the loop.  The last three of
the thread are `store.add`, that is `_put`: it reads the digest's count (`AddRead`),
writes it back one higher (`AddCount`) and enters the item (`AddItem`), and handlers and
other passes run between.  A delete run (`cleaner[c]`)
goes `idle -> scan -> loop -> call -> deleted | failed -> loop`.  `Decide` is
`delete_verified`'s re-verification and intent line, one stretch of the loop;
`CallDelete` is the provider, which may also remove the photo and be reported as
failed.  `TransformMedia` is the transform handler with the mark it clears;
`LibraryStep` is any other handler.  `RestartServer` forgets passes and runs and
reads back the files.  History: `calls`, `exposed` (photos whose local copy changed
while a delete of them was in flight), `lost` (photos removed without an intact
local copy) and `raced` (digests whose count was written between a thread's reading and
writing it, until a restart counts anew).

### Slideshow

`producer.pc` says where `produce_target` is (`take` reads the producer, `fetch` is
inside `__anext__`, `load` decodes and waits for room in the queue, `dead`: it
raised); `display.pc` where `display_target` is.  The generation counter only grows
and is only compared with the current one, so an item's tag is kept as `live`.
`source` is the producer as what it was made for and what is left of its cycle.
`Switch` is `_switch` with what its callers start; `timers` are the revert tasks
that run, `due` what a playlist's task still waits for in `displayed_count`.
`LibraryChanges` is the server as seen from here: a photo comes, goes or fails to
answer.  Pairing, which replaces the source without flushing the queue, is `Pair`.
`play` is a history variable: what the current source has had on the screen.

One guard of `Enqueue` deserves a word: the revert task of a playlist begins before
the first photo of that playlist can be enqueued, because the task is ready in the
loop's next iteration and the photo needs HTTP requests and decoding first.

### Faces

`fs` is FaceStore (entries and the two indexes over them), `people` PersonStore,
`lib` the items' face fields, `files` the three files.  `worker` is the background
worker: it drops an item's faces, awaits detection in a thread, then assigns each
face to a person, online.  `job[o]` is a recluster, of the worker or of a handler
(`Owner`), in its executor thread: once the thread is under way (`called`) it reads all
faces (`ReadFaces`), groups that snapshot, rewrites the index face by face and replaces
the people at the end.  A face's write is three steps, `set_person`'s look at the entry
(`SetPersonReads`), `_put`'s unlinking of what is there by then (`SetPersonUnlinks`) and
its entering and linking the copy (`SetPersonEnds`); a face dropped on the loop after
the first is written back.  Handlers: upload, trash, restore, permanent delete, transform, rename, merge,
delete of a person, reassign, detach, recluster.  An embedding is a *look*, likeness
a relation that need not be transitive.  `health` records what undisturbed operation
has been lost: `skewed` after a restart from files that do not agree or a recluster
that others wrote beside, until an undisturbed one repairs it; `revived` once a
recluster had read a face that was dropped before it was written back; `torn` once a
write met another one half done.

### Library and Listing

Library is the index as the listings see it.  `version` is the mutation counter,
`views` the cached lists by key, `totals` the counts and statistics; `geo` is the
re-geocode worker, whose thread may be preempted between reading an item (`GeoRead`),
the read inside `patch` (`GeoGet`), the write (`GeoPut`) and the counter (`GeoBump`).
Handlers are atomic; `List` and `Totals` answer questions, and `List` refreshes the
stale records it serves, in order of their ids.  Listing is the promise, with no
cache in it: an answer is computed from the library and the names as they are, a
write under way in the thread being seen or not.  `Listed` is the refinement, with
`covered` (the items when the counter was last incremented) as the library before
that write.

### The dashboard

DashGrid: the search boxes with their debounce timers, the pager, the tiles, the
selection, the bulk actions, and the requests in flight; `Serve` is the server's
answer and the `Deliver` actions its arrival, in any order or as a failure.
DashCard: the item dialog and the review of a person's faces, whose buttons act on
`modalItem` and `reviewPerson` as they are when pressed; a photo's record is its id,
and the card keeps apart what `modalItem`, the picture, the title and the tag inputs
are of.  DashUpload: the walk of a
dropped folder and the queue of at most `Lanes` requests.  DashControl: the status
poll, the list of frames and the control buttons, with the server's proxy, which
reads the selected frame before it awaits it.  Playlists: the slideshow store with
its file and handlers, and the page's picker and remembered target.

### The rest

Staging: uploads of one file name, chunk by chunk; files are inodes, so an open
handle writes on to its inode whatever the name has become.  Thumbs: the warmer
(`at`, `todo`, `item`, what it has read) in its thread, the thumbnail route, the
handlers that drop thumbnails, crashes.  FrameCache: a frame's photo cache under its
two limits, with one index in memory per producer, downloads that may be cut and
files that cannot be removed.  Updater: one command of `malmberg-update.sh` per
action, power losses between any two, and the script's own end at a command that fails
(`set -e`), which may be the restart that has stopped the service.  Provision: both
setup programs as lists of steps (`Steps`), each with what it looks at and the facts it
makes one by one; a unit that runs already is left running by `enable --now`, on
whatever file it was started with (`Started`).

## 3. Runs

| run | instance | shows |
|---|---|---|
| MCRestarts | 2 ids, 2 paths, 2 contents, any number of operations; or 2 photos of one content, 1 pass, 2 delete runs, cap 1; restarts | `CountsUnlessRaced`, `DedupHolds`, `OnePlace`, `FlagTellsPlace`, `BytesConserved`, `RemovalsBounded`, `AuditBeforeAction` |
| MCCloudDelete | 1 photo, 1 delete run, 2 contents, all handlers; 2 passes at once beside one item, or 1 at a time beside two | `LossOnlyInFlight`, `RecordShaIsRemote`, `CountsUnlessRaced`, `StampKept` |
| MCSlideshow | 2 photos, 3 playlists, queue 2, history 2, 3 requests, fairness | `CursorInRange`, `PlayedInOrder`, `TimersMatchMode`, `OnlySelectedShown`, `PlaysAllButLast`, `SelectionComesUp`, `RevertsToLibrary` |
| MCFaces | 2 photos with 3 faces, 4 face and 4 person ids, batch of 2, 2 events | `IndexHonest`, `FacesOwned`, `CountsDerived`, `TagsAgree`, `NoDuplicateFaces`, `Regrouped` |
| MCLibrary | 2 photos, 1 place, 1 person, a view cache of one, 2 writes, 1 restart, fairness | `Listed` (refinement), `ManualKept`, `GeocodesAll` |
| MCParts | ten small modules, see below, fairness | `GridShowsNewest`, `MarksTellSelection`, `CardActsOnItsPhoto`, `ThumbsTrue`, `UploadedWhole`, `UpBetweenUpdates`, `SetupRepairs`, `AddedStays`, `CardWithinLimits`, `DownloadedKept`, `UploadsEnd`, `StatusComesTrue`, `WarmsAll` |
| MCCloudExposed | 1 photo, 1 pass, 1 delete run, 1 id, all handlers | *violation* of `NothingLost` |
| MCCloudForgotten | as MCCloudExposed with restarts | *violation* of `RemovedStaysIndexed` |
| MCCloudRaced | as MCCloudExposed with 2 ids | *violation* of `DigestsHonest` |
| MCSlideFrozen | as MCSlideshow, a list of three | *violation* of `LibraryComesUp` |
| MCSlideOffline | as MCSlideshow, one request | *violation* of `StaysAlive` |
| MCUpdateDown | 2 commits, 1 power loss | *violation* of `NeverLeftDown` |

Every property of these runs that is not a liveness property is also proved (section
5); `DownloadedKept`, `BytesConserved` and their like that speak of steps are checked
as PROPERTYs.  The type invariants of the first three components are proved and so not
run.

**Bounds, and why they are enough.**  Two ids, paths and contents are what the
store's properties compare: an item with one that shares its path, its content or
neither.  The cloud runs split the questions so that each has what it needs and
stays small: one photo for the races of a pass, a run and the handlers, two photos
for a cap of one.  `MaxIntents` bounds the log lines per photo, and with them delete
calls: two allow a retry, a lost answer, and a second run.  MCCloudDelete, MCCloudExposed
and MCCloudRaced look at the server while it runs (any step but a restart), for their
properties read no file.  MCCloudDelete has two passes at once where they race for the
photo, its record and its stamp, with one id in use so that a duplicate is the other
pass's, and a second item where an upload takes the photo's path or content, with one
pass at a time.  MCRestarts has the restarts: all of them for the library by itself;
for passes and runs those that come after a photo left the cloud, with something
unsaved and an id left to ingest it again; and MCCloudForgotten has all of them.
Uploads beside a pass and restarts together are in that run and in the theorems.  Where nothing reads the saved files, the
`VIEW`s leave out variables no action reads.  For the slideshow, a queue and history
of two fill up and drop; playlists are empty, of two photos, and of one photo twice;
three requests allow a choice, one that replaces it while the first is fetched,
loaded, queued or shown, and a navigation or a missing photo between.

Faces has two photos and three faces of which one is alike to the two others, which
are not alike: the smallest case in which the order of arrival decides the groups
and a recluster changes them.  Four ids let a face be dropped and found again, and a
recluster make new people beside the old ones.  Two events (`MaxEvents`) allow one
request in the middle of a recluster and a failed save or restart after it.  Library
needs two photos for a view to be wrong about one, one place for a manual label to
differ from the file's, a view cache of one so that it is always at its limit, two
writes so that a handler's write falls inside the worker's and another is listed, and
a restart that cuts a sweep short.  The index may be one of an earlier version.

In MCParts: three photos on pages of two, with three clicks, make a search, a page
turn and a selection race; two lanes and three files leave one waiting, two drops
overlap; two frames, two polls, two clicks and a lost reply let every answer be
overtaken; four uploads are two of one body, an empty one and one over the limit;
two slideshow names collide; of four cache files, of sizes 1, 1, 2 and 4, the limits of
2 items and 3 units hold some pairs and never the last; four commits of which two are bad and two
need other dependencies, two power losses; two versions of the setup programs and one
fault.  The theorems of section 5 need none of these bounds.  Symmetry permutes ids,
passes and delete runs, and in Faces the two looks, that no action or property tells
apart (of paths and contents MCRestarts lets the first upload take the first); the
liveness runs use none.

**Deadlock** is checked for the store, the cloud and the updater.  Elsewhere the model
may stop: when its bound on requests is used up and all workers rest, or, for the
slideshow, because `next(None)` takes the process down (MCSlideOffline).

**Fairness.**  *Slideshow*: weak fairness of `produce_target`, of `display_target` and of the revert
tasks: ready tasks are run, and a request, a dwell and a timer end.  Clients, the
server and pairing owe nothing.  A fetch from a source that yields nothing is not fair
progress, and `SelectionComesUp` and `RevertsToLibrary` assume that sources yield;
what happens otherwise is a finding below.  *Re-geocode worker and thumbnail
warmer*: weak fairness of the worker's own steps, a loop that sleeps, sweeps and
never returns while the server runs.  *Uploads*: weak fairness of the directory walk
and of the requests, which the browser ends with an answer, an error or an abort.
*Controls*: weak fairness of the poll, an interval timer, and of the oldest request
in flight being answered or lost; a request that is lost ends too.

## 4. Findings

* **A guard that does not cover the call** (MCCloudExposed).  `delete_verified`
  re-verifies, then awaits `provider.delete`; a transform served during that await
  changes the local copy and the cloud copy still goes.  `api/routes.py:890-893` says
  clearing the mark stops this.  `LossOnlyInFlight` is the strongest statement that
  does hold: only a change made while the call is in flight can lose a photo.
* **Deleted from the cloud, forgotten at home** (MCCloudForgotten).  A record becomes
  deletable in memory; index and state are saved when the sweep ends.  A crash between
  a delete and that save leaves the file an orphan outside the index.
* **A count that is lost between threads** (MCCloudRaced).  A pass ingests in an
  executor thread; `_put` reads a digest's count and writes it back one higher, and an
  upload of the same bytes served between is not counted.  `ingest/store.py:114-116` says
  that going through `_put` and `_drop` is all it takes to keep the indexes honest.
  Deleting one of the two items then lets the bytes in again while the other has them.
* **A frozen display** (MCSlideFrozen).  A looping source whose cycle is empty retries
  inside one `__anext__`, out of reach of any later switch.
* **A display without a server dies of a remote-control request** (MCSlideOffline).
  `_require_producer` is meant to answer 409; `make_server_producer` is always there
  and returns `None`, and `next(None)` raises in the task group.
* **An update that is never rolled back** (MCUpdateDown).  The script notes the commit
  to return to in a variable.  When the power goes between `git reset` and the end of
  the health check of a commit that does not come up, the next timer finds the
  checkout at the remote's commit, exits, and the service stays down.

Met while modelling and accounted for in the models, without a run of their own.

*Store and cloud*

* a second upload of a name on the same day replaces the first one's file
  (`ingest/upload.py:131-136`); hence `SolePath`;
* two uploads of one name at the same time share the staging file and corrupt each
  other; hence `UploadedWhole` is about uploads no other of the name overlaps;
* the cap counts deletions known to have succeeded; a lost answer is not one
  (`verify_and_delete.py:183` against the "hard cap" of line 9); hence
  `RemovalsBounded` adds the failures;
* two passes may run at once, though `sync.py:127` speaks of a single writer, and a pass
  that has a photo in hand when another one's record of it is deleted upon and stamped
  overwrites the stamp; hence `StampKept` speaks of the photos no pass has in hand
  (`Settled`), for any number of passes;
* a mark a transform cleared may be set again by a pass that returns afterwards
  (`sync.py:261`); the re-verification from disk is what protects the photo;
* two concurrent ingests can index the same bytes twice, the check and the add being
  two steps of a thread; hence `DedupHolds` is about the library's handlers, where
  uploads are single steps, and not about uploads beside a pass.

*Faces and the library's workers*

* an item trashed while its faces are being looked for, and restored later, counts as
  processed and has none, against `api/routes.py:619-620`;
* a name given, a merge or an assignment made during a recluster is lost with the
  snapshot it was not in, and a person deleted meanwhile comes back; a named person
  without faces is dropped (`faces/people.py:216`); hence the `calm` of `Regrouped`;
* two threads inside a face's write leave an index entry behind (`torn`); a face dropped
  while a recluster is about to write it is back afterwards, beside the one found again
  (`revived`);
* that a sweep left faces to regroup is kept in memory only and lost at a restart;
* the re-geocode worker writes back metadata it read earlier, and with it an item's
  manual tag, digest or existence as they were, against `ingest/regeocode.py:14-16`;
  hence the second disjunct of `ManualKept`;
* a warmer that read a photo before an edit writes its thumbnail after the edit
  dropped the old one; a crash leaves a torn file that is served for ever; files that
  cannot be decoded keep the warmer retrying.  `ThumbsTrue` names these exceptions.

*Display*

* the revert task of a playlist counts the photo that was on the screen when the list
  was chosen, so the last photo of the list may be cut; hence "all but the last" in
  `PlaysAllButLast` against "plays through exactly once" (`api/routes.py:141`);
* a playlist with an id the server does not have never reverts: the task waits for as
  many photos as were asked for; hence the assumption of `RevertsToLibrary`;
* a photo may come up after a pause, and `prev` pressed while `queue.get` waits leaves
  the cursor on another entry than the screen (`slideshow.py:48-49`);
* a producer's index keeps the modification times it read, so the photo cache evicts
  in order of download and a cached photo may go before it is shown; hence
  `DownloadedKept` speaks of photos just downloaded, and of the step that evicts
  one.  (As a statement about states, that whoever is missing is outweighed by what
  was loaded since, it is false once three photos are queued: a file that could not
  be removed then may be removed later, and what is left no longer explains why the
  photo had to go.)  A temporary file a crash left
  is indexed as a photo.  The cached source looks for files one directory above where
  they are written (`producers/cache.py:21-26`), and so yields nothing.

*Dashboard*

* `openModal` leaves `modalItem` what it was until the details come, and details that
  come after the card was closed set it: open a photo, close it at once, open another,
  and while the card says "Loading..." its buttons act on the first
  (`api/web.py:4801-4817`).  The reply of a rotation sets picture and item on whatever
  card is open by then, whose title and tag inputs stay, so that saving the tags writes
  them to the rotated photo (`5053-5056`).  Hence `CardActsOnItsPhoto` promises nothing
  of the item and inputs of a card that was opened while a reply of an earlier one was due;
* replies of the frame preview, of review rows, of the slideshow list, statistics,
  trash and people carry no sequence number, unlike those of the grid: an overtaken
  one wins;
* a search typed within 350 ms before "clear all" comes back, its value captured by
  the timer; a delete whose reply comes after the card was closed is announced as
  failed, and one whose reply comes after another card was opened closes that card;
* a status poll enables a control button whose request is under way and may leave its
  label at "..." until the next poll;
* an answer that refuses to add to a slideshow, one that is gone for instance, is
  announced as "Added"; `AddedStays` counts as said only what the server accepted;
* a directory listing that fails part way drops what it had listed.

*Updates and setup*

* with `Type=simple` and `Restart=on-failure` the health check may meet a bad service
  in one of its short lives; a commit that was rolled back is deployed again by every
  timer; a failing `uv sync` is ignored;
* a second run of setup does not repair everything a cut run left, against
  `setup/__init__.py:7-8`: `Fragile` in Provision names the facts whose step looks at
  less than it makes (the TLS pair and its mode, the PIN file's mode, the initramfs,
  the blanking drop-in and the boot console, the browser), and `SetupRepairs` excuses
  them when their step was broken off over them and now finds what it looks at
  (`Overlooked`); in every other case it demands them too;
* `enable --now` does not restart a running service on a new unit: `SetupRepairs` asks of
  the units that are started (`Started`) only that they are.

## 5. Proofs

Thirty-seven theorems in eight modules, for every value of the constants that satisfies
their named assumptions (finite sets of ids, photos, faces, paths and delete runs,
`None` outside the sets it is added to, bounds that are naturals).  They state every
safety and action property the passing runs check, and the refinement; of the counts,
MediaStoreProofs has them exact under the handlers (`DigestsExact`), CloudSyncProofs with
threads beside them (`CountsUnlessRaced`).

* **MediaStoreProofs**: all five properties and the type invariant.  `DedupInv` adds
  to `DedupHolds` that the *saved* index is deduplicated too, for a restart loads it,
  and that the counts are exact, so a count of zero means no item has the digest.
  `PlaceInv` gives for an item alone on its path where its file is, whether the index
  still has the item or not: in exactly one tree until purged and, as long as no
  unsaved change was lost, in the one its mark names; items keep the path they were
  ingested at, in memory and in the saved index, and paths nobody ingested at are
  empty.  `BytesConserved` follows action by action.
* **CloudSyncProofs**: the type invariant, `CountsUnlessRaced` by `RaceInv` (for a digest
  nobody raced for, the count is that of the items and of the passes between counting
  and entering theirs, and a thread that has read it holds the present one; an id that
  was never given out is in no index, so an entry is always a new one),
  `AuditBeforeAction` (inductive
  once the types are known; the work is the cardinality of `Calling`),
  `RecordShaIsRemote` by `ShaInv` (the record a thread is bringing back has the
  photo's content as well, and so has the saved state), `LossOnlyInFlight` by
  `LossInv` (a photo in flight that is not exposed still verifies), `RemovalsBounded`
  by `CapInv` (removed <= deleted + failed, plus one between the call and its return;
  deleted <= Cap), and `StampKept` for any number of passes: what comes into a pass's
  hands was not tracked (`HandOrigin`), so a settled photo stays out of them, and only
  the pass that has a photo in hand replaces its record.
* **SlideshowProofs**: the type invariant with `CursorInRange` (together, for prev and
  next index the history with the cursor); `TimersMatchMode` by `TimerInv`, which adds
  that a display without a server has no selection; `OnlySelectedShown` by
  `SelectedInv`: what is queued or being loaded under the current generation, and what
  is left of the source, is among the ids it was made for; `PlaysAllButLast` by
  `DueInv`: what the revert task still waits for and what had its turn make up the
  list, but for one photo (`Slack`) that was up when the list was chosen and can be
  counted once; `PlayedInOrder` by the line that what was shown, what is queued of
  this generation, what is being loaded and what is left of the source make up: it
  keeps the order of the list, for a step moves a photo from one of the four to the
  one before it, drops it from the last, or ends the generation.
* **LibraryProofs**: the refinement `LibSpec => Listed`, and `ManualKept`.  The
  invariant of the refinement is that every cached view and total is what the library
  as it was at the last count (`covered`) gives under the key's names, that entries
  were made at a counter no later than the present one, and that `covered` and `items`
  differ at most by the item the worker's thread is between writing and counting.  Each
  action then maps to a question, a write or a stutter of Listing.  For `ManualKept`: the
  metadata the worker holds has the label the item has, unless a handler wrote the
  item since.
* **FacesProofs**: all six properties.  `IndexHonest`: every write turns the indexes
  of some entries into the indexes of the new ones (`PutLoaded` and its like).  A
  recluster's thread writes in two halves, and the invariant has on record what lies
  between them: which face a job is at and the entry it will write (`JobsSound`),
  that the worker waits while its own recluster runs (`WorkerWaits`), and that, unless
  `torn`, the indexes are those of the entries but for the faces being written
  (`IndexesSound`).  `NoDuplicateFaces` by `SingleInv`: in memory and in the file no
  two entries are of one look of one photo, the photo the worker has dropped and is
  looking at has none until the first is entered, and what is still to be entered
  is not there yet; the copy a recluster is about to write back is, unless `revived`, of
  the entry that is there (`Copied`).  The three on people and tags by `RecordsInv`, whose parts are
  `CalmInv` (a recluster nobody disturbed stands where it says: what it read is the
  index, or the faces it has set have their planned person and the others their old
  one), `GoodInv` (while all is good and none is writing, every entry has its person
  and every person's record covers, and between sweeps equals, what the entries give
  it) and `TagsInv` (then a photo's tags are those of its faces, but for the photo the
  worker holds).  `Regrouped` follows from `CalmInv` and what a plan is: the groups are
  numbered apart, and a person whose faces are one of them keeps it.
* **DashProofs**: `CardActsOnItsPhoto`, by the invariant that every request of a card
  opened alone is about its photo, that its inputs are that photo's before a save or a
  turn is asked for (`AloneOK`), and that a picture is put up with its item;
  `GridShowsNewest` by `GridInv`: of the requests in flight only the newest carries the
  present number, it asks for the page and the filters the grid is on, and while none
  is in flight what is shown is the answer to them or the load failed; `MarksTellSelection`:
  marks and selection change together, and a page that is drawn anew is marked from
  the selection; `AddedStays` by `PlaylistInv`: what an answer under way
  or the page says was added has been in the slideshow since the cut it names
  (`Holds`; `age` counts removals and lost saves), and with nothing unsaved the file
  is what is in memory.
* **UpkeepProofs**.  `UpBetweenUpdates`, by an invariant on where the script is and what
  the checkout, the installed dependencies and the running commit then are.
  `ThumbsTrue`: what the warmer holds is the present pixels unless an edit fell in
  between.  `CardWithinLimits` and `DownloadedKept` follow the eviction's loop along the
  index: what is kept is counted and weighed, all of it had to stay while too much
  was left (`Loop`), and whoever was evicted was found with too much left besides what
  had to stay and what comes after it (`Traced`); `QueueInv` adds that what comes after
  a downloaded file, on the card and in the index, was loaded after it (`Follows`).
  `UploadedWhole`: an upload alone with its name has written the first chunks of its
  body to an inode no other handle is open on (`Alone`), and a stored file is out of
  every handle's reach (`Settled`).  `SetupRepairs`: a step that was never cut short has
  put right all its facts or none (`AllOrNone`), and what the run has passed is
  repaired; the lemmas `ServerInTurn` and `DisplayInTurn` are what is needed of the two
  programs' lists, that steps take turns and look at nothing but their own facts.
* **ListsProofs**: the lemmas about Lists that SlideshowProofs and the last two rest on:
  what a loop makes of a list with one more element (`ReduceAppend`), what a filter
  keeps (`OnlyElements`, `OnlyDistinct`, `OnlyFront`), sums (`SumWithout`, `SumBounded`).
  They are proved for lists of every length by induction in the form the provers can
  use: the numbers a statement holds of are a *set*, and a least number outside it
  would exist by well-foundedness (`InductionOn`, `SequencesOn`); no operator is passed
  as a parameter.

Only model-checked: the liveness properties (`SelectionComesUp`,
`RevertsToLibrary`, `UploadsEnd`, `StatusComesTrue`, `WarmsAll`, `GeocodesAll`), which
need fairness and so are out of the prover's reach.

## 6. Not modelled, and the plan

Not modelled: drawing, decoding, EXIF, HTML and CSS; sockets, TLS, log-in and
discovery; detection of hardware; the search in the gazetteer; the third-party
detectors and the network side of cloud sessions; the retention rule, which no program of
the repository calls, and the `zfs` commands beside it; of the dashboard, the
editors of place and date and the statistics, trash and cloud panels.  A load that
fails part way (`app/app.py:38`) is not either: the index is written in one piece, so
a prefix needs a record of another version of the program.  `PROJECT.json` gives the
reason for each component.

Planned, in this order:

1. Proofs: that the abstract specifications of item 2 are implemented, step by step,
   from the invariants of section 5; a property of a load that fails part way, with
   the state that needs (`app/app.py:38`).
2. Abstract specifications: a safe-delete protocol of copies here and there, which
   CloudSync implements; a remote control that shows photos of the selection chosen
   last, which Slideshow implements.
3. The dashboard's cloud and trash panels beside CloudSync and MediaStore.
