----------------------------- MODULE FrameCache -----------------------------
(***************************************************************************)
(* The photo cache on a frame's card (slideshow/producers/server.py):      *)
(* CachedItem.load, ServerProducer's download, index and eviction, and the *)
(* slideshow's queue of what is loaded and not shown yet.                  *)
(*                                                                         *)
(* produce_target loads one item at a time; every cycle of the library and *)
(* every new selection is a new ServerProducer with an index of its own.   *)
(* A download waits for chunks; the program may die there, or be cancelled,*)
(* and leaves the temporary file.  Removing a file may fail.               *)
(*                                                                         *)
(* Abstractions.  A path stands for an item's file under its digest; a     *)
(* temporary file is <<path, "tmp">>.  Modification times are kept as the  *)
(* order of the sequences: a hit moves a file to the end of the card's,    *)
(* never of the index, which keeps the times it has read.                  *)
(***************************************************************************)
EXTENDS Integers, Sequences, FiniteSets, SequencesExt, Lists

CONSTANTS
    Path,
    Bytes,      \* [Path -> size]
    MaxItems,   \* cache_max_items; 0: no limit
    MaxBytes,   \* cache_max_bytes; 0: no limit
    Preload,    \* the queue's size
    NotYet,     \* no index yet
    MaxBuilt,   \* bound: producers and restarts
    MaxFailed   \* bound: downloads and removals that fail

ASSUME CacheAssumption ==
    /\ MaxItems \in Nat /\ MaxBytes \in Nat /\ Bytes \in [Path -> Nat]
    /\ IsFiniteSet(Path)

VARIABLES
    flash,      \* the files on the card, least recently used first
    entries,    \* ServerProducer._entries, by the time of the index, or NotYet
    loading,    \* the path being downloaded, as <<path>>, or <<>>
    ready,      \* the queue: [path, fetched]
    undead,     \* history: index entries that could not be removed
    built, failed

cacheVars == <<flash, entries, loading, ready, undead, built, failed>>

File(path) == <<path, "file">>
Temp(path) == <<path, "tmp">>
Size(f) == Bytes[f[1]]
TotalBytes(files) == Sum([f \in Elements(files) |-> Size(f)], files)

(* _over_cap, and the test of the eviction's loop *)
Over(count, total) ==
    \/ MaxItems > 0 /\ count > MaxItems
    \/ MaxBytes > 0 /\ total > MaxBytes

-----------------------------------------------------------------------------
(* A slip of NotedCached: the index is not built from the card.             *)
NotedAlone(path, disk) ==
    IF entries = NotYet THEN <<File(path)>> ELSE Append(entries, File(path))

(* _note_cached: the first download builds the index with one walk, which   *)
(* finds the new file too; a file that is there already is entered again.   *)
NotedCached(path, disk) ==
    IF entries = NotYet THEN disk ELSE Append(entries, File(path))

(* What the eviction's loop has kept, and what is left of the sums. *)
Run(index) == [kept : Seq(Elements(index)), count : Int, total : Int]
RunStart(index) == [kept |-> <<>>, count |-> Len(index), total |-> TotalBytes(index)]
RunKeep(run, f) == [run EXCEPT !.kept = Append(@, f)]
RunDrop(run, f) == [run EXCEPT !.count = @ - 1, !.total = @ - Size(f)]

(* A slip of Evict: the file just downloaded may go.                        *)
EvictAny(index, keep, locked, disk) ==
    Reduce([p \in Run(index) \X Elements(index) |->
              IF \/ ~Over(p[1].count, p[1].total)
                 \/ p[2] \in locked \/ p[2] \notin Elements(disk)
              THEN RunKeep(p[1], p[2]) ELSE RunDrop(p[1], p[2])],
           RunStart(index), index)

(* _enforce_cache_limit: oldest first, until under both caps; the file just *)
(* downloaded stays, and so does the entry of one that cannot be removed,   *)
(* locked or not there any more.                                            *)
Evict(index, keep, locked, disk) ==
    Reduce([p \in Run(index) \X Elements(index) |->
              IF \/ ~Over(p[1].count, p[1].total) \/ p[2] = keep
                 \/ p[2] \in locked \/ p[2] \notin Elements(disk)
              THEN RunKeep(p[1], p[2]) ELSE RunDrop(p[1], p[2])],
           RunStart(index), index)

-----------------------------------------------------------------------------
(* A new cycle or selection: nothing of its predecessor's index is left.    *)
(* A selection drops what is ready (the queue is flushed, or its items are  *)
(* of an earlier generation when they come up).                             *)
NewProducer ==
    /\ built < MaxBuilt /\ built' = built + 1
    /\ loading = <<>>
    /\ entries' = NotYet
    /\ ready' \in {ready, <<>>}
    /\ UNCHANGED <<flash, loading, undead, failed>>

(* The temporary file of a download stays on the card. *)
Restart ==
    /\ built < MaxBuilt /\ built' = built + 1
    /\ loading' = <<>> /\ entries' = NotYet /\ ready' = <<>> /\ undead' = {}
    /\ UNCHANGED <<flash, failed>>

(* A hit touches the file. *)
LoadHit(path) ==
    /\ loading = <<>> /\ Len(ready) < Preload
    /\ File(path) \in Elements(flash)
    /\ flash' = Append(Without(flash, File(path)), File(path))
    /\ ready' = Append(ready, [path |-> path, fetched |-> FALSE])
    /\ UNCHANGED <<entries, loading, undead, built, failed>>

(* A miss opens the temporary file, over one a crash has left. *)
LoadMiss(path) ==
    /\ loading = <<>> /\ Len(ready) < Preload
    /\ File(path) \notin Elements(flash)
    /\ flash' = Append(Without(flash, Temp(path)), Temp(path))
    /\ loading' = <<path>>
    /\ UNCHANGED <<entries, ready, undead, built, failed>>

(* The item has no delegate and is skipped when it comes up. *)
DownloadFails ==
    /\ failed < MaxFailed /\ failed' = failed + 1
    /\ loading # <<>>
    /\ flash' = Without(flash, Temp(loading[1]))
    /\ loading' = <<>>
    /\ UNCHANGED <<entries, ready, undead, built>>

(* The rest of _ensure_cached: rename, index and eviction, without a wait.  *)
Downloaded(locked) ==
    /\ loading # <<>>
    /\ failed + Cardinality(locked) <= MaxFailed /\ failed' = failed + Cardinality(locked)
    /\ LET path == loading[1]
           disk == Append(Without(flash, Temp(path)), File(path))
           index == NotedCached(path, disk)
           run == Evict(index, File(path), locked, disk)
           gone == Elements(index) \ Elements(run.kept)
       IN  /\ locked \subseteq Elements(index) \ {File(path)}
           /\ entries' = run.kept
           /\ flash' = Only(disk, Elements(disk) \ gone)
           /\ undead' = (undead \cup locked \cup (Elements(index) \ Elements(disk))) \ gone
           /\ ready' = Append(ready, [path |-> path, fetched |-> TRUE])
    /\ loading' = <<>>
    /\ UNCHANGED built

(* display_target takes the next one. *)
ShowReady ==
    /\ ready # <<>>
    /\ ready' = Tail(ready)
    /\ UNCHANGED <<flash, entries, loading, undead, built, failed>>

-----------------------------------------------------------------------------
(* The card may hold anything the program has left there before.            *)
CacheInit ==
    /\ flash \in {<<>>} \cup {SetToSeq({File(x) : x \in s}) : s \in SUBSET Path}
    /\ entries = NotYet /\ loading = <<>> /\ ready = <<>> /\ undead = {}
    /\ built = 0 /\ failed = 0

CacheNext ==
    \/ NewProducer \/ Restart
    \/ \E x \in Path : LoadHit(x) \/ LoadMiss(x)
    \/ DownloadFails
    \/ \E locked \in SUBSET Elements(flash) : Downloaded(locked)
    \/ ShowReady

CacheSpec == CacheInit /\ [][CacheNext]_cacheVars

-----------------------------------------------------------------------------
(* Properties. *)

(* After a producer's first download the card is within both limits, or     *)
(* what is left besides the newest file could not be removed: whatever an   *)
(* earlier producer, a greater limit or a crash had left there, and however *)
(* often a file is evicted and downloaded again (server.py:174-228).  The   *)
(* file being downloaded comes on top.                                      *)
CardWithinLimits ==
    (entries # NotYet) =>
        LET files == IF loading = <<>> THEN flash ELSE Without(flash, Temp(loading[1]))
        IN  \/ ~Over(Len(files), TotalBytes(files))
            \/ Elements(files) \subseteq undead \cup {Last(entries)}

(* A file just downloaded is on the card, however large, and is not evicted *)
(* before its turn in the queue, unless the files loaded since are over the *)
(* limits with it and with what cannot be removed (server.py:200-211).  A   *)
(* video is opened from the card only then (display/video.py:97-113).       *)
DownloadedKept ==
    [][/\ loading # <<>> /\ Len(ready') > Len(ready) => File(loading[1]) \in Elements(flash')
       /\ \A k \in DOMAIN ready :
             LET file  == File(ready[k].path)
                 since == {File(ready'[j].path) : j \in k .. Len(ready')} \cup undead'
                 files == SetToSeq(since)
             IN  ready[k].fetched /\ file \in Elements(flash) \ Elements(flash')
                 => Over(Len(files), TotalBytes(files))]_cacheVars
=============================================================================
