------------------------------ MODULE Library ------------------------------
(***************************************************************************)
(* The media index as the HTTP handlers see it (ingest/store.py and the    *)
(* /media handlers of api/routes.py): the items' records, the caches of    *)
(* filtered views and of totals keyed by the mutation counter, the lazy    *)
(* refresh of records written by an older version, and the re-geocode      *)
(* worker (ingest/regeocode.py), which reads and writes the index from an  *)
(* executor thread while the handlers run on the event loop.               *)
(*                                                                         *)
(* A handler has no await between its reads and its writes and is one      *)
(* action.  The worker's thread may lose the processor between any two of  *)
(* its steps: the read of an item, the read inside patch, the write, and   *)
(* the increment of the counter.                                           *)
(*                                                                         *)
(* Abstractions.  A record keeps the fields that a filter, a total or the  *)
(* worker looks at; dates behave as places do.  A filter matches a whole   *)
(* label, not a part of one, an answer is one page, and which view a full  *)
(* cache gives up is left open.  The index is saved by every handler that  *)
(* changes it; saves that fail, files, digests and the recycle bin's files *)
(* are the subject of module MediaStore.                                   *)
(***************************************************************************)
EXTENDS Naturals, FiniteSets, FiniteSetsExt, Functions

CONSTANTS
    Item,
    Place,      \* the labels; NoPlace stands for none
    NoPlace,
    Person,
    Name,       \* the names a person may be given; NoName stands for none
    NoName,
    Fix,        \* [Item -> Place \cup {NoPlace}]: the label today's gazetteer
                \* gives the item's coordinates, NoPlace if it has none
    Query,      \* [text, place, person], each a label or NoFilter
    NoFilter, Unsorted,
    ViewCacheSize,  \* _VIEW_CACHE_SIZE
    MaxWrites,  \* bound: changes made through the handlers
    MaxRestarts \* bound: restarts of the server

ASSUME ItemAssumption == IsFiniteSet(Item)
ASSUME FixAssumption == Fix \in [Item -> Place \cup {NoPlace}]
ASSUME ViewCacheAssumption == ViewCacheSize \in Nat \ {0}

VARIABLES
    items,      \* MediaStore._items
    names,      \* the persons' names, in PersonStore
    version,    \* MediaStore._version
    views,      \* _view_cache: <<key, list>> pairs
    totals,     \* _counts_cache and _stats_cache: at most one <<key, value>> each
    saved,      \* the index on disk
    fresh,      \* the ids no upload has been given yet (they are uuids)
    covered,    \* history: the items when the counter was last incremented
    reply,      \* the last answer to a question
    geo,        \* the re-geocode worker: at, todo, item, meta, got, raced
    writes, restarts

libVars == <<items, names, version, views, totals, saved, fresh, covered, reply, geo,
             writes, restarts>>

NoReply == [kind |-> "none"]

(* The worker between sweeps; item, meta and got are what its thread has    *)
(* read and holds on to, raced tells whether a handler has written the item *)
(* since.                                                                   *)
Asleep == [at |-> "asleep", todo |-> {}]

(* The record of a new photo, with the metadata read from its file.         *)
Meta(i) == [place |-> Fix[i], manual |-> NoPlace,
            geocoded |-> TRUE,  \* geo_version is the current one
            current |-> TRUE]   \* schema_version is the current one
Record(i) == [trashed |-> FALSE, hidden |-> FALSE, who |-> {}, meta |-> Meta(i)]

-----------------------------------------------------------------------------
(* What a record answers. *)

EffectivePlace(meta) == IF meta.manual # NoPlace THEN meta.manual ELSE meta.place

NamesOn(r, called) == {called[p] : p \in r.who} \ {NoName}

(* live, and shown: every route asks with skip_hidden. *)
Shown(r) == ~r.trashed /\ ~r.hidden

MatchesQuery(r, called, text) ==
    text \in {EffectivePlace(r.meta)} \cup NamesOn(r, called)

MatchesFilters(r, called, q) ==
    /\ q.place # NoFilter => EffectivePlace(r.meta) = (IF q.place = Unsorted THEN NoPlace
                                                  ELSE q.place)
    /\ q.person # NoFilter => q.person \in NamesOn(r, called)

Matches(r, called, q) ==
    /\ Shown(r)
    /\ q.text # NoFilter => MatchesQuery(r, called, q.text)
    /\ MatchesFilters(r, called, q)

(* _view's list, an item's record under its id. *)
ViewOf(s, called, q) ==
    Restrict(s, {i \in DOMAIN s : Matches(s[i], called, q)})

(* counts_by_person and the figures of _base_stats. *)
CountsOf(s) ==
    [p \in Person |-> Cardinality({i \in DOMAIN s : Shown(s[i]) /\ p \in s[i].who})]

StatsOf(s) ==
    [l \in Place \cup {NoPlace} |->
        Cardinality({i \in DOMAIN s : Shown(s[i]) /\ EffectivePlace(s[i].meta) = l})]

(* stats adds the photos of every name, from the counts of its persons.     *)
WithNames(stats, counts, called) ==
    [byPlace |-> stats,
     byPerson |-> [n \in Name |->
        MapThenSumSet(LAMBDA p : counts[p], {p \in Person : called[p] = n})]]

TotalsOf(s, called) == WithNames(StatsOf(s), CountsOf(s), called)

-----------------------------------------------------------------------------
(* Writing. *)

(* A slip of Refreshed: the whole metadata is what the file says.           *)
RefreshedFromFile(i, r) ==
    [r EXCEPT !.meta = [place |-> Fix[i], manual |-> NoPlace,
                        geocoded |-> TRUE, current |-> TRUE]]

(* extract_exif on the item's file, keeping what only the index holds.      *)
Refreshed(i, r) ==
    [r EXCEPT !.meta = [place |-> Fix[i], manual |-> r.meta.manual,
                        geocoded |-> TRUE, current |-> TRUE]]

(* The dictionary s with the entries of new set in it.                      *)
Updated(s, new) ==
    [i \in DOMAIN new \cup DOMAIN s |-> IF i \in DOMAIN new THEN new[i] ELSE s[i]]

(* _put or _drop for each of ids on the event loop, and the save at the end *)
(* of the handler.                                                          *)
PutAll(ids, s) ==
    /\ items' = s
    /\ version' = version + Cardinality(ids)
    /\ covered' = s
    /\ saved' = s
    /\ geo' = IF geo.at \in {"read", "got"} /\ geo.item \in ids
              THEN [geo EXCEPT !.raced = TRUE] ELSE geo

Write == writes < MaxWrites /\ writes' = writes + 1

Handler == UNCHANGED <<names, views, totals, fresh, restarts>> /\ reply' = NoReply

(* POST /upload: a new id, its metadata extracted by today's code. *)
Upload(i) ==
    /\ Write
    /\ i \in fresh
    /\ fresh' = fresh \ {i}
    /\ PutAll({i}, Updated(items, [j \in {i} |-> Record(j)]))
    /\ reply' = NoReply
    /\ UNCHANGED <<names, views, totals, restarts>>

(* DELETE /media/{id} and bulk-delete, soft and permanent, and restore. *)
Trash(i) ==
    /\ Write
    /\ i \in DOMAIN items
    /\ PutAll({i}, [items EXCEPT ![i].trashed = TRUE])
    /\ Handler

Purge(i) ==
    /\ Write
    /\ i \in DOMAIN items
    /\ PutAll({i}, Restrict(items, DOMAIN items \ {i}))
    /\ Handler

Untrash(i) ==
    /\ Write
    /\ i \in DOMAIN items
    /\ items[i].trashed
    /\ PutAll({i}, [items EXCEPT ![i].trashed = FALSE])
    /\ Handler

(* PATCH /media/{id} with do_not_display. *)
Hide(i, hidden) ==
    /\ Write
    /\ i \in DOMAIN items
    /\ PutAll({i}, [items EXCEPT ![i].hidden = hidden])
    /\ Handler

(* A stale record of an item whose file is in the library is read anew when *)
(* it is got; the extraction may fail and leave it.                         *)
RefreshIfStale(i, r) ==
    IF r.meta.current \/ r.trashed THEN {r} ELSE {r, Refreshed(i, r)}

(* POST /media/{id}/tag and /media/tag-bulk: the label is set, or cleared   *)
(* when p is NoPlace, on every one of ids that is in the index.             *)
Tag(ids, p) ==
    /\ Write
    /\ LET known == ids \cap DOMAIN items
       IN  /\ known # {}
           /\ \E read \in [known -> UNION {RefreshIfStale(i, items[i]) : i \in known}] :
                 /\ \A i \in known : read[i] \in RefreshIfStale(i, items[i])
                 /\ PutAll(known, Updated(items,
                                  [i \in known |-> [read[i] EXCEPT !.meta.manual = p]]))
    /\ Handler

(* POST /media/{id}/transform rewrites the file and reads it anew. *)
Transform(i) ==
    /\ Write
    /\ i \in DOMAIN items
    /\ ~items[i].trashed
    /\ PutAll({i}, [items EXCEPT ![i] = Refreshed(i, items[i])])
    /\ Handler

(* The face worker and the face handlers set who is on an item. *)
SetPeople(i, who) ==
    /\ Write
    /\ i \in DOMAIN items
    /\ PutAll({i}, [items EXCEPT ![i].who = who])
    /\ Handler

(* PATCH /people/{id}: the store is not written at all. *)
NamePerson(p, n) ==
    /\ Write
    /\ names' = [names EXCEPT ![p] = n]
    /\ reply' = NoReply
    /\ UNCHANGED <<items, version, views, totals, saved, fresh, covered, geo, restarts>>

-----------------------------------------------------------------------------
(* Reading. *)

(* A slip of ViewKey: names that change leave the view as it was. *)
ViewKeyNameless(q) == <<version, q, {}>>

(* The key of a view: the counter, the filters and, when they look at       *)
(* persons, the fingerprint of the names.                                   *)
ViewKey(q) == <<version, q, IF q.text # NoFilter \/ q.person # NoFilter THEN {names} ELSE {}>>

(* What may be cached once a view was computed anew: those of earlier       *)
(* versions go and, at the limit, one of the others.                        *)
Stored(entry) ==
    LET kept == {e \in views : e[1][1] = version}
    IN  IF Cardinality(kept) < ViewCacheSize THEN {kept \cup {entry}}
        ELSE {(kept \ {e}) \cup {entry} : e \in kept}

(* The view from the cache, or computed. *)
Found(q) ==
    LET hits == {e \in views : e[1] = ViewKey(q)}
    IN  IF hits # {} THEN hits ELSE {<<ViewKey(q), ViewOf(items, names, q)>>}

StaleIn(view) == {i \in DOMAIN view : ~view[i].meta.current}

Served(view, anew) ==
    [i \in DOMAIN view |-> IF i \in anew THEN Refreshed(i, view[i]) ELSE view[i]]

(* GET /media: the view, every stale record of the page refreshed and, if   *)
(* there was one, the index saved.                                          *)
List(q) ==
    \E entry \in Found(q) : \E anew \in SUBSET StaleIn(entry[2]) :
        /\ IF entry \in views THEN UNCHANGED views ELSE views' \in Stored(entry)
        /\ IF anew = {} THEN UNCHANGED <<items, version, covered, saved, geo>>
           ELSE PutAll(anew, Updated(items, Restrict(Served(entry[2], anew), anew)))
        /\ reply' = [kind |-> "list", q |-> q, value |-> Served(entry[2], anew)]
        /\ UNCHANGED <<names, totals, fresh, writes, restarts>>

(* GET /stats and /people: the two one-entry caches, the names added after. *)
Totals ==
    LET stats == IF totals # <<>> /\ totals[1] = version THEN totals[2] ELSE StatsOf(items)
        counts == IF totals # <<>> /\ totals[1] = version THEN totals[3] ELSE CountsOf(items)
    IN  /\ totals' = <<version, stats, counts>>
        /\ reply' = [kind |-> "totals", value |-> WithNames(stats, counts, names)]
        /\ UNCHANGED <<items, names, version, views, saved, fresh, covered, geo, writes,
                       restarts>>

-----------------------------------------------------------------------------
(* The re-geocode worker. *)

Worker == UNCHANGED <<names, views, totals, fresh, writes, restarts>> /\ reply' = NoReply

(* A slip of StaleIds: the recycle bin is passed over. *)
StaleIdsLive == {i \in DOMAIN items : ~items[i].meta.geocoded /\ Fix[i] # NoPlace
                                      /\ ~items[i].trashed}

StaleIds == {i \in DOMAIN items : ~items[i].meta.geocoded /\ Fix[i] # NoPlace}

(* A sweep starts when the pause is over; with nothing to do it ends there. *)
GeoSweep ==
    /\ geo.at = "asleep"
    /\ StaleIds # {}
    /\ geo' = [at |-> "pick", todo |-> StaleIds]
    /\ UNCHANGED <<items, version, saved, covered>> /\ Worker

(* regeocode_item reads the item; one that is gone is passed over. *)
GeoRead(i) ==
    /\ geo.at = "pick"
    /\ i \in geo.todo
    /\ geo' = IF i \in DOMAIN items
              THEN [at |-> "read", todo |-> geo.todo \ {i}, item |-> i,
                    meta |-> items[i].meta, raced |-> FALSE]
              ELSE [geo EXCEPT !.todo = @ \ {i}]
    /\ UNCHANGED <<items, version, saved, covered>> /\ Worker

(* patch reads the item again, for everything but its metadata. *)
GeoGet ==
    /\ geo.at = "read"
    /\ geo' = IF geo.item \in DOMAIN items
              THEN [at |-> "got", todo |-> geo.todo, item |-> geo.item,
                    meta |-> geo.meta, raced |-> geo.raced, got |-> items[geo.item]]
              ELSE [at |-> "pick", todo |-> geo.todo]
    /\ UNCHANGED <<items, version, saved, covered>> /\ Worker

GeoMeta == [geo.meta EXCEPT !.place = Fix[geo.item], !.geocoded = TRUE]

(* _put in the thread: the record is there before the counter moves. *)
GeoPut ==
    /\ geo.at = "got"
    /\ items' = Updated(items, [i \in {geo.item} |-> [geo.got EXCEPT !.meta = GeoMeta]])
    /\ geo' = [at |-> "bump", todo |-> geo.todo, item |-> geo.item, raced |-> geo.raced]
    /\ UNCHANGED <<version, saved, covered>> /\ Worker

GeoBump ==
    /\ geo.at = "bump"
    /\ version' = version + 1
    /\ covered' = items
    /\ geo' = [at |-> "pick", todo |-> geo.todo]
    /\ UNCHANGED <<items, saved>> /\ Worker

(* The sweep is over: back on the loop the index is saved. *)
GeoSave ==
    /\ geo.at = "pick"
    /\ geo.todo = {}
    /\ saved' = items
    /\ geo' = Asleep
    /\ UNCHANGED <<items, version, covered>> /\ Worker

(* The server stops, in the middle of a sweep too, and comes up again from  *)
(* the saved index; the names are saved with every change of them.          *)
Restart ==
    /\ restarts < MaxRestarts
    /\ restarts' = restarts + 1
    /\ items' = saved
    /\ covered' = saved
    /\ version' = Cardinality(DOMAIN saved)
    /\ views' = {} /\ totals' = <<>>
    /\ geo' = Asleep
    /\ reply' = NoReply
    /\ UNCHANGED <<names, saved, fresh, writes>>

-----------------------------------------------------------------------------
(* An empty index, or one written by an earlier version, in which no label  *)
(* is current.                                                              *)
LibInit ==
    /\ \E old \in {{}, Item} : fresh = Item \ old /\ items \in
          [old -> [trashed : {FALSE}, hidden : {FALSE}, who : {{}},
                   meta : [place : Place \cup {NoPlace}, manual : {NoPlace},
                           geocoded : {FALSE}, current : BOOLEAN]]]
    /\ \A i \in DOMAIN items : Fix[i] = NoPlace => items[i].meta.place = NoPlace
    /\ names = [p \in Person |-> NoName]
    /\ version = Cardinality(DOMAIN items)
    /\ views = {} /\ totals = <<>>
    /\ saved = items /\ covered = items
    /\ reply = NoReply
    /\ geo = Asleep
    /\ writes = 0 /\ restarts = 0

GeoNext ==
    \/ GeoSweep \/ GeoGet \/ GeoPut \/ GeoBump \/ GeoSave
    \/ \E i \in Item : GeoRead(i)

LibNext ==
    \/ \E i \in Item : Upload(i) \/ Trash(i) \/ Purge(i) \/ Untrash(i) \/ Transform(i)
    \/ \E i \in Item, b \in BOOLEAN : Hide(i, b)
    \/ \E i \in Item, who \in SUBSET Person : SetPeople(i, who)
    \/ \E ids \in SUBSET Item, p \in Place \cup {NoPlace} : Tag(ids, p)
    \/ \E p \in Person, n \in Name : NamePerson(p, n)
    \/ \E q \in Query : List(q)
    \/ Totals
    \/ GeoNext
    \/ Restart

(* The worker's thread and its pauses come to an end. *)
LibFairness == WF_libVars(GeoNext)

LibSpec == LibInit /\ [][LibNext]_libVars /\ LibFairness

-----------------------------------------------------------------------------
(* Properties. *)

(* What the handlers answer is what module Listing promises: the caches     *)
(* never serve a view, a count or a name that has been overtaken, although  *)
(* a thread writes the index, names change behind the store's back and      *)
(* records are refreshed while they are served (store.py:340-394, 498-607). *)
Promise == INSTANCE Listing WITH
    Fits <- Matches, Totals <- TotalsOf,
    shelf <- covered, shelfNext <- items, called <- names, answer <- reply
Listed == Promise!ListingSpec

(* What a user typed as a place is changed by nobody but the user: not by a *)
(* refresh, a transform or a re-geocode (regeocode.py:14-16).  The worker   *)
(* can break this only for an item that a handler wrote while the worker    *)
(* held its metadata; a restart may bring back a label so lost.             *)
ManualKept ==
    [][\A i \in DOMAIN items \cap DOMAIN items' :
          items'[i].meta.manual # items[i].meta.manual =>
             \/ \E ids \in SUBSET Item : i \in ids /\ Tag(ids, items'[i].meta.manual)
             \/ geo.at \in {"got", "bump"} /\ geo.item = i /\ geo.raced
             \/ restarts' # restarts]_libVars

(* An improved gazetteer reaches every photo that has coordinates, through  *)
(* sweeps cut short by restarts and races with the handlers.                *)
GeocodesAll ==
    \A i \in {j \in Item : Fix[j] # NoPlace} :
        []<>(i \in DOMAIN items => items[i].meta.geocoded)
=============================================================================
