--------------------------- MODULE LibraryProofs ----------------------------
(***************************************************************************)
(* What the handlers answer is what module Listing promises, for any       *)
(* library, any names, any number of filters and any size of the caches.   *)
(* The argument: what is cached under the present version was computed     *)
(* from the index as it is, or as it was before the write a thread has     *)
(* under way; and every write that ends makes the version greater than     *)
(* that of everything cached.  The last part is about the labels the user  *)
(* typed.                                                                  *)
(***************************************************************************)
EXTENDS Library, TLAPS, FiniteSetTheorems

KeyFor(v, q, called) ==
    <<v, q, IF q.text # NoFilter \/ q.person # NoFilter THEN {called} ELSE {}>>

(* Views cached by version v at the latest, those of v right for one of the *)
(* indexes in S.                                                            *)
ViewsTrue(vs, v, S) ==
    \A e \in vs :
        /\ e[1][1] \in Nat /\ e[1][1] <= v
        /\ \A q, called : e[1] = KeyFor(v, q, called) =>
               \E s \in S : e[2] = ViewOf(s, called, q)

TotalsTrue(ts, v, S) ==
    ts # <<>> =>
        /\ ts[1] \in Nat /\ ts[1] <= v
        /\ ts[1] = v => \E s \in S : ts[2] = StatsOf(s) /\ ts[3] = CountsOf(s)

CachesTrue == /\ ViewsTrue(views, version, {covered, items})
              /\ TotalsTrue(totals, version, {covered, items})

GeoShape ==
    \/ geo.at \in {"asleep", "pick"}
    \/ /\ geo.at \in {"read", "got", "bump"}
       /\ geo.item \in Item
       /\ geo = [k \in DOMAIN geo |-> geo[k]] /\ {"at", "item"} \subseteq DOMAIN geo

IndexShape ==
    /\ DOMAIN items \subseteq Item /\ DOMAIN saved \subseteq Item
    /\ version \in Nat
    /\ geo.at # "bump" => covered = items
    /\ DOMAIN covered \subseteq Item

LibInv == IndexShape /\ GeoShape /\ CachesTrue

-----------------------------------------------------------------------------
LEMMA UpdatedDomain ==
  ASSUME NEW s, NEW new PROVE DOMAIN Updated(s, new) = DOMAIN new \cup DOMAIN s
  BY DEF Updated

LEMMA RestrictedOn ==
  ASSUME NEW f, NEW S PROVE DOMAIN Restrict(f, S) = S
  BY DEF Restrict

(* A greater version has nothing cached.                                    *)
LEMMA Overtaken ==
  ASSUME NEW v \in Nat, NEW w \in Nat, v < w, NEW S, NEW T, NEW vs, NEW ts,
         ViewsTrue(vs, v, S), TotalsTrue(ts, v, S)
  PROVE  ViewsTrue(vs, w, T) /\ TotalsTrue(ts, w, T)
<1>1. ASSUME NEW e \in vs PROVE e[1][1] \in Nat /\ e[1][1] <= v
  BY <1>1 DEF ViewsTrue
<1>2. ASSUME NEW e \in vs, NEW q, NEW called PROVE e[1] # KeyFor(w, q, called)
  <2>1. e[1][1] # w
    BY <1>1
  <2> QED BY <2>1 DEF KeyFor
<1>3. ViewsTrue(vs, w, T)
  BY <1>1, <1>2 DEF ViewsTrue
<1>4. TotalsTrue(ts, w, T)
  BY DEF TotalsTrue
<1> QED BY <1>3, <1>4

(* Under one version the indexes that may have been read only become more.  *)
LEMMA StillTrue ==
  ASSUME NEW v, NEW S, NEW T, S \subseteq T, NEW vs, NEW ts,
         ViewsTrue(vs, v, S), TotalsTrue(ts, v, S)
  PROVE  ViewsTrue(vs, v, T) /\ TotalsTrue(ts, v, T)
  BY DEF ViewsTrue, TotalsTrue

LEMMA SomeCounted ==
  ASSUME NEW ids \in SUBSET Item, ids # {} PROVE Cardinality(ids) \in Nat \ {0}
  BY ItemAssumption, FS_Subset, FS_CardinalityType, FS_EmptySet

(* A handler that writes, whatever else it does to the caches before.       *)
LEMMA PutAllKeeps ==
  ASSUME LibInv, NEW ids \in SUBSET Item, ids # {},
         NEW s, DOMAIN s \subseteq Item, PutAll(ids, s)
  PROVE  IndexShape' /\ GeoShape' /\ version' \in Nat /\ version < version'
<1>1. version' \in Nat /\ version < version'
  BY SomeCounted DEF PutAll, LibInv, IndexShape
<1>2. GeoShape' /\ geo'.at = geo.at
  BY DEF PutAll, LibInv, GeoShape
<1>3. IndexShape'
  BY <1>1, <1>2 DEF PutAll, IndexShape
<1> QED BY <1>1, <1>2, <1>3

(* A handler that writes and leaves the caches alone.                       *)
LEMMA HandlerKeeps ==
  ASSUME LibInv, NEW ids \in SUBSET Item, ids # {},
         NEW s, DOMAIN s \subseteq Item, PutAll(ids, s), UNCHANGED <<views, totals>>
  PROVE  LibInv'
<1>1. IndexShape' /\ GeoShape' /\ version \in Nat /\ version' \in Nat /\ version < version'
  BY PutAllKeeps DEF LibInv, IndexShape
<1>2. CachesTrue'
  BY <1>1, Overtaken DEF LibInv, CachesTrue
<1> QED BY <1>1, <1>2 DEF LibInv

(* A step of the worker that leaves index and counter alone.                *)
LEMMA ThreadKeeps ==
  ASSUME LibInv, UNCHANGED <<items, version, covered, views, totals>>,
         saved' \in {saved, items}, GeoShape', geo.at # "bump", geo'.at # "bump"
  PROVE  LibInv'
<1>1. IndexShape'
  BY DEF LibInv, IndexShape
<1>2. CachesTrue'
  BY DEF LibInv, CachesTrue
<1> QED BY <1>1, <1>2 DEF LibInv

LEMMA LibInitially == LibInit => LibInv
<1> SUFFICES ASSUME LibInit PROVE LibInv
  OBVIOUS
<1>1. DOMAIN items \subseteq Item
  <2>1. PICK old \in {{}, Item} : items \in
          [old -> [trashed : {FALSE}, hidden : {FALSE}, who : {{}},
                   meta : [place : Place \cup {NoPlace}, manual : {NoPlace},
                           geocoded : {FALSE}, current : BOOLEAN]]]
    BY DEF LibInit
  <2> QED BY <2>1
<1>2. version \in Nat
  BY <1>1, ItemAssumption, FS_Subset, FS_CardinalityType DEF LibInit
<1>3. geo.at = "asleep" /\ covered = items /\ saved = items /\ views = {} /\ totals = <<>>
  BY DEF LibInit, Asleep
<1> QED BY <1>1, <1>2, <1>3
  DEF LibInv, IndexShape, GeoShape, CachesTrue, ViewsTrue, TotalsTrue

(* The view that is served is right for an index that may be read.          *)
LEMMA FoundTrue ==
  ASSUME LibInv, NEW q, NEW entry \in Found(q)
  PROVE  /\ entry[1] = ViewKey(q)
         /\ \E s \in {covered, items} : entry[2] = ViewOf(s, names, q)
<1>1. ViewKey(q) = KeyFor(version, q, names)
  BY DEF ViewKey, KeyFor
<1>2. CASE entry \in views /\ entry[1] = ViewKey(q)
  BY <1>1, <1>2 DEF LibInv, CachesTrue, ViewsTrue
<1>3. CASE entry = <<ViewKey(q), ViewOf(items, names, q)>>
  BY <1>3
<1> QED BY <1>2, <1>3 DEF Found

LEMMA ViewDomain ==
  ASSUME LibInv, NEW q, NEW s \in {covered, items}
  PROVE  DOMAIN ViewOf(s, names, q) \subseteq Item
  BY RestrictedOn DEF LibInv, IndexShape, ViewOf

(* What is cached by the reply is right for the index it was asked of.      *)
LEMMA StoredTrue ==
  ASSUME LibInv, NEW q, NEW entry \in Found(q),
         IF entry \in views THEN UNCHANGED views ELSE views' \in Stored(entry)
  PROVE  ViewsTrue(views', version, {covered, items})
<1> DEFINE S == {covered, items}
<1>1. CASE entry \in views
  BY <1>1 DEF LibInv, CachesTrue
<1>2. CASE entry \notin views
  <2>1. entry = <<ViewKey(q), ViewOf(items, names, q)>>
    BY <1>2 DEF Found
  <2>2. views' \subseteq views \cup {entry}
    BY <1>2 DEF Stored
  <2>3. ASSUME NEW e \in views
        PROVE  /\ e[1][1] \in Nat /\ e[1][1] <= version
               /\ \A r, called : e[1] = KeyFor(version, r, called) =>
                      \E s \in S : e[2] = ViewOf(s, called, r)
    BY <2>3 DEF LibInv, CachesTrue, ViewsTrue
  <2>4. entry[1][1] \in Nat /\ entry[1][1] <= version
    BY <2>1 DEF ViewKey, LibInv, IndexShape
  <2>5. ASSUME NEW r, NEW called, entry[1] = KeyFor(version, r, called)
        PROVE  entry[2] = ViewOf(items, called, r)
    <3>1. r = q /\ ViewKey(q) = KeyFor(version, q, names)
      BY <2>1, <2>5 DEF ViewKey, KeyFor
    <3>2. CASE q.text # NoFilter \/ q.person # NoFilter
      BY <2>1, <2>5, <3>1, <3>2 DEF ViewKey, KeyFor
    <3>3. CASE q.text = NoFilter /\ q.person = NoFilter
      BY <2>1, <3>1, <3>3 DEF ViewOf, Matches, MatchesFilters
    <3> QED BY <3>2, <3>3
  <2> QED BY <2>2, <2>3, <2>4, <2>5 DEF ViewsTrue
<1> QED BY <1>1, <1>2

LEMMA ListKeeps == ASSUME LibInv, NEW q \in Query, List(q) PROVE LibInv'
<1>1. PICK entry \in Found(q) : \E anew \in SUBSET StaleIn(entry[2]) :
        /\ IF entry \in views THEN UNCHANGED views ELSE views' \in Stored(entry)
        /\ IF anew = {} THEN UNCHANGED <<items, version, covered, saved, geo>>
           ELSE PutAll(anew, Updated(items, Restrict(Served(entry[2], anew), anew)))
        /\ UNCHANGED totals
  BY DEF List
<1>2. PICK anew \in SUBSET StaleIn(entry[2]) :
        /\ IF anew = {} THEN UNCHANGED <<items, version, covered, saved, geo>>
           ELSE PutAll(anew, Updated(items, Restrict(Served(entry[2], anew), anew)))
        /\ UNCHANGED totals
  BY <1>1
<1>3. anew \in SUBSET Item
  BY FoundTrue, ViewDomain DEF StaleIn
<1>4. /\ ViewsTrue(views', version, {covered, items})
      /\ TotalsTrue(totals', version, {covered, items})
  BY <1>1, <1>2, StoredTrue DEF LibInv, CachesTrue
<1>5. CASE anew = {}
  BY <1>2, <1>4, <1>5 DEF LibInv, IndexShape, GeoShape, CachesTrue
<1>6. CASE anew # {}
  <2> DEFINE s == Updated(items, Restrict(Served(entry[2], anew), anew))
  <2>0. DOMAIN s = anew \cup DOMAIN items
    <3> DEFINE new == Restrict(Served(entry[2], anew), anew)
    <3>1. DOMAIN new = anew
      BY RestrictedOn
    <3> HIDE DEF new
    <3>2. DOMAIN Updated(items, new) = DOMAIN new \cup DOMAIN items
      BY UpdatedDomain
    <3>3. s = Updated(items, new)
      BY DEF new
    <3> QED BY <3>1, <3>2, <3>3
  <2>1. DOMAIN s \subseteq Item /\ PutAll(anew, s)
    BY <1>2, <1>3, <1>6, <2>0 DEF LibInv, IndexShape
  <2> HIDE DEF s
  <2>2. IndexShape' /\ GeoShape' /\ version \in Nat /\ version' \in Nat /\ version < version'
    BY <1>3, <1>6, <2>1, PutAllKeeps DEF LibInv, IndexShape
  <2>3. CachesTrue'
    BY <1>4, <2>2, Overtaken DEF CachesTrue
  <2> QED BY <2>2, <2>3 DEF LibInv
<1> QED BY <1>5, <1>6

LEMMA TotalsKeeps == ASSUME LibInv, Totals PROVE LibInv'
<1>1. TotalsTrue(totals', version, {covered, items})
  BY DEF Totals, LibInv, IndexShape, CachesTrue, TotalsTrue
<1>2. UNCHANGED <<items, version, covered, saved, geo, views>>
  BY DEF Totals
<1> QED BY <1>1, <1>2 DEF LibInv, IndexShape, GeoShape, CachesTrue
LEMMA TagKeeps ==
  ASSUME LibInv, NEW ids \in SUBSET Item, NEW p, Tag(ids, p) PROVE LibInv'
<1>1. PICK read : PutAll(ids \cap DOMAIN items, Updated(items,
                     [i \in ids \cap DOMAIN items |-> [read[i] EXCEPT !.meta.manual = p]]))
  BY DEF Tag
<1> DEFINE new == [i \in ids \cap DOMAIN items |-> [read[i] EXCEPT !.meta.manual = p]]
           s == Updated(items, new)
<1>2. DOMAIN new = ids \cap DOMAIN items
  OBVIOUS
<1>3. PutAll(ids \cap DOMAIN items, s)
  BY <1>1
<1> HIDE DEF new
<1>4. DOMAIN s \subseteq Item
  BY <1>2, UpdatedDomain DEF LibInv, IndexShape
<1> HIDE DEF s
<1> QED BY <1>3, <1>4, HandlerKeeps DEF Tag, Handler

LEMMA LibKept == LibInv /\ [LibNext]_libVars => LibInv'
<1> SUFFICES ASSUME LibInv, [LibNext]_libVars PROVE LibInv'
  OBVIOUS
<1> USE DEF Handler
<1>1. ASSUME NEW i \in Item, Upload(i) PROVE LibInv'
  <2> DEFINE new == [j \in {i} |-> Record(j)]
  <2>1. DOMAIN new = {i} /\ PutAll({i}, Updated(items, new)) /\ UNCHANGED <<views, totals>>
    BY <1>1 DEF Upload
  <2> HIDE DEF new
  <2>2. DOMAIN Updated(items, new) \subseteq Item
    BY <2>1, UpdatedDomain DEF LibInv, IndexShape
  <2> QED BY <2>1, <2>2, HandlerKeeps
<1>2. ASSUME NEW i \in Item, Trash(i) PROVE LibInv'
  <2>1. DOMAIN [items EXCEPT ![i].trashed = TRUE] \subseteq Item
    BY DEF LibInv, IndexShape
  <2> QED BY <1>2, <2>1, HandlerKeeps DEF Trash
<1>3. ASSUME NEW i \in Item, Purge(i) PROVE LibInv'
  <2>1. DOMAIN Restrict(items, DOMAIN items \ {i}) \subseteq Item
    BY RestrictedOn DEF LibInv, IndexShape
  <2> QED BY <1>3, <2>1, HandlerKeeps DEF Purge
<1>4. ASSUME NEW i \in Item, Untrash(i) PROVE LibInv'
  <2>1. DOMAIN [items EXCEPT ![i].trashed = FALSE] \subseteq Item
    BY DEF LibInv, IndexShape
  <2> QED BY <1>4, <2>1, HandlerKeeps DEF Untrash
<1>5. ASSUME NEW i \in Item, Transform(i) PROVE LibInv'
  <2>1. DOMAIN [items EXCEPT ![i] = Refreshed(i, items[i])] \subseteq Item
    BY DEF LibInv, IndexShape
  <2> QED BY <1>5, <2>1, HandlerKeeps DEF Transform
<1>6. ASSUME NEW i \in Item, NEW b \in BOOLEAN, Hide(i, b) PROVE LibInv'
  <2>1. DOMAIN [items EXCEPT ![i].hidden = b] \subseteq Item
    BY DEF LibInv, IndexShape
  <2> QED BY <1>6, <2>1, HandlerKeeps DEF Hide
<1>7. ASSUME NEW i \in Item, NEW who, SetPeople(i, who) PROVE LibInv'
  <2>1. DOMAIN [items EXCEPT ![i].who = who] \subseteq Item
    BY DEF LibInv, IndexShape
  <2> QED BY <1>7, <2>1, HandlerKeeps DEF SetPeople
<1>8. ASSUME NEW ids \in SUBSET Item, NEW p, Tag(ids, p) PROVE LibInv'
  BY <1>8, TagKeeps
<1>9. ASSUME NEW p, NEW n, NamePerson(p, n) PROVE LibInv'
  BY <1>9 DEF NamePerson, LibInv, IndexShape, GeoShape, CachesTrue
<1>10. ASSUME NEW q \in Query, List(q) PROVE LibInv'
  BY <1>10, ListKeeps
<1>11. CASE Totals
  BY <1>11, TotalsKeeps
<1>12. CASE GeoSweep \/ GeoGet \/ GeoSave
  <2>1. GeoShape' /\ geo.at # "bump" /\ geo'.at # "bump"
    BY <1>12 DEF GeoSweep, GeoGet, GeoSave, Asleep, LibInv, GeoShape
  <2> QED BY <1>12, <2>1, ThreadKeeps DEF GeoSweep, GeoGet, GeoSave, Worker
<1>13. ASSUME NEW i \in Item, GeoRead(i) PROVE LibInv'
  <2>1. GeoShape' /\ geo.at # "bump" /\ geo'.at # "bump"
    <3>1. CASE i \in DOMAIN items
      BY <1>13, <3>1 DEF GeoRead, GeoShape
    <3>2. CASE i \notin DOMAIN items
      BY <1>13, <3>2 DEF GeoRead, LibInv, GeoShape
    <3> QED BY <3>1, <3>2
  <2> QED BY <1>13, <2>1, ThreadKeeps DEF GeoRead, Worker
<1>14. CASE GeoPut
  <2>1. geo.at = "got" /\ geo.item \in Item /\ covered = items
    BY <1>14 DEF GeoPut, LibInv, IndexShape, GeoShape
  <2>2. DOMAIN items' \subseteq Item
    <3> DEFINE new == [i \in {geo.item} |-> [geo.got EXCEPT !.meta = GeoMeta]]
    <3>1. DOMAIN new = {geo.item} /\ items' = Updated(items, new)
      BY <1>14 DEF GeoPut
    <3> HIDE DEF new
    <3> QED BY <2>1, <3>1, UpdatedDomain DEF LibInv, IndexShape
  <2>3. /\ UNCHANGED <<version, saved, covered, views, totals>>
        /\ geo' = [at |-> "bump", todo |-> geo.todo, item |-> geo.item, raced |-> geo.raced]
    BY <1>14 DEF GeoPut, Worker
  <2>4. IndexShape' /\ GeoShape'
    BY <2>1, <2>2, <2>3 DEF LibInv, IndexShape, GeoShape
  <2>5. CachesTrue'
    BY <2>1, <2>3, StillTrue DEF LibInv, CachesTrue
  <2> QED BY <2>4, <2>5 DEF LibInv
<1>15. CASE GeoBump
  <2>1. /\ version \in Nat /\ version' = version + 1 /\ covered' = items
        /\ UNCHANGED <<items, saved, views, totals>> /\ geo'.at = "pick"
    BY <1>15 DEF GeoBump, Worker, LibInv, IndexShape
  <2>2. IndexShape' /\ GeoShape'
    BY <2>1 DEF LibInv, IndexShape, GeoShape
  <2>3. CachesTrue'
    BY <2>1, Overtaken DEF LibInv, CachesTrue
  <2> QED BY <2>2, <2>3 DEF LibInv
<1>16. CASE Restart
  <2>1. version' \in Nat
    BY <1>16, ItemAssumption, FS_Subset, FS_CardinalityType DEF Restart, LibInv, IndexShape
  <2>2. geo'.at = "asleep"
    BY <1>16 DEF Restart, Asleep
  <2>3. IndexShape' /\ GeoShape'
    BY <1>16, <2>1, <2>2 DEF Restart, LibInv, IndexShape, GeoShape
  <2>4. CachesTrue'
    BY <1>16 DEF Restart, CachesTrue, ViewsTrue, TotalsTrue
  <2> QED BY <2>3, <2>4 DEF LibInv
<1>17. CASE UNCHANGED libVars
  BY <1>17 DEF libVars, LibInv, IndexShape, GeoShape, CachesTrue
<1> QED
  BY <1>1, <1>2, <1>3, <1>4, <1>5, <1>6, <1>7, <1>8, <1>9, <1>10, <1>11, <1>12, <1>13,
     <1>14, <1>15, <1>16, <1>17
  DEF LibNext, GeoNext

-----------------------------------------------------------------------------
(* The answers. *)

LEMMA ListAnswers ==
  ASSUME LibInv, NEW q \in Query, List(q) PROVE Promise!AskList(q)
<1>1. PICK entry \in Found(q) : \E anew \in SUBSET StaleIn(entry[2]) :
        /\ IF anew = {} THEN UNCHANGED <<items, version, covered, saved, geo>>
           ELSE PutAll(anew, Updated(items, Restrict(Served(entry[2], anew), anew)))
        /\ reply' = [kind |-> "list", q |-> q, value |-> Served(entry[2], anew)]
        /\ UNCHANGED names
  BY DEF List
<1>2. PICK anew \in SUBSET StaleIn(entry[2]) :
        /\ IF anew = {} THEN UNCHANGED <<items, version, covered, saved, geo>>
           ELSE PutAll(anew, Updated(items, Restrict(Served(entry[2], anew), anew)))
        /\ reply' = [kind |-> "list", q |-> q, value |-> Served(entry[2], anew)]
        /\ UNCHANGED names
  BY <1>1
<1>3. PICK s \in {covered, items} : entry[2] = ViewOf(s, names, q)
  BY FoundTrue
<1> DEFINE served == Served(entry[2], anew)
<1>4. DOMAIN served = Promise!Hits(s, q)
  BY <1>3, RestrictedOn DEF Served, ViewOf, Promise!Hits
<1>5. ASSUME NEW i \in Promise!Hits(s, q) PROVE served[i] \in {s[i], items'[i]}
  <2>1. i \in DOMAIN entry[2] /\ entry[2][i] = s[i]
    BY <1>3, <1>5 DEF ViewOf, Restrict, Promise!Hits
  <2>2. CASE i \notin anew
    BY <2>1, <2>2 DEF Served
  <2>3. CASE i \in anew
    <3>1. items' = Updated(items, Restrict(served, anew))
      BY <1>2, <2>3 DEF PutAll
    <3>2. items'[i] = served[i]
      BY <2>3, <3>1 DEF Updated, Restrict
    <3> QED BY <3>2
  <2> QED BY <2>2, <2>3
<1>6. reply'.kind = "list" /\ reply'.q = q /\ reply'.value = served
  BY <1>2
<1> HIDE DEF served
<1> QED BY <1>2, <1>4, <1>5, <1>6 DEF Promise!AskList

LEMMA TotalsAnswer == ASSUME LibInv, Totals PROVE Promise!AskTotals
<1> DEFINE hit == totals # <<>> /\ totals[1] = version
<1>1. /\ reply' = [kind |-> "totals", value |->
                     WithNames(IF hit THEN totals[2] ELSE StatsOf(items),
                               IF hit THEN totals[3] ELSE CountsOf(items), names)]
      /\ UNCHANGED names
  BY DEF Totals
<1>2. PICK s \in {covered, items} :
        /\ (IF hit THEN totals[2] ELSE StatsOf(items)) = StatsOf(s)
        /\ (IF hit THEN totals[3] ELSE CountsOf(items)) = CountsOf(s)
  BY DEF LibInv, CachesTrue, TotalsTrue
<1>3. reply'.kind = "totals" /\ reply'.value = TotalsOf(s, names)
  BY <1>1, <1>2 DEF TotalsOf
<1> QED BY <1>1, <1>3 DEF Promise!AskTotals

LEMMA StepAnswers ==
  LibInv /\ [LibNext]_libVars => [Promise!ListingNext]_<<covered, items, names, reply>>
<1> SUFFICES ASSUME LibInv, [LibNext]_libVars
             PROVE  Promise!ListingNext \/ UNCHANGED <<covered, items, names, reply>>
  OBVIOUS
<1>1. ASSUME NEW q \in Query, List(q) PROVE Promise!ListingNext
  BY <1>1, ListAnswers DEF Promise!ListingNext
<1>2. CASE Totals
  BY <1>2, TotalsAnswer DEF Promise!ListingNext
<1>3. CASE UNCHANGED libVars
  BY <1>3 DEF libVars
<1>4. CASE reply' = NoReply
  BY <1>4 DEF NoReply, Promise!Write, Promise!ListingNext
<1> QED BY <1>1, <1>2, <1>3, <1>4
  DEF LibNext, GeoNext, Upload, Trash, Purge, Untrash, Transform, Hide, SetPeople, Tag, Handler,
      NamePerson, GeoSweep, GeoGet, GeoPut, GeoBump, GeoSave, GeoRead, Worker, Restart

(* Every answer of the handlers is one that module Listing allows: computed *)
(* from the index and the names as they are when the question is asked, for *)
(* any library, names, filters and cache size, whatever the re-geocode      *)
(* worker has under way (store.py:340-394, 498-607).                        *)
THEOREM LibraryListed == LibSpec => Listed
<1>1. LibInit => Promise!ListingInit
  BY DEF LibInit, NoReply, Promise!ListingInit
<1> QED BY <1>1, LibInitially, LibKept, StepAnswers, PTL
  DEF LibSpec, Listed, Promise!ListingSpec
-----------------------------------------------------------------------------
(* The labels a user typed.  The argument: what the worker holds has the    *)
(* label the item has, unless a handler wrote the item since; and the index *)
(* a view may have been made from differs in labels only where the worker   *)
(* has just written such an item.                                           *)

Label == Place \cup {NoPlace}
MetaType == [place : Label, manual : Label, geocoded : BOOLEAN, current : BOOLEAN]
RecordType == [trashed : BOOLEAN, hidden : BOOLEAN, who : SUBSET Person, meta : MetaType]

RecordsTyped(s) == \A i \in DOMAIN s : s[i] \in RecordType

GeoHolds ==
    /\ geo.at \in {"read", "got"} =>
           /\ geo.meta \in MetaType
           /\ "raced" \in DOMAIN geo
           /\ ~geo.raced /\ geo.item \in DOMAIN items =>
                  items[geo.item].meta.manual = geo.meta.manual
    /\ geo.at = "got" => geo.got \in RecordType

SameLabel(s, t, i) == s[i].meta.manual = t[i].meta.manual

LabelsCovered ==
    \A i \in DOMAIN items \cap DOMAIN covered :
        SameLabel(items, covered, i) \/ (geo.at = "bump" /\ geo.item = i /\ geo.raced)

(* An id that no upload was given is nowhere.                               *)
FreshIds ==
    /\ fresh \cap (DOMAIN items \cup DOMAIN covered \cup DOMAIN saved) = {}
    /\ geo.at \in {"read", "got", "bump"} => geo.item \notin fresh

LabelInv ==
    /\ FreshIds
    /\ RecordsTyped(items) /\ RecordsTyped(covered) /\ RecordsTyped(saved)
    /\ GeoHolds
    /\ LabelsCovered

(* A step leaves a label alone, was the user's, or may be excused.          *)
LabelStep ==
    \A i \in DOMAIN items \cap DOMAIN items' :
        items'[i].meta.manual # items[i].meta.manual =>
            \/ \E ids \in SUBSET Item : i \in ids /\ Tag(ids, items'[i].meta.manual)
            \/ geo.at \in {"got", "bump"} /\ geo.item = i /\ geo.raced
            \/ restarts' # restarts

LEMMA RecordFields ==
  ASSUME NEW r \in RecordType, NEW b \in BOOLEAN, NEW w \in SUBSET Person
  PROVE  /\ [r EXCEPT !.trashed = b] \in RecordType /\ [r EXCEPT !.trashed = b].meta = r.meta
         /\ [r EXCEPT !.hidden = b] \in RecordType /\ [r EXCEPT !.hidden = b].meta = r.meta
         /\ [r EXCEPT !.who = w] \in RecordType /\ [r EXCEPT !.who = w].meta = r.meta
  BY DEF RecordType

LEMMA NewRecord == ASSUME NEW i \in Item PROVE Record(i) \in RecordType
  BY FixAssumption DEF Record, Meta, RecordType, MetaType, Label

LEMMA RefreshedRecord ==
  ASSUME NEW i \in Item, NEW r \in RecordType
  PROVE  Refreshed(i, r) \in RecordType /\ Refreshed(i, r).meta.manual = r.meta.manual
  BY FixAssumption DEF Refreshed, RecordType, MetaType, Label

LEMMA TaggedRecord ==
  ASSUME NEW r \in RecordType, NEW p \in Label
  PROVE  /\ [r EXCEPT !.meta.manual = p] \in RecordType
         /\ [r EXCEPT !.meta.manual = p].meta.manual = p
<1>1. [r.meta EXCEPT !.manual = p] \in MetaType /\ [r.meta EXCEPT !.manual = p].manual = p
  BY DEF RecordType, MetaType
<1> QED BY <1>1 DEF RecordType

LEMMA GeocodedRecord ==
  ASSUME NEW r \in RecordType, NEW m \in MetaType, NEW l \in Label
  PROVE  LET n == [m EXCEPT !.place = l, !.geocoded = TRUE]
         IN  [r EXCEPT !.meta = n] \in RecordType /\ [r EXCEPT !.meta = n].meta.manual = m.manual
<1> DEFINE n == [m EXCEPT !.place = l, !.geocoded = TRUE]
<1>1. n \in MetaType /\ n.manual = m.manual
  BY DEF MetaType
<1> HIDE DEF n
<1>2. [r EXCEPT !.meta = n] \in RecordType /\ [r EXCEPT !.meta = n].meta = n
  BY <1>1 DEF RecordType
<1> QED BY <1>1, <1>2 DEF n
(* A handler writes: what it did not write is as it was, and the worker     *)
(* notes the item it holds if that was written.                             *)
LEMMA PutAllLabels ==
  ASSUME LibInv, LabelInv, NEW ids \in SUBSET Item, NEW s, RecordsTyped(s), PutAll(ids, s),
         \A i \in DOMAIN s \ ids : i \in DOMAIN items /\ s[i] = items[i],
         fresh' \subseteq fresh, ids \cap fresh' = {}
  PROVE  LabelInv'
<1>0. FreshIds'
  <2>1. geo' = geo \/ (geo.at \in {"read", "got"} /\ geo' = [geo EXCEPT !.raced = TRUE])
    BY DEF PutAll
  <2>2. geo.at \in {"read", "got", "bump"} /\ geo' # geo
          => geo'.at = geo.at /\ geo'.item = geo.item
    BY <2>1 DEF LibInv, GeoShape
  <2>3. geo'.at = geo.at
    BY <2>1, <2>2
  <2> QED BY <2>2, <2>3 DEF PutAll, LabelInv, FreshIds
<1>1. RecordsTyped(items)' /\ RecordsTyped(covered)' /\ RecordsTyped(saved)' /\ LabelsCovered'
  BY DEF PutAll, RecordsTyped, LabelsCovered, SameLabel
<1>2. CASE geo' = geo
  <2>1. ASSUME geo.at \in {"read", "got"}, ~geo.raced, geo.item \in DOMAIN items'
        PROVE  items'[geo.item].meta.manual = geo.meta.manual
    <3>1. geo.item \notin ids
      <4>1. geo.item \in ids => geo' = [geo EXCEPT !.raced = TRUE]
        BY <2>1 DEF PutAll
      <4>2. [geo EXCEPT !.raced = TRUE].raced = TRUE
        BY <2>1 DEF LabelInv, GeoHolds, LibInv, GeoShape
      <4> QED BY <1>2, <2>1, <4>1, <4>2
    <3>2. geo.item \in DOMAIN items /\ items'[geo.item] = items[geo.item]
      BY <2>1, <3>1 DEF PutAll
    <3> QED BY <2>1, <3>2 DEF LabelInv, GeoHolds
  <2> QED BY <1>0, <1>1, <1>2, <2>1 DEF LabelInv, GeoHolds
<1>3. CASE geo.at \in {"read", "got"} /\ geo' = [geo EXCEPT !.raced = TRUE]
  <2>1. /\ geo'.at = geo.at /\ geo'.meta = geo.meta /\ geo'.got = geo.got
        /\ geo'.raced = TRUE /\ DOMAIN geo' = DOMAIN geo
    BY <1>3 DEF LabelInv, GeoHolds, LibInv, GeoShape
  <2>2. GeoHolds'
    BY <1>3, <2>1 DEF LabelInv, GeoHolds
  <2> QED BY <1>0, <1>1, <2>2 DEF LabelInv
<1> QED BY <1>2, <1>3 DEF PutAll

(* A handler that changes no label of those it writes.                      *)
LEMMA HandlerLabels ==
  ASSUME LibInv, LabelInv, NEW ids \in SUBSET Item, NEW s, PutAll(ids, s),
         \A i \in DOMAIN s \ ids : i \in DOMAIN items /\ s[i] = items[i],
         fresh' \subseteq fresh, ids \cap fresh' = {},
         \A i \in DOMAIN s \cap ids : s[i] \in RecordType,
         \A i \in DOMAIN s \cap ids \cap DOMAIN items : SameLabel(s, items, i)
  PROVE  LabelInv' /\ LabelStep
<1>1. RecordsTyped(s)
  BY DEF RecordsTyped, LabelInv
<1>2. LabelStep
  BY DEF PutAll, LabelStep, SameLabel
<1> QED BY <1>1, <1>2, PutAllLabels

(* One item written, its record made by a function that keeps the label.    *)
LEMMA OneLabel ==
  ASSUME LibInv, LabelInv, NEW i \in Item, i \in DOMAIN items, NEW r \in RecordType,
         r.meta.manual = items[i].meta.manual, PutAll({i}, [items EXCEPT ![i] = r]),
         UNCHANGED fresh
  PROVE  LabelInv' /\ LabelStep
<1> DEFINE s == [items EXCEPT ![i] = r]
<1>1. DOMAIN s = DOMAIN items /\ s[i] = r /\ \A j \in DOMAIN items \ {i} : s[j] = items[j]
  OBVIOUS
<1>2. PutAll({i}, s) /\ i \notin fresh
  BY DEF LabelInv, FreshIds
<1> HIDE DEF s
<1> QED BY <1>1, <1>2, HandlerLabels DEF SameLabel

LEMMA ListLabels ==
  ASSUME LibInv, LabelInv, NEW q \in Query, List(q) PROVE LabelInv' /\ LabelStep
<1>1. PICK entry \in Found(q) : \E anew \in SUBSET StaleIn(entry[2]) :
        /\ IF anew = {} THEN UNCHANGED <<items, version, covered, saved, geo>>
           ELSE PutAll(anew, Updated(items, Restrict(Served(entry[2], anew), anew)))
        /\ UNCHANGED fresh
  BY DEF List
<1>2. PICK anew \in SUBSET StaleIn(entry[2]) :
        /\ IF anew = {} THEN UNCHANGED <<items, version, covered, saved, geo>>
           ELSE PutAll(anew, Updated(items, Restrict(Served(entry[2], anew), anew)))
        /\ UNCHANGED fresh
  BY <1>1
<1>3. PICK t \in {covered, items} : entry[2] = ViewOf(t, names, q)
  BY FoundTrue
<1>4. anew \in SUBSET Item
  BY FoundTrue, ViewDomain DEF StaleIn
<1>5. CASE anew = {}
  BY <1>2, <1>5 DEF LabelInv, FreshIds, RecordsTyped, GeoHolds, LabelsCovered, SameLabel, LabelStep
<1>6. CASE anew # {}
  <2> DEFINE new == Restrict(Served(entry[2], anew), anew)
             s == Updated(items, new)
  <2>1. ASSUME NEW i \in anew
        PROVE  i \in DOMAIN t /\ new[i] = Refreshed(i, t[i])
    BY <1>3, <2>1 DEF StaleIn, Served, Restrict, ViewOf
  <2>2. DOMAIN new = anew
    BY RestrictedOn
  <2>3. PutAll(anew, s)
    BY <1>2, <1>6
  <2> HIDE DEF new
  <2>4. /\ DOMAIN s = anew \cup DOMAIN items
        /\ \A i \in anew : s[i] = new[i]
        /\ \A i \in DOMAIN items \ anew : s[i] = items[i]
    BY <2>2 DEF Updated
  <2> HIDE DEF s
  <2>5. ASSUME NEW i \in anew
        PROVE  /\ s[i] \in RecordType
               /\ s[i].meta.manual = t[i].meta.manual
    <3>1. t[i] \in RecordType
      BY <1>3, <2>1 DEF LabelInv, RecordsTyped
    <3> QED BY <1>4, <2>1, <2>4, <3>1, RefreshedRecord
  <2>6. RecordsTyped(s)
    BY <2>4, <2>5 DEF LabelInv, RecordsTyped
  <2>7. LabelInv'
    <3>1. anew \cap fresh' = {} /\ fresh' = fresh
      BY <1>2, <1>3, <2>1 DEF LabelInv, FreshIds
    <3> QED BY <1>4, <2>3, <2>4, <2>6, <3>1, PutAllLabels
  <2>8. LabelStep
    <3> SUFFICES ASSUME NEW i \in DOMAIN items \cap DOMAIN items',
                        items'[i].meta.manual # items[i].meta.manual
                 PROVE  geo.at = "bump" /\ geo.item = i /\ geo.raced
      BY DEF LabelStep
    <3>1. i \in anew /\ items'[i] = s[i]
      BY <2>3, <2>4 DEF PutAll
    <3>2. t = covered /\ i \in DOMAIN covered /\ ~SameLabel(items, covered, i)
      BY <2>1, <2>5, <3>1, <1>3 DEF SameLabel
    <3> QED BY <3>2 DEF LabelInv, LabelsCovered
  <2> QED BY <2>7, <2>8
<1> QED BY <1>5, <1>6

LEMMA TagLabels ==
  ASSUME LibInv, LabelInv, NEW ids \in SUBSET Item, NEW p \in Label, Tag(ids, p)
  PROVE  LabelInv' /\ LabelStep
<1> DEFINE known == ids \cap DOMAIN items
<1>1. PICK read :
        /\ \A i \in known : read[i] \in RefreshIfStale(i, items[i])
        /\ PutAll(known, Updated(items, [i \in known |-> [read[i] EXCEPT !.meta.manual = p]]))
  BY DEF Tag
<1> DEFINE new == [i \in known |-> [read[i] EXCEPT !.meta.manual = p]]
           s == Updated(items, new)
<1>2. ASSUME NEW i \in known PROVE new[i] \in RecordType /\ new[i].meta.manual = p
  <2>1. items[i] \in RecordType
    BY DEF LabelInv, RecordsTyped
  <2>2. read[i] \in RecordType
    BY <1>1, <2>1, RefreshedRecord DEF RefreshIfStale
  <2>3. new[i] = [read[i] EXCEPT !.meta.manual = p]
    BY <1>2
  <2> QED BY <2>2, <2>3, TaggedRecord
<1>3. DOMAIN new = known /\ PutAll(known, s)
  BY <1>1
<1> HIDE DEF new
<1>4. /\ DOMAIN s = DOMAIN items
      /\ \A i \in known : s[i] = new[i]
      /\ \A i \in DOMAIN items \ known : s[i] = items[i]
  BY <1>3 DEF Updated
<1> HIDE DEF s
<1>5. LabelInv'
  <2>1. RecordsTyped(s)
    BY <1>2, <1>4 DEF LabelInv, RecordsTyped
  <2>2. known \cap fresh' = {} /\ fresh' = fresh
    BY DEF Tag, Handler, LabelInv, FreshIds
  <2> QED BY <1>3, <1>4, <2>1, <2>2, PutAllLabels
<1>6. LabelStep
  <2> SUFFICES ASSUME NEW i \in DOMAIN items \cap DOMAIN items',
                      items'[i].meta.manual # items[i].meta.manual
               PROVE  i \in ids /\ Tag(ids, items'[i].meta.manual)
    BY DEF LabelStep
  <2>1. i \in known /\ items'[i] = s[i]
    BY <1>3, <1>4 DEF PutAll
  <2>2. items'[i].meta.manual = p
    BY <1>2, <1>4, <2>1
  <2> QED BY <2>1, <2>2
<1> QED BY <1>5, <1>6
LEMMA LabelInitially == LibInit => LabelInv
<1> SUFFICES ASSUME LibInit PROVE LabelInv
  OBVIOUS
<1>1. PICK old \in {{}, Item} : items \in
          [old -> [trashed : {FALSE}, hidden : {FALSE}, who : {{}},
                   meta : [place : Place \cup {NoPlace}, manual : {NoPlace},
                           geocoded : {FALSE}, current : BOOLEAN]]]
  BY DEF LibInit
<1>2. RecordsTyped(items)
  BY <1>1 DEF RecordsTyped, RecordType, MetaType, Label
<1>3. covered = items /\ saved = items /\ geo.at = "asleep" /\ fresh \cap DOMAIN items = {}
  BY DEF LibInit, Asleep
<1> QED BY <1>2, <1>3 DEF LabelInv, FreshIds, GeoHolds, LabelsCovered, SameLabel, RecordsTyped

(* The worker writes: nobody's label but that of the item it holds, if that *)
(* was written since.                                                       *)
LEMMA GeoPutLabels == ASSUME LibInv, LabelInv, GeoPut PROVE LabelInv' /\ LabelStep
<1> DEFINE rec == [geo.got EXCEPT !.meta = GeoMeta]
           new == [i \in {geo.item} |-> rec]
<1>1. /\ geo.at = "got" /\ geo.item \in Item /\ covered = items
      /\ geo.meta \in MetaType /\ geo.got \in RecordType
      /\ geo.item \notin fresh
      /\ ~geo.raced /\ geo.item \in DOMAIN items =>
             items[geo.item].meta.manual = geo.meta.manual
  BY DEF GeoPut, LibInv, IndexShape, GeoShape, LabelInv, GeoHolds, FreshIds
<1>2. rec \in RecordType /\ rec.meta.manual = geo.meta.manual
  BY <1>1, FixAssumption, GeocodedRecord DEF GeoMeta, Label
<1>3. DOMAIN new = {geo.item} /\ new[geo.item] = rec
  OBVIOUS
<1>4. /\ items' = Updated(items, new) /\ UNCHANGED <<saved, covered, fresh>>
      /\ geo' = [at |-> "bump", todo |-> geo.todo, item |-> geo.item, raced |-> geo.raced]
  BY DEF GeoPut, Worker
<1> HIDE DEF new, rec
<1>5. /\ DOMAIN items' = {geo.item} \cup DOMAIN items
      /\ items'[geo.item] = rec
      /\ \A i \in DOMAIN items \ {geo.item} : items'[i] = items[i]
  BY <1>3, <1>4 DEF Updated
<1>6. geo'.at = "bump" /\ geo'.item = geo.item /\ geo'.raced = geo.raced
  BY <1>4
<1>7. RecordsTyped(items)' /\ RecordsTyped(covered)' /\ RecordsTyped(saved)'
  BY <1>2, <1>4, <1>5 DEF RecordsTyped, LabelInv
<1>8. FreshIds' /\ GeoHolds'
  BY <1>1, <1>4, <1>5, <1>6 DEF FreshIds, GeoHolds, LabelInv
<1>9. LabelsCovered' /\ LabelStep
  BY <1>1, <1>2, <1>4, <1>5, <1>6 DEF LabelsCovered, SameLabel, LabelStep
<1> QED BY <1>7, <1>8, <1>9 DEF LabelInv

(* The worker reads.                                                        *)
LEMMA GeoReadLabels ==
  ASSUME LibInv, LabelInv, GeoSweep \/ GeoGet \/ GeoSave \/ \E i \in Item : GeoRead(i)
  PROVE  LabelInv' /\ LabelStep
<1>1. /\ UNCHANGED <<items, covered, fresh>> /\ saved' \in {saved, items}
      /\ geo.at # "bump" /\ geo'.at # "bump" /\ covered = items
  <2>1. CASE GeoSweep \/ GeoGet \/ GeoSave
    BY <2>1 DEF GeoSweep, GeoGet, GeoSave, Worker, Asleep, LibInv, IndexShape
  <2>2. ASSUME NEW i \in Item, GeoRead(i)
        PROVE  /\ UNCHANGED <<items, covered, fresh>> /\ saved' = saved
               /\ geo.at = "pick" /\ geo'.at \in {"pick", "read"}
    <3>1. CASE i \in DOMAIN items
      BY <2>2, <3>1 DEF GeoRead, Worker
    <3>2. CASE i \notin DOMAIN items
      BY <2>2, <3>2 DEF GeoRead, Worker
    <3> QED BY <3>1, <3>2
  <2> QED BY <2>1, <2>2 DEF LibInv, IndexShape
<1>2. FreshIds' /\ GeoHolds'
  <2>1. CASE GeoSweep \/ GeoSave
    <3>1. geo'.at \in {"asleep", "pick"}
      BY <2>1 DEF GeoSweep, GeoSave, Asleep
    <3> QED BY <1>1, <3>1 DEF LabelInv, FreshIds, GeoHolds
  <2>2. CASE GeoGet /\ geo.item \in DOMAIN items
    <3>1. geo' = [at |-> "got", todo |-> geo.todo, item |-> geo.item,
                  meta |-> geo.meta, raced |-> geo.raced, got |-> items[geo.item]]
      BY <2>2 DEF GeoGet
    <3>2. geo.at = "read" /\ items[geo.item] \in RecordType
      BY <2>2 DEF GeoGet, LabelInv, RecordsTyped
    <3> QED BY <1>1, <2>2, <3>1, <3>2 DEF LabelInv, FreshIds, GeoHolds
  <2>3. CASE GeoGet /\ geo.item \notin DOMAIN items
    <3>1. geo'.at = "pick"
      BY <2>3 DEF GeoGet
    <3> QED BY <1>1, <3>1 DEF LabelInv, FreshIds, GeoHolds
  <2>4. ASSUME NEW i \in Item, GeoRead(i), i \in DOMAIN items PROVE FreshIds' /\ GeoHolds'
    <3>1. geo' = [at |-> "read", todo |-> geo.todo \ {i}, item |-> i,
                  meta |-> items[i].meta, raced |-> FALSE]
      BY <2>4 DEF GeoRead
    <3>2. items[i] \in RecordType /\ items[i].meta \in MetaType
      BY <2>4 DEF LabelInv, RecordsTyped, RecordType
    <3> QED BY <1>1, <2>4, <3>1, <3>2 DEF LabelInv, FreshIds, GeoHolds
  <2>5. ASSUME NEW i \in Item, GeoRead(i), i \notin DOMAIN items PROVE FreshIds' /\ GeoHolds'
    <3>1. geo'.at \in {"asleep", "pick"}
      BY <2>5 DEF GeoRead, LibInv, GeoShape
    <3> QED BY <1>1, <3>1 DEF LabelInv, FreshIds, GeoHolds
  <2> QED BY <2>1, <2>2, <2>3, <2>4, <2>5
<1> QED BY <1>1, <1>2 DEF LabelInv, LabelsCovered, LabelStep, SameLabel, RecordsTyped

RestartsCounted == restarts \in Nat

LEMMA RestartsKept == RestartsCounted /\ [LibNext]_libVars => RestartsCounted'
<1> SUFFICES ASSUME RestartsCounted, [LibNext]_libVars
             PROVE  UNCHANGED restarts \/ restarts' = restarts + 1
  BY DEF RestartsCounted
<1> QED
  BY DEF LibNext, libVars, GeoNext, Upload, Trash, Purge, Untrash, Transform, Hide, SetPeople,
         Tag, Handler, NamePerson, List, Totals, GeoSweep, GeoGet, GeoPut, GeoBump, GeoSave,
         GeoRead, Worker, Restart

LEMMA LabelKept ==
  LibInv /\ LabelInv /\ RestartsCounted /\ [LibNext]_libVars
      => LabelInv' /\ [LabelStep]_libVars
<1> SUFFICES ASSUME LibInv, LabelInv, RestartsCounted, [LibNext]_libVars
             PROVE  LabelInv' /\ (LabelStep \/ UNCHANGED libVars)
  OBVIOUS
<1>0. \A i \in DOMAIN items : i \in Item /\ items[i] \in RecordType
  BY DEF LibInv, IndexShape, LabelInv, RecordsTyped
<1>1. ASSUME NEW i \in Item, Upload(i) PROVE LabelInv' /\ LabelStep
  <2> DEFINE new == [j \in {i} |-> Record(j)]
             s == Updated(items, new)
  <2>1. /\ DOMAIN new = {i} /\ new[i] \in RecordType /\ PutAll({i}, s)
        /\ fresh' = fresh \ {i} /\ i \notin DOMAIN items
    BY <1>1, NewRecord DEF Upload, LabelInv, FreshIds
  <2> HIDE DEF new
  <2>2. s[i] = new[i] /\ \A j \in DOMAIN s \ {i} : j \in DOMAIN items /\ s[j] = items[j]
    BY <2>1 DEF Updated
  <2> HIDE DEF s
  <2> QED BY <2>1, <2>2, HandlerLabels
<1>2. ASSUME NEW i \in Item, Trash(i) PROVE LabelInv' /\ LabelStep
  <2> DEFINE rec == [items[i] EXCEPT !.trashed = TRUE]
  <2>1. rec \in RecordType /\ rec.meta.manual = items[i].meta.manual
    BY <1>0, <1>2, RecordFields DEF Trash
  <2> QED BY <1>2, <2>1, OneLabel DEF Trash, Handler
<1>3. ASSUME NEW i \in Item, Purge(i) PROVE LabelInv' /\ LabelStep
  <2> DEFINE s == Restrict(items, DOMAIN items \ {i})
  <2>1. DOMAIN s = DOMAIN items \ {i} /\ \A j \in DOMAIN s : s[j] = items[j]
    BY DEF Restrict
  <2>2. PutAll({i}, s) /\ UNCHANGED fresh /\ i \notin fresh
    BY <1>3 DEF Purge, Handler, LabelInv, FreshIds
  <2> HIDE DEF s
  <2> QED BY <2>1, <2>2, HandlerLabels
<1>4. ASSUME NEW i \in Item, Untrash(i) PROVE LabelInv' /\ LabelStep
  <2> DEFINE rec == [items[i] EXCEPT !.trashed = FALSE]
  <2>1. rec \in RecordType /\ rec.meta.manual = items[i].meta.manual
    BY <1>0, <1>4, RecordFields DEF Untrash
  <2> QED BY <1>4, <2>1, OneLabel DEF Untrash, Handler
<1>5. ASSUME NEW i \in Item, Transform(i) PROVE LabelInv' /\ LabelStep
  <2>1. /\ Refreshed(i, items[i]) \in RecordType
        /\ Refreshed(i, items[i]).meta.manual = items[i].meta.manual
    BY <1>0, <1>5, RefreshedRecord DEF Transform
  <2> QED BY <1>5, <2>1, OneLabel DEF Transform, Handler
<1>6. ASSUME NEW i \in Item, NEW b \in BOOLEAN, Hide(i, b) PROVE LabelInv' /\ LabelStep
  <2> DEFINE rec == [items[i] EXCEPT !.hidden = b]
  <2>1. rec \in RecordType /\ rec.meta.manual = items[i].meta.manual
    BY <1>0, <1>6, RecordFields DEF Hide
  <2> QED BY <1>6, <2>1, OneLabel DEF Hide, Handler
<1>7. ASSUME NEW i \in Item, NEW who \in SUBSET Person, SetPeople(i, who)
      PROVE  LabelInv' /\ LabelStep
  <2> DEFINE rec == [items[i] EXCEPT !.who = who]
  <2>1. rec \in RecordType /\ rec.meta.manual = items[i].meta.manual
    BY <1>0, <1>7, RecordFields DEF SetPeople
  <2> QED BY <1>7, <2>1, OneLabel DEF SetPeople, Handler
<1>8. ASSUME NEW ids \in SUBSET Item, NEW p \in Place \cup {NoPlace}, Tag(ids, p)
      PROVE  LabelInv' /\ LabelStep
  BY <1>8, TagLabels DEF Label
<1>9. ASSUME NEW q \in Query, List(q) PROVE LabelInv' /\ LabelStep
  BY <1>9, ListLabels
<1>10. CASE Totals \/ (\E p \in Person, n \in Name : NamePerson(p, n)) \/ UNCHANGED libVars
  <2>1. UNCHANGED <<items, covered, saved, fresh, geo>>
    BY <1>10 DEF Totals, NamePerson, libVars
  <2> QED BY <2>1 DEF LabelInv, FreshIds, RecordsTyped, GeoHolds, LabelsCovered, SameLabel, LabelStep
<1>11. CASE GeoSweep \/ GeoGet \/ GeoSave \/ \E i \in Item : GeoRead(i)
  BY <1>11, GeoReadLabels
<1>12. CASE GeoPut
  BY <1>12, GeoPutLabels
<1>13. CASE GeoBump
  <2>1. UNCHANGED <<items, saved, fresh>> /\ covered' = items /\ geo'.at = "pick"
    BY <1>13 DEF GeoBump, Worker
  <2> QED BY <2>1 DEF LabelInv, FreshIds, RecordsTyped, GeoHolds, LabelsCovered, SameLabel, LabelStep
<1>14. CASE Restart
  <2>1. /\ items' = saved /\ covered' = saved /\ UNCHANGED <<saved, fresh>>
        /\ geo'.at = "asleep" /\ restarts' # restarts
    BY <1>14 DEF Restart, Asleep, RestartsCounted
  <2> QED BY <2>1 DEF LabelInv, FreshIds, RecordsTyped, GeoHolds, LabelsCovered, SameLabel, LabelStep
<1> QED
  BY <1>1, <1>2, <1>3, <1>4, <1>5, <1>6, <1>7, <1>8, <1>9, <1>10, <1>11, <1>12, <1>13, <1>14
  DEF LibNext, GeoNext

(* What a user typed as a place is changed by nobody but the user, except   *)
(* for an item a handler wrote while the re-geocode worker held it, and by  *)
(* a restart: for any library, labels and number of writes                  *)
(* (regeocode.py:14-16, 51-62).                                             *)
THEOREM LibraryManualKept == LibSpec => ManualKept
<1>1. LibInit => RestartsCounted
  BY DEF LibInit, RestartsCounted
<1>2. LibSpec => [][LabelStep]_libVars
  BY <1>1, LibInitially, LibKept, LabelInitially, RestartsKept, LabelKept, PTL DEF LibSpec
<1> QED BY <1>2 DEF ManualKept, LabelStep
=============================================================================
