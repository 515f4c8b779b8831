------------------------------ MODULE DashGrid ------------------------------
(***************************************************************************)
(* The dashboard's browse grid (the script in api/web.py, from "Browse /   *)
(* search grid" to "Bulk actions"): the search boxes with their debounce   *)
(* timers, the pager, the tiles on screen, the selection and the bulk      *)
(* actions, and the requests the page has in flight.                       *)
(*                                                                         *)
(* The script runs to completion between events, so one event handler or   *)
(* one reply's callback is one action.  Requests are answered by the       *)
(* server (Serve) and their answers arrive (a Deliver action) in any       *)
(* order; a request may fail at any time.  Other pages change the library  *)
(* meanwhile (Elsewhere).                                                  *)
(*                                                                         *)
(* Abstractions.  The library answers GET /media with a slice of the live  *)
(* items that match the query, in one fixed order (what the server's view  *)
(* holds is the subject of module Library).  Two boxes stand for the four: *)
(* the free-text box captures its value when it is typed in, the time,     *)
(* place and person boxes read theirs when the timer fires.  A tile is the *)
(* mark it bears.  Thumbnails, the prefetch, toasts and scrolling are left *)
(* out: they change nothing a handler reads.                               *)
(***************************************************************************)
EXTENDS Naturals, Sequences, FiniteSets, SequencesExt, Lists

CONSTANTS
    Photo,      \* the library's items
    Order,      \* those items, most recent first
    Term,       \* what can be typed into a box; NoTerm is the empty box
    NoTerm,
    Matches,    \* [Term -> SUBSET Photo]
    PageSize,   \* PAGE_SIZE
    MaxClicks   \* bound: events from the user and changes by others

ASSUME OrderAssumption == Order \in Seq(Photo)
ASSUME TermAssumption == NoTerm \in Term /\ Matches[NoTerm] = Photo
ASSUME PageSizeAssumption == PageSize \in Nat \ {0}

VARIABLES
    live,       \* the server's items that are neither trashed nor gone
    gridNet,    \* requests in flight, in the order they were sent
    search,     \* the free-text box: [text, armed]; armed = the captured value
    time,       \* a filter box: [text, armed]; armed = its timer is running
    query,      \* state.q and state.qTime
    page,       \* state.page
    listing,    \* state.items, total, hasNext, and what they answered
    screen,     \* what the grid shows: "skeleton", "error" or "photos"
    tiles,      \* tileById: the marks of the tiles, by item
    gridSeq,    \* the number of the newest grid request
    outcome,    \* how the newest load stands: "busy", "ok" or "failed"
    selecting,  \* state.selectMode
    selected,   \* state.selected
    clicks

gridVars == <<live, gridNet, search, time, query, page, listing, screen, tiles, gridSeq,
              outcome, selecting, selected, clicks>>

Unarmed == "unarmed"
BulkOps == {"trash", "purge", "tag"}
NoQuery == [search |-> NoTerm, time |-> NoTerm]
NoReply == [items |-> <<>>, total |-> 0, hasNext |-> FALSE]

GridRequest(n, q, p) == [kind |-> "grid", seq |-> n, query |-> q, page |-> p, ids |-> {},
                         at |-> "sent", reply |-> NoReply]
BulkRequest(op, ids) == [kind |-> op, seq |-> 0, query |-> NoQuery, page |-> 1, ids |-> ids,
                         at |-> "sent", reply |-> NoReply]

Ceiling(n, d) == (n + d - 1) \div d
AtLeastOne(n) == IF n > 1 THEN n ELSE 1

(* GET /media: one page of the live items that match both boxes. *)
Answer(q, p) ==
    LET hits == Only(Order, live \cap Matches[q.search] \cap Matches[q.time])
        from == (p - 1) * PageSize
        size == IF Len(hits) > from + PageSize THEN from + PageSize ELSE Len(hits)
    IN  [items |-> SubSeq(hits, from + 1, size), total |-> Len(hits),
         hasNext |-> Len(hits) > from + PageSize]

-----------------------------------------------------------------------------
(* Loading and painting. *)

(* loadGrid for query q and page p, with the requests the handler sent      *)
(* before it: a skeleton at once, the request under the next number.        *)
LoadGridAfter(net, q, p) ==
    /\ gridSeq' = gridSeq + 1
    /\ screen' = "skeleton"
    /\ tiles' = <<>>
    /\ outcome' = "busy"
    /\ gridNet' = Append(net, GridRequest(gridSeq + 1, q, p))

LoadGrid(q, p) == LoadGridAfter(gridNet, q, p)

(* renderGrid: a tile for every item of the listing, marked if selected.    *)
Painted(items, chosen) == [i \in ToSet(items) |-> i \in chosen]

(* repaintAllSelections: the tiles that are there get the marks of chosen.  *)
Repainted(chosen) ==
    [i \in DOMAIN tiles |-> i \in chosen]

User == clicks < MaxClicks /\ clicks' = clicks + 1

-----------------------------------------------------------------------------
(* Boxes and filters. *)

(* Typing starts, or starts again, the box's 350 ms timer. *)
TypeSearch(t) ==
    /\ User
    /\ search' = [text |-> t, armed |-> t]
    /\ UNCHANGED <<live, gridNet, time, query, page, listing, screen, tiles, gridSeq,
                   outcome, selecting, selected>>

TypeTime(t) ==
    /\ User
    /\ time' = [text |-> t, armed |-> TRUE]
    /\ UNCHANGED <<live, gridNet, search, query, page, listing, screen, tiles, gridSeq,
                   outcome, selecting, selected>>

(* The free-text timer fires with the value captured when it was set. *)
SearchFires ==
    /\ search.armed # Unarmed
    /\ search' = [search EXCEPT !.armed = Unarmed]
    /\ query' = [query EXCEPT !.search = search.armed]
    /\ page' = 1
    /\ LoadGrid(query', 1)
    /\ UNCHANGED <<live, time, listing, selecting, selected, clicks>>

(* A filter box's timer fires and reads the box as it is now. *)
TimeFires ==
    /\ time.armed
    /\ time' = [time EXCEPT !.armed = FALSE]
    /\ query' = [query EXCEPT !.time = time.text]
    /\ page' = 1
    /\ LoadGrid(query', 1)
    /\ UNCHANGED <<live, search, listing, selecting, selected, clicks>>

(* A leaf of the time or place tree, a person's chip, or a box's clear      *)
(* button: box and query change together; a running timer keeps running.    *)
SetTime(t) ==
    /\ User
    /\ time' = [time EXCEPT !.text = t]
    /\ query' = [query EXCEPT !.time = t]
    /\ page' = 1
    /\ LoadGrid(query', 1)
    /\ UNCHANGED <<live, search, listing, selecting, selected>>

ClearAllFilters ==
    /\ User
    /\ time' = [time EXCEPT !.text = NoTerm]
    /\ search' = [search EXCEPT !.text = NoTerm]
    /\ query' = NoQuery
    /\ page' = 1
    /\ LoadGrid(query', 1)
    /\ UNCHANGED <<live, listing, selecting, selected>>

-----------------------------------------------------------------------------
(* The pager: guarded by what the last answer said, clamped on a jump. *)

Turn(p) ==
    /\ page' = p
    /\ LoadGrid(query, p)
    /\ UNCHANGED <<live, search, time, query, listing, selecting, selected>>

PagePrev == User /\ page > 1 /\ Turn(page - 1)
PageNext == User /\ listing.hasNext /\ Turn(page + 1)

(* "Go to page" with a number past the end lands on the last page. *)
JumpToLast == User /\ Turn(AtLeastOne(Ceiling(listing.total, PageSize)))

(* The refresh button, the end of an upload batch and the item card's       *)
(* replies: loadGrid as it stands.                                          *)
RefreshGrid == User /\ Turn(page)

-----------------------------------------------------------------------------
(* Selecting. *)

(* What a change of the selection alone leaves alone. *)
SelectionOnly == UNCHANGED <<live, gridNet, search, time, query, page, listing,
                             gridSeq, outcome>>

(* A slip of ToggleSelectMode: the marks are left standing.                 *)
ToggleSelectModeNoRepaint ==
    /\ User
    /\ selecting' = ~selecting
    /\ selected' = IF selecting THEN {} ELSE selected
    /\ SelectionOnly /\ UNCHANGED <<screen, tiles>>

ToggleSelectMode ==
    /\ User
    /\ selecting' = ~selecting
    /\ selected' = IF selecting THEN {} ELSE selected
    /\ tiles' = Repainted(selected')
    /\ SelectionOnly /\ UNCHANGED screen

(* A tap on a tile in select mode. *)
ToggleItemSelected(i) ==
    /\ User
    /\ selecting
    /\ i \in DOMAIN tiles
    /\ selected' = IF i \in selected THEN selected \ {i} ELSE selected \cup {i}
    /\ tiles' = [tiles EXCEPT ![i] = i \in selected']
    /\ SelectionOnly /\ UNCHANGED <<screen, selecting>>

(* "Select all on page" takes state.items, the last page that arrived.      *)
BulkSelectAll ==
    /\ User
    /\ selecting
    /\ selected' = selected \cup ToSet(listing.items)
    /\ tiles' = Repainted(selected')
    /\ SelectionOnly /\ UNCHANGED <<screen, selecting>>

BulkClear ==
    /\ User
    /\ selecting
    /\ selected' = {}
    /\ tiles' = Repainted({})
    /\ SelectionOnly /\ UNCHANGED <<screen, selecting>>

(* A long press that began on a tile of the last listing: select mode, the  *)
(* tile chosen, and the whole grid rendered anew from state.items.          *)
LongPress(i) ==
    /\ User
    /\ i \in ToSet(listing.items)
    /\ selecting' = TRUE
    /\ selected' = selected \cup {i}
    /\ screen' = "photos"
    /\ tiles' = Painted(listing.items, selected')
    /\ SelectionOnly

(* The bulk buttons send the selection as it is at the click. *)
Bulk(op) ==
    /\ User
    /\ selecting
    /\ selected # {}
    /\ gridNet' = Append(gridNet, BulkRequest(op, selected))
    /\ UNCHANGED <<live, search, time, query, page, listing, screen, tiles, gridSeq,
                   outcome, selecting, selected>>

-----------------------------------------------------------------------------
(* The server, the network and the other pages. *)

(* The server answers request k: the bulk deletes take effect then.  A      *)
(* refusal with a JSON body, by the server or by what stands before it, is  *)
(* an answer like any other: loadGrid and the bulk deletes do not look at   *)
(* r.ok, and find no items and nothing deleted in it.                       *)
Serve(k) ==
    LET r == gridNet[k]
    IN  /\ r.at = "sent"
        /\ \E good \in BOOLEAN :
             /\ gridNet' = [gridNet EXCEPT ![k] =
                   [r EXCEPT !.at = "answered",
                             !.reply = IF good /\ r.kind = "grid" THEN Answer(r.query, r.page)
                                       ELSE NoReply]]
             /\ live' = IF good /\ r.kind \in {"trash", "purge"} THEN live \ r.ids ELSE live
        /\ UNCHANGED <<search, time, query, page, listing, screen, tiles, gridSeq, outcome,
                       selecting, selected, clicks>>

(* A request is lost on the way or its answer cannot be read. *)
LoseGrid(k) ==
    /\ gridNet[k].at # "failed"
    /\ gridNet' = [gridNet EXCEPT ![k].at = "failed"]
    /\ UNCHANGED <<live, search, time, query, page, listing, screen, tiles, gridSeq, outcome,
                   selecting, selected, clicks>>

Elsewhere(i) ==
    /\ User
    /\ live' = IF i \in live THEN live \ {i} ELSE live \cup {i}
    /\ UNCHANGED <<gridNet, search, time, query, page, listing, screen, tiles, gridSeq,
                   outcome, selecting, selected>>

(* What the page keeps of an answer, and of which question it is.           *)
Shown(r) == [items |-> r.reply.items, total |-> r.reply.total, hasNext |-> r.reply.hasNext,
             of |-> <<r.query, r.page>>]

(* A slip of DeliverGrid: every answer paints.                              *)
DeliverGridAnyOrder(k) ==
    LET r == gridNet[k]
    IN  /\ r.kind = "grid" /\ r.at = "answered"
        /\ gridNet' = RemoveAt(gridNet, k)
        /\ listing' = Shown(r)
        /\ screen' = "photos"
        /\ tiles' = Painted(r.reply.items, selected)
        /\ outcome' = "ok"
        /\ UNCHANGED <<live, search, time, query, page, gridSeq, selecting, selected,
                       clicks>>

(* An answer to a grid request: only the newest request may paint. *)
DeliverGrid(k) ==
    LET r == gridNet[k]
    IN  /\ r.kind = "grid" /\ r.at = "answered"
        /\ gridNet' = RemoveAt(gridNet, k)
        /\ IF r.seq = gridSeq
           THEN /\ listing' = Shown(r)
                /\ screen' = "photos"
                /\ tiles' = Painted(r.reply.items, selected)
                /\ outcome' = "ok"
           ELSE UNCHANGED <<listing, screen, tiles, outcome>>
        /\ UNCHANGED <<live, search, time, query, page, gridSeq, selecting, selected,
                       clicks>>

GridFails(k) ==
    LET r == gridNet[k]
    IN  /\ r.kind = "grid" /\ r.at = "failed"
        /\ gridNet' = RemoveAt(gridNet, k)
        /\ IF r.seq = gridSeq
           THEN screen' = "error" /\ outcome' = "failed"
           ELSE UNCHANGED <<screen, outcome>>
        /\ UNCHANGED <<live, search, time, query, page, listing, tiles, gridSeq, selecting,
                       selected, clicks>>

(* The answer to a bulk action: a delete clears the selection, whatever it  *)
(* has become, then the grid is loaded; a failed one changes nothing.       *)
DeliverBulk(k) ==
    LET r == gridNet[k]
    IN  /\ r.kind \in BulkOps /\ r.at = "answered"
        /\ selected' = IF r.kind = "tag" THEN selected ELSE {}
        /\ LoadGridAfter(RemoveAt(gridNet, k), query, page)
        /\ UNCHANGED <<live, search, time, query, page, listing, selecting, clicks>>

BulkFails(k) ==
    LET r == gridNet[k]
    IN  /\ r.kind \in BulkOps /\ r.at = "failed"
        /\ gridNet' = RemoveAt(gridNet, k)
        /\ UNCHANGED <<live, search, time, query, page, listing, screen, tiles, gridSeq,
                       outcome, selecting, selected, clicks>>

-----------------------------------------------------------------------------
(* The page has just been opened: loadGrid() at the end of the script. *)
GridInit ==
    /\ live = Photo
    /\ search = [text |-> NoTerm, armed |-> Unarmed]
    /\ time = [text |-> NoTerm, armed |-> FALSE]
    /\ query = NoQuery
    /\ page = 1
    /\ listing = [items |-> <<>>, total |-> 0, hasNext |-> FALSE, of |-> <<>>]
    /\ screen = "skeleton"
    /\ tiles = <<>>
    /\ gridSeq = 1
    /\ outcome = "busy"
    /\ gridNet = <<GridRequest(1, query, 1)>>
    /\ selecting = FALSE
    /\ selected = {}
    /\ clicks = 0

Arrival(k) == DeliverGrid(k) \/ GridFails(k) \/ DeliverBulk(k) \/ BulkFails(k)

GridNext ==
    \/ \E t \in Term : TypeSearch(t) \/ TypeTime(t) \/ SetTime(t)
    \/ SearchFires \/ TimeFires \/ ClearAllFilters
    \/ PagePrev \/ PageNext \/ JumpToLast \/ RefreshGrid
    \/ ToggleSelectMode \/ BulkSelectAll \/ BulkClear
    \/ \E i \in Photo : ToggleItemSelected(i) \/ LongPress(i) \/ Elsewhere(i)
    \/ \E op \in BulkOps : Bulk(op)
    \/ \E k \in DOMAIN gridNet : Serve(k) \/ LoseGrid(k) \/ Arrival(k)

GridSpec == GridInit /\ [][GridNext]_gridVars

-----------------------------------------------------------------------------
(* Properties. *)

(* Once the newest load has been answered, what is listed is the answer to  *)
(* the query and the page the user is on (no photos, if it was a refusal),  *)
(* whatever order the answers of earlier pages, searches and bulk actions   *)
(* came in; and the spinner runs exactly as long as that newest load is in  *)
(* flight (web.py:3576-3583, "Only the newest request may paint").          *)
GridShowsNewest ==
    /\ outcome = "ok" => listing.of = <<query, page>>
    /\ outcome = "busy" <=> \E k \in DOMAIN gridNet :
                                gridNet[k].kind = "grid" /\ gridNet[k].seq = gridSeq

(* A tile bears the mark of its item's place in the selection, although     *)
(* most changes of the selection repaint no tile or only one                *)
(* (web.py:3359-3371), so what the bulk bar will delete is what is marked.  *)
MarksTellSelection ==
    \A i \in DOMAIN tiles : tiles[i] <=> i \in selected
=============================================================================
