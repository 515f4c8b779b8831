----------------------------- MODULE Playlists ------------------------------
(***************************************************************************)
(* Programmed slideshows: the store of ingest/playlists.py, its handlers   *)
(* (api/routes.py, /playlists...) and the dashboard's picker, remembered   *)
(* target and slideshow list (api/web.py).                                 *)
(*                                                                         *)
(* A handler never waits, so it is one action; requests and answers are    *)
(* delivered in any order or lost, another page changes slideshows at any  *)
(* time, a save may fail and the server may restart.                       *)
(*                                                                         *)
(* Abstractions.  The bulk button and the open card share the remembered   *)
(* target; their pickers are one here, opened for what is to be added.     *)
(* Counts and messages are left out.                                       *)
(***************************************************************************)
EXTENDS Naturals, Sequences, FiniteSets, Lists

CONSTANTS
    Title,      \* names of slideshows
    NoTitle,    \* also: a slideshow that does not exist
    Bunch,      \* what a press of "Add to slideshow" adds: sequences of ids
    MaxPosts,   \* bound: requests in flight
    MaxTaps,    \* bound: presses, other pages' requests and restarts
    MaxUnsaved  \* bound: saves that fail

Id == UNION {Elements(ids) : ids \in Bunch}

ASSUME BunchAssumption == Bunch \subseteq Seq(Id)
ASSUME NoTitleAssumption == NoTitle \notin Title /\ NoTitle \notin Seq(Id)

VARIABLES
    lists,      \* PlaylistStore._playlists: [Title -> sequence of ids or NoTitle]
    saved,      \* the same in logs/playlists.json
    panel,      \* [target, picker, bar, shown]: the remembered name, what the
                \* open picker adds and the names it offers, whether the bar is up
    posts,      \* requests in flight, and their answers
    said,       \* history: <<name, id, age>> the page has called added
    age,        \* history: [Title -> number of times its content was cut]
    taps, unsaved

playlistVars == <<lists, saved, panel, posts, said, age, taps, unsaved>>
shopVars == <<lists, saved, age, unsaved>>

Tap == taps < MaxTaps /\ taps' = taps + 1
NoPicker == [adds |-> <<>>, names |-> {}]
Names == {n \in Title : lists[n] # NoTitle}

-----------------------------------------------------------------------------
(* The store and its handlers: each changes the lists and saves them.       *)

(* save_to_disk writes beside the file and moves it there: on an error the  *)
(* file is as it was.  The handler answers as if it had been saved.         *)
SavePlaylists ==
    \/ saved' = lists' /\ UNCHANGED unsaved
    \/ unsaved < MaxUnsaved /\ unsaved' = unsaved + 1 /\ UNCHANGED saved

(* Each is appended when it is not in the list yet. *)
AddItems(n, ids) ==
    /\ lists[n] # NoTitle
    /\ lists' = [lists EXCEPT ![n] = Extended(@, ids)]
    /\ SavePlaylists
    /\ UNCHANGED age

(* A slip of CreatePlaylist: a name in use is taken again.                  *)
CreatePlaylistAnew(n) ==
    /\ lists' = [lists EXCEPT ![n] = <<>>]
    /\ SavePlaylists
    /\ UNCHANGED age

CreatePlaylist(n) ==
    /\ lists[n] = NoTitle
    /\ lists' = [lists EXCEPT ![n] = <<>>]
    /\ SavePlaylists
    /\ UNCHANGED age

DeletePlaylist(n) ==
    /\ lists[n] # NoTitle
    /\ lists' = [lists EXCEPT ![n] = NoTitle]
    /\ age' = [age EXCEPT ![n] = @ + 1]
    /\ SavePlaylists

(* DELETE /playlists/{name}/items/{id} *)
RemoveItem(n, i) ==
    /\ lists[n] # NoTitle
    /\ lists' = [lists EXCEPT ![n] = Without(@, i)]
    /\ age' = [age EXCEPT ![n] = @ + 1]
    /\ SavePlaylists

(* Another page's requests. *)
OtherPage(n) ==
    /\ Tap
    /\ \/ CreatePlaylist(n) \/ DeletePlaylist(n)
       \/ \E i \in Id : RemoveItem(n, i) \/ AddItems(n, <<i>>)
    /\ UNCHANGED <<panel, posts, said>>

(* What was not saved is lost. *)
RestartPlaylists ==
    /\ Tap
    /\ saved # lists
    /\ lists' = saved
    /\ age' = [n \in Title |-> IF unsaved > 0 /\ saved[n] # lists[n] THEN age[n] + 1 ELSE age[n]]
    /\ UNCHANGED <<saved, panel, posts, said, unsaved>>

-----------------------------------------------------------------------------
(* The page. *)

Posted(net, post) == IF Cardinality(net) < MaxPosts THEN net \cup {post} ELSE net

(* kind "add", "create" or "delete" of a name, or "list"; adds = the ids to *)
(* add, in a "create" those its answer adds.                                *)
Post(kind, n, ids) ==
    /\ Cardinality(posts) < MaxPosts
    /\ posts' = posts \cup {[kind |-> kind, name |-> n, adds |-> ids, at |-> "sent"]}

(* "Add to slideshow": straight to the remembered one, or pick. *)
PressAdd(ids) ==
    /\ Tap
    /\ IF panel.target # NoTitle
       THEN Post("add", panel.target, ids) /\ UNCHANGED panel
       ELSE /\ panel' = [panel EXCEPT !.picker = [adds |-> ids, names |-> {}]]
            /\ Post("list", NoTitle, ids)
    /\ UNCHANGED <<shopVars, said>>

(* "Change slideshow" on the bar, which it takes down. *)
PressChange(ids) ==
    /\ Tap
    /\ panel.bar
    /\ panel' = [panel EXCEPT !.bar = FALSE, !.picker = [adds |-> ids, names |-> {}]]
    /\ Post("list", NoTitle, ids)
    /\ UNCHANGED <<shopVars, said>>

PickName(n) ==
    /\ Tap
    /\ n \in panel.picker.names
    /\ Post("add", n, panel.picker.adds)
    /\ UNCHANGED <<shopVars, panel, said>>

(* "Create + add" in the picker; the list's own "create" adds nothing. *)
PressCreate(n, ids) ==
    /\ Tap
    /\ ids \in {<<>>, panel.picker.adds}
    /\ Post("create", n, ids)
    /\ UNCHANGED <<shopVars, panel, said>>

PressDelete(n) ==
    /\ Tap
    /\ n \in panel.shown
    /\ Post("delete", n, <<>>)
    /\ UNCHANGED <<shopVars, panel, said>>

(* Five minutes after the last add; six seconds for the bar. *)
Forget ==
    /\ panel.target # NoTitle
    /\ panel' = [panel EXCEPT !.target = NoTitle]
    /\ UNCHANGED <<shopVars, posts, said, taps>>

HideBar ==
    /\ panel.bar
    /\ panel' = [panel EXCEPT !.bar = FALSE]
    /\ UNCHANGED <<shopVars, posts, said, taps>>

-----------------------------------------------------------------------------
(* Delivery. *)

(* A request reaches its handler; a refused one is answered all the same. *)
Answered(x, ok) ==
    posts' = (posts \ {x}) \cup
        {[kind |-> x.kind, name |-> x.name, adds |-> x.adds, at |-> "back", ok |-> ok,
          names |-> Names, born |-> IF x.name = NoTitle THEN 0 ELSE age[x.name]]}

ServePost(x) ==
    /\ x.at = "sent"
    /\ \/ x.kind = "add" /\ AddItems(x.name, x.adds) /\ Answered(x, TRUE)
       \/ x.kind = "create" /\ CreatePlaylist(x.name) /\ Answered(x, TRUE)
       \/ x.kind = "delete" /\ DeletePlaylist(x.name) /\ Answered(x, TRUE)
       \/ x.kind = "create" /\ lists[x.name] # NoTitle /\ Answered(x, FALSE) /\ UNCHANGED shopVars
       \/ x.kind \in {"add", "delete"} /\ lists[x.name] = NoTitle /\ Answered(x, FALSE)
          /\ UNCHANGED shopVars
       \/ x.kind = "list" /\ Answered(x, TRUE) /\ UNCHANGED shopVars
    /\ UNCHANGED <<panel, said, taps>>

(* The page says so and does nothing else. *)
LosePost(x) ==
    /\ posts' = posts \ {x}
    /\ UNCHANGED <<shopVars, panel, said, taps>>

Reload(net) == Posted(net, [kind |-> "list", name |-> NoTitle, adds |-> <<>>, at |-> "sent"])

(* The answer to an add is not looked at: a slideshow that is gone is       *)
(* called added to and remembered (web.py:4513-4517).                       *)
AddBack(x) ==
    /\ x.kind = "add" /\ x.at = "back"
    /\ panel' = [panel EXCEPT !.target = x.name, !.picker = NoPicker, !.bar = TRUE]
    /\ posts' = Reload(posts \ {x})
    /\ said' = IF x.ok THEN said \cup {<<x.name, i, x.born>> : i \in Elements(x.adds)} ELSE said
    /\ UNCHANGED <<shopVars, taps>>

(* The picker goes on to add, also when the name was taken; the list is     *)
(* loaded again when it was created.                                        *)
CreateBack(x) ==
    /\ x.kind = "create" /\ x.at = "back"
    /\ posts' = IF x.adds # <<>>
                THEN Posted(posts \ {x}, [kind |-> "add", name |-> x.name, adds |-> x.adds, at |-> "sent"])
                ELSE IF x.ok THEN Reload(posts \ {x}) ELSE posts \ {x}
    /\ UNCHANGED <<shopVars, panel, said, taps>>

DeleteBack(x) ==
    /\ x.kind = "delete" /\ x.at = "back"
    /\ posts' = IF x.ok THEN Reload(posts \ {x}) ELSE posts \ {x}
    /\ UNCHANGED <<shopVars, panel, said, taps>>

(* The answer fills the picker that asked, if one for the same photos is    *)
(* open, or the list.                                                       *)
ListBack(x) ==
    /\ x.kind = "list" /\ x.at = "back"
    /\ panel' = IF x.adds = <<>> THEN [panel EXCEPT !.shown = x.names]
               ELSE IF panel.picker.adds = x.adds THEN [panel EXCEPT !.picker.names = x.names]
               ELSE panel
    /\ posts' = posts \ {x}
    /\ UNCHANGED <<shopVars, said, taps>>

-----------------------------------------------------------------------------
PlaylistInit ==
    /\ lists \in [Title -> {NoTitle, <<>>}]
    /\ saved = lists
    /\ panel = [target |-> NoTitle, picker |-> NoPicker, bar |-> FALSE,
                shown |-> {n \in Title : lists[n] # NoTitle}]
    /\ posts = {} /\ said = {} /\ age = [n \in Title |-> 0]
    /\ taps = 0 /\ unsaved = 0

PlaylistNext ==
    \/ \E n \in Title : OtherPage(n) \/ PickName(n) \/ PressDelete(n)
                        \/ \E ids \in Bunch \cup {<<>>} : PressCreate(n, ids)
    \/ RestartPlaylists
    \/ \E ids \in Bunch : PressAdd(ids) \/ PressChange(ids)
    \/ Forget \/ HideBar
    \/ \E x \in posts : ServePost(x) \/ LosePost(x) \/ AddBack(x) \/ CreateBack(x)
                        \/ DeleteBack(x) \/ ListBack(x)

PlaylistSpec == PlaylistInit /\ [][PlaylistNext]_playlistVars

-----------------------------------------------------------------------------
(* A photo the page has called added is in that slideshow, once, until      *)
(* somebody removes it or deletes the slideshow, whatever else was going    *)
(* on: created again under a name in use, added twice, restarted - except   *)
(* that a restart loses what could not be saved (playlists.py:51-63,        *)
(* 75-101).  Answers that refuse the add are not counted.                   *)
AddedStays ==
    \A s \in said : s[3] = age[s[1]] =>
        /\ lists[s[1]] # NoTitle
        /\ Cardinality({k \in DOMAIN lists[s[1]] : lists[s[1]][k] = s[2]}) = 1
=============================================================================
