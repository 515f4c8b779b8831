------------------------------- MODULE Thumbs -------------------------------
(***************************************************************************)
(* The thumbnail cache: the warmer of ingest/thumbs.py, which renders in   *)
(* an executor thread while the handlers run, the thumbnail route, which   *)
(* renders what is missing, and the handlers that drop thumbnails          *)
(* (api/routes.py: transform, permanent delete, single and in bulk).       *)
(*                                                                         *)
(* A handler never waits while it changes anything, so it is one action;   *)
(* the warmer's thread may be preempted after it has read the pixels and   *)
(* while it writes.  A crash may come anywhere.                            *)
(*                                                                         *)
(* Abstractions.  One thumbnail stands for an item's sizes.  A photo's     *)
(* pixels are a revision number.  The order of a sweep is left open.       *)
(* Decoding fails or not for each file, once and for all.  The route's     *)
(* rendering is one step.                                                  *)
(***************************************************************************)
EXTENDS Naturals

CONSTANTS
    Item,
    Broken,     \* the items whose file cannot be decoded
    Absent,     \* no thumbnail
    MaxEdits    \* bound: uploads, edits, deletes, restores and crashes

ASSUME AbsentAssumption == Absent \notin [rev : Nat, whole : BOOLEAN]

VARIABLES
    photo,      \* [Item -> [state, rev]]; state: "new", "live", "trash", "gone"
    thumb,      \* [Item -> Absent or [rev, whole]]
    warmer,     \* [at, todo, item, rev, linked]: what is left of the sweep, what
                \* was read, and whether the file being written is still the
                \* one in the cache
    spoiled,    \* history: items whose thumbnail something went wrong with
    edits

thumbVars == <<photo, thumb, warmer, spoiled, edits>>

Edit == edits < MaxEdits /\ edits' = edits + 1
On(i, at) == warmer.at = at /\ warmer.item = i

-----------------------------------------------------------------------------
(* The warmer. *)

(* missing_thumbs: live items without a file. *)
Listed == {i \in Item : photo[i].state = "live" /\ thumb[i] = Absent}

WarmList ==
    /\ warmer.at = "idle" /\ warmer.todo = {}
    /\ Listed # {}
    /\ warmer' = [warmer EXCEPT !.todo = Listed]
    /\ UNCHANGED <<photo, thumb, spoiled, edits>>

Resting(todo) == [at |-> "idle", todo |-> todo, item |-> Absent, rev |-> 0, linked |-> FALSE]

(* A slip of WarmFails: a failure ends the sweep, which begins again.       *)
WarmFailsAll(i) ==
    /\ warmer.at = "idle" /\ i \in warmer.todo
    /\ photo[i].state # "live" \/ i \in Broken
    /\ warmer' = Resting({})
    /\ UNCHANGED <<photo, thumb, spoiled, edits>>

(* No item, no file under the media root, or nothing to decode: skipped. *)
WarmFails(i) ==
    /\ warmer.at = "idle" /\ i \in warmer.todo
    /\ photo[i].state # "live" \/ i \in Broken
    /\ warmer' = Resting(warmer.todo \ {i})
    /\ UNCHANGED <<photo, thumb, spoiled, edits>>

(* make_thumbnail decodes and scales ... *)
WarmRead(i) ==
    /\ warmer.at = "idle" /\ i \in warmer.todo
    /\ photo[i].state = "live" /\ i \notin Broken
    /\ warmer' = [warmer EXCEPT !.at = "read", !.todo = @ \ {i}, !.item = i,
                                !.rev = photo[i].rev]
    /\ UNCHANGED <<photo, thumb, spoiled, edits>>

(* ... opens the file, which is there from now on ... *)
WarmOpen ==
    /\ warmer.at = "read"
    /\ thumb' = [thumb EXCEPT ![warmer.item] = [rev |-> warmer.rev, whole |-> FALSE]]
    /\ warmer' = [warmer EXCEPT !.at = "write", !.linked = TRUE]
    /\ UNCHANGED <<photo, spoiled, edits>>

(* ... and writes it; if it was dropped meanwhile, into nothing. *)
WarmClose ==
    /\ warmer.at = "write"
    /\ thumb' = IF warmer.linked
                THEN [thumb EXCEPT ![warmer.item] = [rev |-> warmer.rev, whole |-> TRUE]]
                ELSE thumb
    /\ warmer' = Resting(warmer.todo)
    /\ UNCHANGED <<photo, spoiled, edits>>

-----------------------------------------------------------------------------
(* The handlers. *)

(* GET /media/{id}/thumb renders what is not there, also for the bin. *)
ThumbRoute(i) ==
    /\ photo[i].state \in {"live", "trash"}
    /\ thumb[i] = Absent
    /\ i \notin Broken
    /\ thumb' = [thumb EXCEPT ![i] = [rev |-> photo[i].rev, whole |-> TRUE]]
    /\ UNCHANGED <<photo, warmer, spoiled, edits>>

Upload(i) ==
    /\ Edit
    /\ photo[i].state = "new"
    /\ photo' = [photo EXCEPT ![i] = [state |-> "live", rev |-> 1]]
    /\ UNCHANGED <<thumb, warmer, spoiled>>

Bin(i) ==
    /\ Edit
    /\ photo[i].state = "live"
    /\ photo' = [photo EXCEPT ![i].state = "trash"]
    /\ UNCHANGED <<thumb, warmer, spoiled>>

Unbin(i) ==
    /\ Edit
    /\ photo[i].state = "trash"
    /\ photo' = [photo EXCEPT ![i].state = "live"]
    /\ UNCHANGED <<thumb, warmer, spoiled>>

(* The item's thumbnails are unlinked.  What the warmer has read before and *)
(* not opened yet it will still write.                                      *)
DropThumbs(i) ==
    /\ thumb' = [thumb EXCEPT ![i] = Absent]
    /\ warmer' = IF On(i, "write") THEN [warmer EXCEPT !.linked = FALSE] ELSE warmer
    /\ spoiled' = IF On(i, "read") THEN spoiled \cup {i} ELSE spoiled \ {i}

(* A slip of Purge: the thumbnails stay.                                    *)
PurgeKeepsThumbs(i) ==
    /\ Edit
    /\ photo[i].state \in {"live", "trash"}
    /\ photo' = [photo EXCEPT ![i].state = "gone"]
    /\ UNCHANGED <<thumb, warmer, spoiled>>

Purge(i) ==
    /\ Edit
    /\ photo[i].state \in {"live", "trash"}
    /\ photo' = [photo EXCEPT ![i].state = "gone"]
    /\ DropThumbs(i)

(* The file is rewritten and its thumbnails dropped; if the new file's      *)
(* metadata cannot be read the handler ends before it drops them.           *)
Transform(i) ==
    /\ Edit
    /\ photo[i].state = "live" /\ i \notin Broken
    /\ photo' = [photo EXCEPT ![i].rev = @ + 1]
    /\ \/ DropThumbs(i)
       \/ /\ spoiled' = IF thumb[i] # Absent \/ On(i, "read") THEN spoiled \cup {i}
                         ELSE spoiled
          /\ UNCHANGED <<thumb, warmer>>

(* The server dies; a file half written stays. *)
Crash ==
    /\ Edit
    /\ warmer.at # "idle" \/ warmer.todo # {}
    /\ warmer' = Resting({})
    /\ spoiled' = IF warmer.linked THEN spoiled \cup {warmer.item} ELSE spoiled
    /\ UNCHANGED <<photo, thumb>>

-----------------------------------------------------------------------------
ThumbInit ==
    /\ photo = [i \in Item |-> [state |-> "new", rev |-> 0]]
    /\ thumb = [i \in Item |-> Absent]
    /\ warmer = Resting({})
    /\ spoiled = {}
    /\ edits = 0

Warm == WarmList \/ (\E i \in Item : WarmFails(i) \/ WarmRead(i)) \/ WarmOpen \/ WarmClose

ThumbNext ==
    \/ Warm
    \/ \E i \in Item : ThumbRoute(i) \/ Upload(i) \/ Bin(i) \/ Unbin(i) \/ Purge(i)
                       \/ Transform(i)
    \/ Crash

ThumbSpec == ThumbInit /\ [][ThumbNext]_thumbVars

(* The worker is a task of the running server; it sleeps and goes on.       *)
ThumbFairness == WF_thumbVars(Warm)

-----------------------------------------------------------------------------
(* Properties. *)

(* A thumbnail shows its photo as it is, whole, and goes with it, except    *)
(* where an edit or a delete met the warmer between reading and writing, a  *)
(* transform failed half way or the server died on a file (routes.py:885-   *)
(* 890, 963-969; thumbs.py:92-119).                                         *)
ThumbsTrue ==
    \A i \in Item \ spoiled : thumb[i] # Absent =>
        /\ photo[i].state \in {"live", "trash"}
        /\ thumb[i].rev = photo[i].rev
        /\ thumb[i].whole \/ On(i, "write")

(* Once the library is left alone every live photo that can be decoded has  *)
(* its thumbnail, and undecodable files met before it do not stall the      *)
(* sweep (thumbs.py:113-119).                                               *)
WarmsAll ==
    <>[](\A i \in Item \ Broken : photo[i].state = "live" => thumb[i] # Absent)
=============================================================================
