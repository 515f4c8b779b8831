------------------------------ MODULE DashCard ------------------------------
(***************************************************************************)
(* The dashboard's two dialogs (the script in api/web.py): the item card   *)
(* with its picture, tags, rotations and deletes, and the review of one    *)
(* person's faces, over which the card may lie.  Every button answers to   *)
(* modalItem or reviewPerson as they are when it is pressed; every reply   *)
(* changes them whenever it comes.                                         *)
(*                                                                         *)
(* One event handler or reply callback is one action.  Replies arrive in   *)
(* any order, a request may fail.  A callback that dereferences null stops *)
(* there and runs the promise's catch.                                     *)
(*                                                                         *)
(* Abstractions.  A photo's record is its id: the title with the details,  *)
(* the inputs of the tags and the picture each are the id of the photo     *)
(* they were filled in from.  What the user types over the inputs, videos, *)
(* the suggestions, the lists that are loaded afterwards and the zoom are  *)
(* left out.                                                               *)
(***************************************************************************)
EXTENDS Naturals, FiniteSets

CONSTANTS
    Shot,       \* the photos
    Face,       \* the people under review
    Nothing,    \* null
    Ghost,      \* the answer {"detail": ...} taken for an item
    MaxPresses  \* bound: what the user does

ASSUME NothingAssumption == Nothing \notin Face

VARIABLES
    kept,       \* the photos the server has, not in the bin
    cardNet,    \* requests in flight; sent carries the number of the press
    card,       \* [shown, item, image, title, fields]: the backdrop, modalItem,
                \* modalImg.src, modalTitle with the details, the tags' inputs;
                \* opened and alone are history: the photo the user opened
                \* the card on, and that no reply of an earlier card was then due
    held,       \* the buttons disabled while their request is in flight
    review,     \* [shown, person, rows]: the backdrop, reviewPerson, the grid
    presses

cardVars == <<kept, cardNet, card, held, review, presses>>

Press == presses < MaxPresses /\ presses' = presses + 1

Sent(kind, on) == [kind |-> kind, on |-> on, n |-> presses, at |-> "sent"]

CardKinds == {"info", "tag", "turn", "remove"}

(* openModal: the backdrop, no picture, "Loading..." for a title; modalItem *)
(* and the inputs stay what they were until the details come.               *)
Opened ==
    [card EXCEPT !.shown = TRUE, !.image = Nothing, !.title = Nothing]

(* Nothing is left of earlier cards: no item, and no reply due.             *)
Fresh == card.item = Nothing /\ \A r \in cardNet : r.kind \notin CardKinds

(* openReview: person, dialog and a request for the rows.                   *)
Reviewed(p) == [shown |-> TRUE, person |-> p, rows |-> Nothing]

-----------------------------------------------------------------------------
(* The user. *)

(* A tile of the grid, the photo now showing, "Photo options" in a review. *)
OpenModal(i) ==
    /\ Press
    /\ card' = [Opened EXCEPT !.opened = i, !.alone = Fresh]
    /\ cardNet' = cardNet \cup {Sent("info", i)}
    /\ UNCHANGED <<kept, held, review>>

(* Closing the card renders the review below it anew. *)
CloseModal ==
    /\ Press
    /\ card.shown
    /\ card' = [card EXCEPT !.shown = FALSE, !.item = Nothing]
    /\ IF review.person = Nothing THEN UNCHANGED <<review, cardNet>>
       ELSE /\ review' = Reviewed(review.person)
            /\ cardNet' = cardNet \cup {Sent("rows", review.person)}
    /\ UNCHANGED <<kept, held>>

(* The card's buttons: tag, clear tag, rotate or flip, delete. *)
Act(kind) ==
    /\ Press
    /\ card.shown
    /\ kind \notin held
    /\ card.item # Nothing
    /\ held' = IF kind = "remove" THEN held ELSE held \cup {kind}
    /\ cardNet' = cardNet \cup {Sent(kind, card.item)}
    /\ UNCHANGED <<kept, card, review>>

OpenReview(p) ==
    /\ Press
    /\ ~card.shown /\ ~review.shown
    /\ review' = Reviewed(p)
    /\ cardNet' = cardNet \cup {Sent("rows", p)}
    /\ UNCHANGED <<kept, card, held>>

CloseReview ==
    /\ Press
    /\ review.shown
    /\ review' = [review EXCEPT !.shown = FALSE, !.person = Nothing]
    /\ UNCHANGED <<kept, cardNet, card, held>>

(* "Not this person" and "Delete photo" on one of the rows, "Merge into"    *)
(* and the name; DeletePerson is a button of the person's own card.         *)
ReviewAct(kind) ==
    /\ Press
    /\ review.shown
    /\ kind \in {"detach", "discard"} => review.rows # Nothing
    /\ \E i \in Shot :
         cardNet' = cardNet \cup {Sent(kind, IF kind = "discard" THEN i ELSE review.person)}
    /\ UNCHANGED <<kept, card, held, review>>

DeletePerson(p) ==
    /\ Press
    /\ ~card.shown /\ ~review.shown
    /\ cardNet' = cardNet \cup {Sent("forget", p)}
    /\ UNCHANGED <<kept, card, held, review>>

-----------------------------------------------------------------------------
(* The server answers; a photo that is gone, or in the bin, is not found by *)
(* a rotation, one that is gone by nothing.                                 *)
ServeCard(r) ==
    /\ r.at = "sent"
    /\ \E good \in BOOLEAN :
         /\ r.kind \in {"tag", "turn"} => (good <=> r.on \in kept)
         /\ r.kind = "info" => good \/ r.on \notin kept
         /\ r.on = Ghost => ~good
         /\ cardNet' = (cardNet \ {r}) \cup {[r EXCEPT !.at = IF good THEN "ok" ELSE "refused"]}
         /\ kept' = IF good /\ r.kind \in {"remove", "discard"} THEN kept \ {r.on} ELSE kept
    /\ UNCHANGED <<card, held, review, presses>>

LoseCard(r) ==
    /\ r.at \in {"sent", "ok", "refused"}
    /\ cardNet' = (cardNet \ {r}) \cup {[r EXCEPT !.at = "lost"]}
    /\ UNCHANGED <<kept, card, held, review, presses>>

-----------------------------------------------------------------------------
(* The replies. *)

(* The details: whichever came last is the card's item, picture, title and  *)
(* inputs, open or not; a 404's body is taken for a photo too.              *)
InfoArrives(r) ==
    /\ r.kind = "info"
    /\ cardNet' = cardNet \ {r}
    /\ card' = IF r.at = "lost" THEN card
               ELSE LET item == IF r.at = "ok" THEN r.on ELSE Ghost
                    IN  [card EXCEPT !.item = item, !.image = item,
                                     !.title = item, !.fields = item]
    /\ UNCHANGED <<kept, held, review, presses>>

(* Saved tags: the item is taken over and the card opened anew on it.       *)
TagArrives(r) ==
    /\ r.kind = "tag"
    /\ held' = held \ {"tag"}
    /\ IF r.at = "ok"
       THEN /\ card' = [Opened EXCEPT !.item = r.on]
            /\ cardNet' = (cardNet \ {r}) \cup {Sent("info", r.on)}
       ELSE UNCHANGED card /\ cardNet' = cardNet \ {r}
    /\ UNCHANGED <<kept, review, presses>>

(* A slip of TurnArrives: only the picture changes.                         *)
TurnArrivesImageOnly(r) ==
    /\ r.kind = "turn"
    /\ held' = held \ {"turn"}
    /\ card' = IF r.at = "ok" THEN [card EXCEPT !.image = r.on] ELSE card
    /\ cardNet' = cardNet \ {r}
    /\ UNCHANGED <<kept, review, presses>>

(* doTransform: picture and item of the photo that was turned; title and    *)
(* inputs stay those of the card that is open by now.                       *)
TurnArrives(r) ==
    /\ r.kind = "turn"
    /\ held' = held \ {"turn"}
    /\ card' = IF r.at = "ok" THEN [card EXCEPT !.item = r.on, !.image = r.on] ELSE card
    /\ cardNet' = cardNet \ {r}
    /\ UNCHANGED <<kept, review, presses>>

(* A delete closes the card, whatever it shows by now; if the card has been *)
(* closed the toast's text is read off null and the rest does not happen.   *)
RemoveArrives(r) ==
    /\ r.kind = "remove"
    /\ IF r.at = "ok" /\ card.item # Nothing
       THEN /\ card' = [card EXCEPT !.shown = FALSE, !.item = Nothing]
            /\ IF review.person = Nothing
               THEN UNCHANGED review /\ cardNet' = cardNet \ {r}
               ELSE /\ review' = Reviewed(review.person)
                    /\ cardNet' = (cardNet \ {r}) \cup {Sent("rows", review.person)}
       ELSE UNCHANGED <<card, review>> /\ cardNet' = cardNet \ {r}
    /\ UNCHANGED <<kept, held, presses>>

(* The rows, under whatever title the review has by now. *)
RowsArrive(r) ==
    /\ r.kind = "rows"
    /\ cardNet' = cardNet \ {r}
    /\ review' = [review EXCEPT !.rows = IF r.at = "ok" THEN r.on ELSE Nothing]
    /\ UNCHANGED <<kept, card, held, presses>>

(* A face detached or a photo deleted: openReview on the person under       *)
(* review; if the review was closed, its title is read off null.            *)
RowChanged(r) ==
    /\ r.kind \in {"detach", "discard"}
    /\ IF r.at = "ok" /\ review.person # Nothing
       THEN /\ review' = Reviewed(review.person)
            /\ cardNet' = (cardNet \ {r}) \cup {Sent("rows", review.person)}
       ELSE UNCHANGED review /\ cardNet' = cardNet \ {r}
    /\ UNCHANGED <<kept, card, held, presses>>

(* A merge closes the review; a deleted person's only if it is theirs.      *)
PersonGone(r) ==
    /\ r.kind \in {"merge", "forget"}
    /\ cardNet' = cardNet \ {r}
    /\ review' = IF r.at = "ok" /\ (r.kind = "merge" \/ review.person = r.on)
                 THEN [review EXCEPT !.shown = FALSE, !.person = Nothing] ELSE review
    /\ UNCHANGED <<kept, card, held, presses>>

-----------------------------------------------------------------------------
CardInit ==
    /\ kept = Shot
    /\ cardNet = {}
    /\ card = [shown |-> FALSE, item |-> Nothing, image |-> Nothing, title |-> Nothing,
               fields |-> Nothing, opened |-> Nothing, alone |-> FALSE]
    /\ held = {}
    /\ review = [shown |-> FALSE, person |-> Nothing, rows |-> Nothing]
    /\ presses = 0

CardReply(r) ==
    r.at # "sent" /\ (InfoArrives(r) \/ TagArrives(r) \/ TurnArrives(r) \/ RemoveArrives(r)
                      \/ RowsArrive(r) \/ RowChanged(r) \/ PersonGone(r))

CardNext ==
    \/ \E i \in Shot : OpenModal(i)
    \/ \E p \in Face : OpenReview(p) \/ DeletePerson(p)
    \/ CloseModal \/ CloseReview
    \/ \E kind \in {"tag", "turn", "remove"} : Act(kind)
    \/ \E kind \in {"detach", "discard", "merge"} : ReviewAct(kind)
    \/ \E r \in cardNet : ServeCard(r) \/ LoseCard(r) \/ CardReply(r)

CardSpec == CardInit /\ [][CardNext]_cardVars

-----------------------------------------------------------------------------
(* Properties. *)

(* What the card's buttons answer to.  A picture on the card is always the  *)
(* item's own.  A card opened when no reply of an earlier card was due acts *)
(* on the photo it was opened for, and saves the inputs of that photo, to   *)
(* the end, through its own saves, turns and deletes whose replies come in  *)
(* any order; with such a reply due it may act on the earlier photo while   *)
(* it is loading (web.py:4801-4817), and on one whose title and inputs are  *)
(* not those on the card after a late turn (5053-5056).  A review on screen *)
(* has a person (3980-4230).                                                *)
CardActsOnItsPhoto ==
    /\ card.shown /\ card.image # Nothing => card.item = card.image
    /\ card.shown /\ card.alone /\ card.item # Nothing =>
         /\ {card.item, card.fields} \subseteq {card.opened, Ghost}
         /\ card.title \in {Nothing, card.opened, Ghost}
    /\ review.shown <=> review.person # Nothing
=============================================================================
