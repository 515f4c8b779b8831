----------------------------- MODULE DashProofs -----------------------------
(***************************************************************************)
(* The dashboard's page, proved for any number of photos, people,          *)
(* slideshows, presses and replies in any order: that the card's picture   *)
(* is the item its buttons answer to, and a card with nothing of earlier   *)
(* ones still due acts on its own photo; that the grid shows what its      *)
(* newest load answered and the marks on it the selection; and that what   *)
(* the page has called added to a slideshow is in it.                      *)
(***************************************************************************)
EXTENDS DashCard, DashGrid, Playlists, ListsProofs, FiniteSetTheorems

(***************************************************************************)
(* The dialogs of a photo and of a person.                                 *)
(***************************************************************************)
CardOK ==
    /\ card = [shown |-> card.shown, item |-> card.item, image |-> card.image,
               title |-> card.title, fields |-> card.fields,
               opened |-> card.opened, alone |-> card.alone]
    /\ card.shown \in BOOLEAN
    /\ card.shown /\ card.image # Nothing => card.item = card.image

(* What a card opened alone may be about, and its requests with it: a save  *)
(* or a turn is asked for only once the inputs are this photo's.            *)
OwnPhoto == {card.opened, Ghost}

Saving(r) == r.kind \in {"tag", "turn"}

AloneOK ==
    card.alone =>
        /\ card.item # Nothing => card.item \in OwnPhoto /\ card.fields \in OwnPhoto
        /\ card.title # Nothing => card.title \in OwnPhoto
        /\ \A r \in cardNet : r.kind \in CardKinds => r.on \in OwnPhoto
        /\ \A r \in cardNet : Saving(r) => card.fields \in OwnPhoto

(* Whoever is under review is a person; openReview is never given null.     *)
ReviewOK ==
    /\ review = [shown |-> review.shown, person |-> review.person, rows |-> review.rows]
    /\ review.shown \in BOOLEAN
    /\ review.person \in Face \cup {Nothing}
    /\ review.shown <=> review.person # Nothing

NetOK == \A r \in cardNet : r = [kind |-> r.kind, on |-> r.on, n |-> r.n, at |-> r.at]

CardInv == CardOK /\ AloneOK /\ ReviewOK /\ NetOK

LEMMA CardInitially == CardInit => CardInv
  BY DEF CardInit, CardInv, CardOK, AloneOK, ReviewOK, NetOK

LEMMA ReviewedOK == ASSUME NEW p \in Face, review' = Reviewed(p) PROVE ReviewOK'
<1>1. review'.shown = TRUE /\ review'.person = p /\ p # Nothing
  BY NothingAssumption DEF Reviewed
<1> QED BY <1>1 DEF ReviewOK, Reviewed

(* A closed review has nobody under review.                                 *)
LEMMA ClosedOK ==
  ASSUME ReviewOK, review' = [review EXCEPT !.shown = FALSE, !.person = Nothing]
  PROVE  ReviewOK'
<1>1. review' = [shown |-> FALSE, person |-> Nothing, rows |-> review.rows]
  BY DEF ReviewOK
<1>2. review'.shown = FALSE /\ review'.person = Nothing
  BY <1>1
<1> QED BY <1>1, <1>2 DEF ReviewOK

LEMMA SameCard == CardOK /\ UNCHANGED card => CardOK'
  BY DEF CardOK

LEMMA SameReview == ReviewOK /\ UNCHANGED review => ReviewOK'
  BY DEF ReviewOK

(* A step that leaves the card as it is, or only closes it, and sends no    *)
(* new request of the card's.                                               *)
LEMMA AloneStays ==
  ASSUME AloneOK,
         \/ UNCHANGED card
         \/ CardOK /\ card' = [card EXCEPT !.shown = FALSE, !.item = Nothing],
         \A r \in cardNet' : r.kind \in CardKinds =>
            \E q \in cardNet : q.kind = r.kind /\ q.on = r.on
  PROVE  AloneOK'
<1>1. /\ card'.alone = card.alone /\ card'.opened = card.opened
      /\ card'.title = card.title /\ card'.fields = card.fields
      /\ card'.item \in {card.item, Nothing}
  BY DEF CardOK
<1>2. \A r : Saving(r) => r.kind \in CardKinds
  BY DEF Saving, CardKinds
<1>3. \A r, q : q.kind = r.kind => (Saving(r) <=> Saving(q))
  BY DEF Saving
<1> QED BY <1>1, <1>2, <1>3 DEF AloneOK, OwnPhoto

(* A request served or lost is the same request.                            *)
LEMMA SameRequest ==
  ASSUME NetOK, NEW r \in cardNet, NEW at, cardNet' = (cardNet \ {r}) \cup {[r EXCEPT !.at = at]}
  PROVE  /\ NetOK'
         /\ \A x \in cardNet' : \E q \in cardNet : q.kind = x.kind /\ q.on = x.on
<1> DEFINE y == [r EXCEPT !.at = at]
<1>1. y = [kind |-> r.kind, on |-> r.on, n |-> r.n, at |-> at]
  BY DEF NetOK
<1>2. y.kind = r.kind /\ y.on = r.on /\ y.n = r.n /\ y.at = at
  BY <1>1
<1> QED BY <1>1, <1>2 DEF NetOK

(* What is sent is a request.                                               *)
LEMMA AskedOK ==
  ASSUME NetOK, NEW k, NEW on, cardNet' \subseteq cardNet \cup {Sent(k, on)}
  PROVE  NetOK'
<1>1. Sent(k, on) = [kind |-> Sent(k, on).kind, on |-> Sent(k, on).on,
                     n |-> Sent(k, on).n, at |-> Sent(k, on).at]
  BY DEF Sent
<1> QED BY <1>1 DEF NetOK

(* Opening a card: alone, nothing of an earlier one is left.                *)
LEMMA OpensCard ==
  ASSUME CardInv, NEW i \in Shot, OpenModal(i)
  PROVE  CardOK' /\ AloneOK'
<1>1. /\ card'.opened = i /\ card'.item = card.item /\ card'.title = Nothing
      /\ card'.alone = Fresh /\ card'.fields = card.fields
  BY DEF OpenModal, Opened, CardInv, CardOK
<1>2. Sent("info", i).kind = "info" /\ Sent("info", i).on = i
  BY DEF Sent
<1>3. CardOK'
  BY DEF OpenModal, Opened, CardInv, CardOK
<1>4. AloneOK'
  BY <1>1, <1>2 DEF AloneOK, Fresh, OpenModal, OwnPhoto, Saving, CardKinds
<1> QED BY <1>3, <1>4

(* The card's buttons: the request is about the item.                       *)
LEMMA ActsOnItem ==
  ASSUME CardInv, NEW kind \in {"tag", "turn", "remove"}, Act(kind)
  PROVE  AloneOK'
<1>1. Sent(kind, card.item).kind = kind /\ Sent(kind, card.item).on = card.item
  BY DEF Sent
<1> QED BY <1>1 DEF Act, CardInv, AloneOK, OwnPhoto, Saving

(* The replies that fill the card in.                                       *)
LEMMA FillsCard ==
  ASSUME CardInv, NEW r \in cardNet, InfoArrives(r) \/ TagArrives(r) \/ TurnArrives(r)
  PROVE  CardOK' /\ AloneOK'
<1>1. CASE InfoArrives(r)
  <2>1. CASE r.at = "lost"
    BY <1>1, <2>1, AloneStays, SameCard DEF InfoArrives, CardInv
  <2>2. CASE r.at # "lost"
    <3> DEFINE item == IF r.at = "ok" THEN r.on ELSE Ghost
    <3>1. /\ card'.item = item /\ card'.title = item /\ card'.fields = item
          /\ card'.alone = card.alone /\ card'.opened = card.opened /\ CardOK'
      BY <1>1, <2>2 DEF InfoArrives, CardInv, CardOK
    <3>2. card.alone => item \in OwnPhoto
      BY <1>1 DEF InfoArrives, CardInv, AloneOK, OwnPhoto, CardKinds
    <3>3. cardNet' \subseteq cardNet
      BY <1>1 DEF InfoArrives
    <3> QED BY <3>1, <3>2, <3>3 DEF CardInv, AloneOK, OwnPhoto
  <2> QED BY <2>1, <2>2
<1>2. CASE TagArrives(r)
  <2>1. CASE r.at = "ok"
    <3>1. /\ card'.item = r.on /\ card'.title = Nothing /\ card'.fields = card.fields
          /\ card'.alone = card.alone /\ card'.opened = card.opened /\ CardOK'
      BY <1>2, <2>1 DEF TagArrives, Opened, CardInv, CardOK
    <3>2. /\ card.alone => r.on \in OwnPhoto /\ card.fields \in OwnPhoto
      BY <1>2 DEF TagArrives, CardInv, AloneOK, CardKinds, Saving
    <3>3. Sent("info", r.on).kind = "info" /\ Sent("info", r.on).on = r.on
      BY DEF Sent
    <3> QED BY <1>2, <2>1, <3>1, <3>2, <3>3 DEF TagArrives, CardInv, AloneOK, OwnPhoto, Saving
  <2>2. CASE r.at # "ok"
    BY <1>2, <2>2, AloneStays, SameCard DEF TagArrives, CardInv
  <2> QED BY <2>1, <2>2
<1>3. CASE TurnArrives(r)
  <2>1. CASE r.at = "ok"
    <3>1. /\ card'.item = r.on /\ card'.title = card.title /\ card'.fields = card.fields
          /\ card'.alone = card.alone /\ card'.opened = card.opened /\ CardOK'
      BY <1>3, <2>1 DEF TurnArrives, CardInv, CardOK
    <3>2. /\ card.alone => r.on \in OwnPhoto /\ card.fields \in OwnPhoto
      BY <1>3 DEF TurnArrives, CardInv, AloneOK, CardKinds, Saving
    <3> QED BY <1>3, <3>1, <3>2 DEF TurnArrives, CardInv, AloneOK, OwnPhoto, Saving
  <2>2. CASE r.at # "ok"
    BY <1>3, <2>2, AloneStays, SameCard DEF TurnArrives, CardInv
  <2> QED BY <2>1, <2>2
<1> QED BY <1>1, <1>2, <1>3

LEMMA CardKept == CardInv /\ [CardNext]_cardVars => CardInv'
<1> SUFFICES ASSUME CardInv, [CardNext]_cardVars PROVE CardInv'
  OBVIOUS
<1>0. CardOK /\ AloneOK /\ ReviewOK /\ NetOK /\ (review.person # Nothing => review.person \in Face)
  BY DEF CardInv, ReviewOK
<1>s. \A k, on : Sent(k, on).kind = k /\ Sent(k, on).on = on
  BY DEF Sent
<1>1. ASSUME NEW i \in Shot, OpenModal(i) PROVE CardInv'
  <2>1. NetOK'
    BY <1>0, <1>1, AskedOK DEF OpenModal
  <2> QED BY <1>0, <1>1, <2>1, OpensCard, SameReview DEF OpenModal, CardInv
<1>2. ASSUME NEW p \in Face, OpenReview(p) PROVE CardInv'
  <2>1. AloneOK'
    BY <1>0, <1>2, <1>s, AloneStays DEF OpenReview, CardKinds
  <2>2. NetOK'
    BY <1>0, <1>2, AskedOK DEF OpenReview
  <2> QED BY <1>0, <1>2, <2>1, <2>2, ReviewedOK, SameCard DEF OpenReview, CardInv
<1>3. ASSUME NEW p \in Face, DeletePerson(p) PROVE CardInv'
  <2>1. AloneOK'
    BY <1>0, <1>3, <1>s, AloneStays DEF DeletePerson, CardKinds
  <2>2. NetOK'
    BY <1>0, <1>3, AskedOK DEF DeletePerson
  <2> QED BY <1>0, <1>3, <2>1, <2>2, SameReview, SameCard DEF DeletePerson, CardInv
<1>4. CASE CloseModal
  <2>1. CardOK'
    BY <1>0, <1>4 DEF CloseModal, CardOK
  <2>2. AloneOK'
    BY <1>0, <1>4, <1>s, AloneStays DEF CloseModal, CardKinds
  <2>3. NetOK'
    BY <1>0, <1>4, AskedOK DEF CloseModal
  <2>4. review' = review \/ (review.person \in Face /\ review' = Reviewed(review.person))
    BY <1>0, <1>4 DEF CloseModal
  <2> QED BY <1>0, <2>1, <2>2, <2>3, <2>4, ReviewedOK, SameReview DEF CardInv
<1>5. CASE CloseReview
  <2>1. AloneOK' /\ NetOK'
    BY <1>0, <1>5, AloneStays DEF CloseReview, NetOK
  <2> QED BY <1>0, <1>5, <2>1, ClosedOK, SameCard DEF CloseReview, CardInv
<1>6. ASSUME NEW kind \in {"tag", "turn", "remove"}, Act(kind) PROVE CardInv'
  <2>1. NetOK'
    BY <1>0, <1>6, AskedOK DEF Act
  <2> QED BY <1>0, <1>6, <2>1, ActsOnItem, SameCard, SameReview DEF Act, CardInv
<1>7. ASSUME NEW kind \in {"detach", "discard", "merge"}, ReviewAct(kind) PROVE CardInv'
  <2>1. PICK i : cardNet' = cardNet \cup {Sent(kind, i)}
    BY <1>7 DEF ReviewAct
  <2>2. AloneOK' /\ NetOK'
    BY <1>0, <1>7, <1>s, <2>1, AloneStays, AskedOK DEF ReviewAct, CardKinds
  <2> QED BY <1>0, <1>7, <2>2, SameCard, SameReview DEF ReviewAct, CardInv
<1>8. ASSUME NEW r \in cardNet, ServeCard(r) \/ LoseCard(r) PROVE CardInv'
  <2>1. PICK at : cardNet' = (cardNet \ {r}) \cup {[r EXCEPT !.at = at]}
    BY <1>8 DEF ServeCard, LoseCard
  <2>2. NetOK' /\ \A x \in cardNet' : \E q \in cardNet : q.kind = x.kind /\ q.on = x.on
    BY <1>0, <2>1, SameRequest
  <2>3. AloneOK'
    BY <1>0, <1>8, <2>2, AloneStays DEF ServeCard, LoseCard
  <2> QED BY <1>0, <1>8, <2>2, <2>3, SameCard, SameReview DEF ServeCard, LoseCard, CardInv
<1>9. ASSUME NEW r \in cardNet, CardReply(r) PROVE CardInv'
  <2>1. CASE InfoArrives(r) \/ TagArrives(r) \/ TurnArrives(r)
    <3>1. NetOK'
      BY <1>0, <2>1, AskedOK DEF InfoArrives, TagArrives, TurnArrives
    <3> QED BY <1>0, <2>1, <3>1, FillsCard, SameReview
            DEF InfoArrives, TagArrives, TurnArrives, CardInv
  <2>2. CASE RemoveArrives(r)
    <3>1. CardOK'
      BY <1>0, <2>2 DEF RemoveArrives, CardOK
    <3>2. review' = review \/ (review.person \in Face /\ review' = Reviewed(review.person))
      BY <1>0, <2>2 DEF RemoveArrives
    <3>3. AloneOK'
      BY <1>0, <2>2, <1>s, AloneStays DEF RemoveArrives, CardKinds
    <3>4. NetOK'
      BY <1>0, <2>2, AskedOK DEF RemoveArrives
    <3> QED BY <1>0, <3>1, <3>2, <3>3, <3>4, ReviewedOK, SameReview DEF CardInv
  <2>3. CASE RowsArrive(r)
    <3>1. AloneOK' /\ NetOK'
      BY <1>0, <2>3, AloneStays DEF RowsArrive, NetOK
    <3> QED BY <1>0, <2>3, <3>1, SameCard DEF RowsArrive, ReviewOK, CardInv
  <2>4. CASE RowChanged(r)
    <3>1. review' = review \/ (review.person \in Face /\ review' = Reviewed(review.person))
      BY <1>0, <2>4 DEF RowChanged
    <3>2. UNCHANGED card
      BY <2>4 DEF RowChanged
    <3>3. AloneOK'
      BY <1>0, <2>4, <3>2, <1>s, AloneStays DEF RowChanged, CardKinds
    <3>4. NetOK'
      BY <1>0, <2>4, AskedOK DEF RowChanged
    <3> QED BY <1>0, <3>1, <3>2, <3>3, <3>4, ReviewedOK, SameReview, SameCard DEF CardInv
  <2>5. CASE PersonGone(r)
    <3>1. \/ UNCHANGED review
          \/ review' = [review EXCEPT !.shown = FALSE, !.person = Nothing]
      BY <2>5 DEF PersonGone
    <3>2. AloneOK' /\ NetOK'
      BY <1>0, <2>5, AloneStays DEF PersonGone, NetOK
    <3> QED BY <1>0, <2>5, <3>1, <3>2, ClosedOK, SameReview, SameCard DEF PersonGone, CardInv
  <2> QED BY <1>9, <2>1, <2>2, <2>3, <2>4, <2>5 DEF CardReply
<1>10. CASE UNCHANGED cardVars
  <2>1. AloneOK' /\ NetOK'
    BY <1>0, <1>10, AloneStays DEF cardVars, NetOK
  <2> QED BY <1>0, <1>10, <2>1, SameCard, SameReview DEF cardVars, CardInv
<1> QED BY <1>1, <1>2, <1>3, <1>4, <1>5, <1>6, <1>7, <1>8, <1>9, <1>10 DEF CardNext

(* The picture on the card is the item its buttons answer to; a card opened *)
(* when nothing of an earlier one was due acts on its own photo and saves   *)
(* that photo's inputs; a review on screen has a person: for any number of  *)
(* requests and presses and every order of the replies (web.py:4801-5118,   *)
(* 3980-4230).                                                              *)
THEOREM CardActsOnOwnPhoto == CardSpec => []CardActsOnItsPhoto
<1>1. CardInv => CardActsOnItsPhoto
  BY DEF CardInv, CardOK, AloneOK, OwnPhoto, ReviewOK, CardActsOnItsPhoto
<1> QED BY <1>1, CardInitially, CardKept, PTL DEF CardSpec

(***************************************************************************)
(* The grid shows what the newest load answered, and the marks tell the    *)
(* selection.                                                              *)
(***************************************************************************)
Query == [search : Term, time : Term]
Reply == [items : Seq(Photo), total : Nat, hasNext : BOOLEAN]
Request == [kind : BulkOps \cup {"grid"}, seq : Nat, query : Query, page : Nat \ {0},
            ids : SUBSET Photo, at : {"sent", "answered", "failed"}, reply : Reply]

GridTypes ==
    /\ gridNet \in Seq(Request)
    /\ search \in [text : Term, armed : Term \cup {Unarmed}]
    /\ time \in [text : Term, armed : BOOLEAN]
    /\ query \in Query /\ page \in Nat \ {0}
    /\ listing \in [items : Seq(Photo), total : Nat, hasNext : BOOLEAN,
                    of : {<<>>} \cup (Query \X (Nat \ {0}))]
    /\ gridSeq \in Nat
    /\ outcome \in {"busy", "ok", "failed"}
    /\ selected \subseteq Photo

(* Request k is the newest load of the grid, which asks what the page shows *)
(* on its boxes and pager.                                                  *)
Newest(k) == gridNet[k].kind = "grid" /\ gridNet[k].seq = gridSeq

NewestAsks ==
    /\ \A k \in DOMAIN gridNet : gridNet[k].kind = "grid" => gridNet[k].seq <= gridSeq
    /\ \A j, k \in DOMAIN gridNet : Newest(j) /\ Newest(k) => j = k
    /\ \A k \in DOMAIN gridNet :
            Newest(k) => gridNet[k].query = query /\ gridNet[k].page = page
    /\ outcome = "busy" <=> \E k \in DOMAIN gridNet : Newest(k)
    /\ outcome = "ok" => listing.of = <<query, page>>

GridInv == GridTypes /\ NewestAsks

LEMMA Joined ==
  ASSUME NEW T, NEW a \in Seq(T), NEW b \in Seq(T), NEW j \in 1 .. Len(a) + Len(b)
  PROVE  (a \o b)[j] = IF j <= Len(a) THEN a[j] ELSE b[j - Len(a)]
  OBVIOUS

LEMMA RemovedAt ==
  ASSUME NEW T, NEW s \in Seq(T), NEW k \in DOMAIN s
  PROVE  /\ RemoveAt(s, k) \in Seq(T) /\ Len(RemoveAt(s, k)) = Len(s) - 1
         /\ \A j \in 1 .. Len(s) - 1 : RemoveAt(s, k)[j] = IF j < k THEN s[j] ELSE s[j + 1]
<1>1. Len(s) \in Nat /\ k \in 1 .. Len(s) /\ \A j \in 1 .. Len(s) : s[j] \in T
  BY SeqFacts
<1> DEFINE a == SubSeq(s, 1, k - 1)
           b == SubSeq(s, k + 1, Len(s))
<1>2. a \in Seq(T) /\ Len(a) = k - 1 /\ \A j \in 1 .. k - 1 : a[j] = s[j]
  BY <1>1
<1>3. b \in Seq(T) /\ Len(b) = Len(s) - k /\ \A j \in 1 .. Len(s) - k : b[j] = s[j + k]
  BY <1>1
<1>4. RemoveAt(s, k) = a \o b
  BY DEF RemoveAt
<1> HIDE DEF a, b
<1>5. a \o b \in Seq(T) /\ Len(a \o b) = Len(s) - 1
  BY <1>1, <1>2, <1>3
<1>6. ASSUME NEW j \in 1 .. Len(s) - 1 PROVE (a \o b)[j] = IF j < k THEN s[j] ELSE s[j + 1]
  <2>1. CASE j < k
    BY <1>1, <1>2, <1>3, <2>1
  <2>2. CASE ~(j < k)
    <3>0. j - (k - 1) \in 1 .. Len(s) - k /\ j > Len(a) /\ j <= Len(a) + Len(b)
      BY <1>1, <1>2, <1>3, <2>2
    <3>4. (a \o b)[j] = b[j - Len(a)]
      <4>1. j \in 1 .. Len(a) + Len(b) /\ ~(j <= Len(a))
        BY <1>1, <1>2, <1>3, <3>0
      <4> QED BY <1>2, <1>3, <4>1, Joined
    <3>1. (a \o b)[j] = b[j - (k - 1)]
      BY <1>2, <3>4
    <3>2. b[j - (k - 1)] = s[j - (k - 1) + k]
      BY <1>3, <3>0
    <3>3. j - (k - 1) + k = j + 1
      BY <1>1
    <3> QED BY <2>2, <3>1, <3>2, <3>3, <3>0
  <2> QED BY <2>1, <2>2
<1> QED BY <1>4, <1>5, <1>6

(* A reply holds photos.                                                    *)
LEMMA AnswerType == ASSUME NEW q, NEW p \in Nat \ {0} PROVE Answer(q, p) \in Reply
<1> DEFINE hits == Only(Order, live \cap Matches[q.search] \cap Matches[q.time])
           from == (p - 1) * PageSize
           size == IF Len(hits) > from + PageSize THEN from + PageSize ELSE Len(hits)
<1>1. hits \in Seq(Photo)
  BY OrderAssumption, OnlyType, Zenon
<1> HIDE DEF hits
<1>2. from \in Nat /\ PageSize \in Int /\ Len(hits) \in Nat
  <2>1. PageSize \in Nat /\ p - 1 \in Nat
    BY PageSizeAssumption
  <2> QED BY <1>1, <2>1
<1> HIDE DEF from
<1>3. size \in Int /\ size <= Len(hits)
  BY <1>2
<1>4. SubSeq(hits, from + 1, size) \in Seq(Photo)
  BY <1>1, <1>2, <1>3
<1>5. Answer(q, p) = [items |-> SubSeq(hits, from + 1, size), total |-> Len(hits),
                      hasNext |-> Len(hits) > from + PageSize]
  BY DEF Answer, hits, from
<1> HIDE DEF size
<1> DEFINE items == SubSeq(hits, from + 1, size)
           more == Len(hits) > from + PageSize
<1>6. items \in Seq(Photo) /\ more \in BOOLEAN
  BY <1>4
<1>7. Answer(q, p) = [items |-> items, total |-> Len(hits), hasNext |-> more]
  BY <1>5
<1> HIDE DEF items, more
<1> QED BY <1>2, <1>6, <1>7 DEF Reply

LEMMA RequestTypes ==
  /\ \A n \in Nat, q \in Query, p \in Nat \ {0} : GridRequest(n, q, p) \in Request
  /\ \A op \in BulkOps, ids \in SUBSET Photo : BulkRequest(op, ids) \in Request
<1>1. NoReply \in Reply
  <2>1. <<>> \in Seq(Photo)
    OBVIOUS
  <2> QED BY <2>1 DEF NoReply, Reply
<1>2. NoQuery \in Query
  BY TermAssumption DEF NoQuery, Query
<1> QED BY <1>1, <1>2 DEF GridRequest, BulkRequest, Request

(* What the requests in flight say of the newest load only depends on what  *)
(* they ask.                                                                *)
Asks(r) == <<r.kind, r.seq, r.query, r.page>>

(* A step that leaves the page's question and the requests' alone.          *)
LEMMA SameQuestions ==
  ASSUME NewestAsks, UNCHANGED <<query, page, listing, gridSeq, outcome>>,
         DOMAIN gridNet' = DOMAIN gridNet,
         \A k \in DOMAIN gridNet : Asks(gridNet'[k]) = Asks(gridNet[k])
  PROVE  NewestAsks'
<1>1. \A k \in DOMAIN gridNet :
        /\ gridNet'[k].kind = gridNet[k].kind /\ gridNet'[k].seq = gridNet[k].seq
        /\ gridNet'[k].query = gridNet[k].query /\ gridNet'[k].page = gridNet[k].page
  BY DEF Asks
<1> QED BY <1>1 DEF NewestAsks, Newest

(* loadGrid: the new request is the newest.                                 *)
LEMMA LoadKeeps ==
  ASSUME GridTypes, NewestAsks, NEW net \in Seq(Request),
         NEW q \in Query, NEW p \in Nat \ {0},
         \A j \in DOMAIN net : net[j].kind = "grid" => net[j].seq <= gridSeq,
         LoadGridAfter(net, q, p), query' = q, page' = p
  PROVE  /\ NewestAsks'
         /\ gridNet' \in Seq(Request) /\ gridSeq' \in Nat /\ outcome' = "busy"
<1> DEFINE r == GridRequest(gridSeq + 1, q, p)
           n == Len(net) + 1
<1>1. gridSeq \in Nat /\ gridSeq' = gridSeq + 1 /\ outcome' = "busy" /\ gridNet' = Append(net, r)
  BY DEF LoadGridAfter, GridTypes
<1>2. r \in Request
  BY <1>1, RequestTypes
<1>3. r.kind = "grid" /\ r.seq = gridSeq' /\ r.query = q /\ r.page = p
  BY <1>1 DEF GridRequest
<1> HIDE DEF r
<1>4. /\ gridNet' \in Seq(Request) /\ gridNet'[n] = r
      /\ DOMAIN gridNet' = 1 .. n /\ n \in Nat /\ Len(net) \in Nat /\ DOMAIN net = 1 .. Len(net)
      /\ \A k \in 1 .. Len(net) : gridNet'[k] = net[k]
  BY <1>1, <1>2, AppendFacts, SeqFacts
<1>5. \A k \in 1 .. Len(net) : net[k].kind = "grid" => net[k].seq <= gridSeq /\ net[k].seq \in Nat
  <2>1. \A k \in 1 .. Len(net) : net[k] \in Request
    BY SeqFacts
  <2> QED BY <1>4, <2>1 DEF Request
<1>6. \A k \in DOMAIN gridNet' : gridNet'[k].kind = "grid" =>
          /\ gridNet'[k].seq <= gridSeq'
          /\ gridNet'[k].seq = gridSeq' => k = n
  BY <1>1, <1>2, <1>3, <1>4, <1>5
<1> QED BY <1>1, <1>2, <1>3, <1>4, <1>6 DEF NewestAsks, Newest

(* A load sent after the requests in flight, or after all of them but one.  *)
LEMMA LoadNext ==
  ASSUME GridTypes, NewestAsks, NEW q \in Query, NEW p \in Nat \ {0},
         LoadGrid(q, p), query' = q, page' = p
  PROVE  /\ NewestAsks'
         /\ gridNet' \in Seq(Request) /\ gridSeq' \in Nat /\ outcome' = "busy"
<1>1. \A j \in DOMAIN gridNet : gridNet[j].kind = "grid" => gridNet[j].seq <= gridSeq
  BY DEF NewestAsks
<1>2. LoadGridAfter(gridNet, q, p) /\ gridNet \in Seq(Request)
  BY DEF LoadGrid, GridTypes
<1> QED BY <1>1, <1>2, LoadKeeps

(* Where a request is after another is gone.                                *)
LEMMA AfterRemoval ==
  ASSUME GridTypes, NEW k \in DOMAIN gridNet, NEW net, net = RemoveAt(gridNet, k)
  PROVE  /\ net \in Seq(Request)
         /\ \A j \in DOMAIN net : \E i \in DOMAIN gridNet \ {k} : net[j] = gridNet[i]
         /\ \A i \in DOMAIN gridNet \ {k} : \E j \in DOMAIN net : net[j] = gridNet[i]
         /\ \A i, j \in DOMAIN net : i # j =>
                \E v, w \in DOMAIN gridNet : v # w /\ net[i] = gridNet[v] /\ net[j] = gridNet[w]
<1>1. gridNet \in Seq(Request) /\ Len(gridNet) \in Nat /\ DOMAIN gridNet = 1 .. Len(gridNet)
  BY SeqFacts DEF GridTypes
<1>2. /\ net \in Seq(Request) /\ Len(net) = Len(gridNet) - 1
      /\ \A j \in 1 .. Len(gridNet) - 1 :
            net[j] = IF j < k THEN gridNet[j] ELSE gridNet[j + 1]
  BY <1>1, RemovedAt
<1>3. DOMAIN net = 1 .. Len(gridNet) - 1 /\ k \in 1 .. Len(gridNet)
  BY <1>1, <1>2, SeqFacts
<1> DEFINE was == [j \in 1 .. Len(gridNet) - 1 |-> IF j < k THEN j ELSE j + 1]
<1>4. \A j \in DOMAIN net : was[j] \in DOMAIN gridNet \ {k} /\ net[j] = gridNet[was[j]]
  BY <1>1, <1>2, <1>3
<1>5. \A i \in DOMAIN gridNet \ {k} : \E j \in DOMAIN net : was[j] = i
  <2> SUFFICES ASSUME NEW i \in 1 .. Len(gridNet), i # k
               PROVE  \E j \in 1 .. Len(gridNet) - 1 : was[j] = i
    BY <1>1, <1>3
  <2>1. CASE i < k
    BY <1>1, <1>3, <2>1
  <2>2. CASE i > k
    <3>1. i - 1 \in 1 .. Len(gridNet) - 1 /\ was[i - 1] = i
      BY <1>1, <1>3, <2>2
    <3> QED BY <3>1
  <2> QED BY <1>3, <2>1, <2>2
<1>6. \A i, j \in DOMAIN net : i # j => was[i] # was[j]
  BY <1>1, <1>3
<1> HIDE DEF was
<1> QED BY <1>2, <1>4, <1>5, <1>6

(* A request that is answered is gone.  If it was the newest, none is.      *)
LEMMA RemovalKeeps ==
  ASSUME GridTypes, NewestAsks, NEW k \in DOMAIN gridNet, gridNet' = RemoveAt(gridNet, k),
         UNCHANGED <<query, page, gridSeq>>,
         IF Newest(k) THEN outcome' # "busy" /\ (outcome' = "ok" => listing'.of = <<query, page>>)
                      ELSE UNCHANGED <<outcome, listing>>
  PROVE  NewestAsks'
<1>1. /\ \A j \in DOMAIN gridNet' : \E i \in DOMAIN gridNet \ {k} : gridNet'[j] = gridNet[i]
      /\ \A i \in DOMAIN gridNet \ {k} : \E j \in DOMAIN gridNet' : gridNet'[j] = gridNet[i]
      /\ \A i, j \in DOMAIN gridNet' : i # j =>
            \E v, w \in DOMAIN gridNet : v # w /\ gridNet'[i] = gridNet[v] /\ gridNet'[j] = gridNet[w]
  BY AfterRemoval
<1> DEFINE N(r) == r.kind = "grid" /\ r.seq = gridSeq
<1>2. (\E j \in DOMAIN gridNet' : N(gridNet'[j])) <=> \E i \in DOMAIN gridNet \ {k} : N(gridNet[i])
  BY <1>1
<1>3. (\E i \in DOMAIN gridNet \ {k} : N(gridNet[i])) <=> outcome = "busy" /\ ~N(gridNet[k])
  BY DEF NewestAsks, Newest
<1>4. outcome' = "busy" <=> \E j \in DOMAIN gridNet' : N(gridNet'[j])
  BY <1>2, <1>3 DEF Newest
<1>5. \A i, j \in DOMAIN gridNet' : N(gridNet'[i]) /\ N(gridNet'[j]) => i = j
  BY <1>1 DEF NewestAsks, Newest
<1>6. \A j \in DOMAIN gridNet' :
         /\ gridNet'[j].kind = "grid" => gridNet'[j].seq <= gridSeq
         /\ N(gridNet'[j]) => gridNet'[j].query = query /\ gridNet'[j].page = page
  BY <1>1 DEF NewestAsks, Newest
<1>7. outcome' = "ok" => listing'.of = <<query, page>>
  BY DEF NewestAsks
<1> QED BY <1>4, <1>5, <1>6, <1>7 DEF NewestAsks, Newest

LEMMA GridInitially == GridInit => GridInv
<1> SUFFICES ASSUME GridInit PROVE GridInv
  OBVIOUS
<1> DEFINE r == GridRequest(1, NoQuery, 1)
<1>1. NoQuery \in Query /\ NoTerm \in Term
  BY TermAssumption DEF NoQuery, Query
<1>2. r \in Request /\ r.kind = "grid" /\ r.seq = 1 /\ r.query = NoQuery /\ r.page = 1
  BY <1>1, RequestTypes DEF GridRequest
<1>3. gridNet = <<r>>
  BY DEF GridInit
<1> HIDE DEF r
<1>4. gridNet \in Seq(Request) /\ DOMAIN gridNet = {1} /\ gridNet[1] = r
  BY <1>2, <1>3
<1>5. <<>> \in Seq(Photo)
  OBVIOUS
<1>6. GridTypes
  BY <1>1, <1>4, <1>5 DEF GridInit, GridTypes
<1>7. NewestAsks
  BY <1>2, <1>4 DEF GridInit, NewestAsks, Newest
<1> QED BY <1>6, <1>7 DEF GridInv

(* The types of what a step leaves alone.                                   *)
LEMMA TypesFrom ==
  ASSUME GridTypes, gridNet' \in Seq(Request),
         UNCHANGED search \/ search' \in [text : Term, armed : Term \cup {Unarmed}],
         UNCHANGED time \/ time' \in [text : Term, armed : BOOLEAN],
         UNCHANGED query \/ query' \in Query,
         UNCHANGED page \/ page' \in Nat \ {0},
         \/ UNCHANGED listing
         \/ \E r \in Request : listing' = Shown(r),
         gridSeq' \in Nat, outcome' \in {"busy", "ok", "failed"},
         UNCHANGED selected \/ selected' \subseteq Photo
  PROVE  GridTypes'
<1>1. ASSUME NEW r \in Request
      PROVE  Shown(r) \in [items : Seq(Photo), total : Nat, hasNext : BOOLEAN,
                           of : {<<>>} \cup (Query \X (Nat \ {0}))]
  <2>1. r.reply \in Reply /\ r.query \in Query /\ r.page \in Nat \ {0}
    BY DEF Request
  <2>2. r.reply.items \in Seq(Photo) /\ r.reply.total \in Nat /\ r.reply.hasNext \in BOOLEAN
    BY <2>1 DEF Reply
  <2> QED BY <2>1, <2>2 DEF Shown
<1>2. listing' \in [items : Seq(Photo), total : Nat, hasNext : BOOLEAN,
                    of : {<<>>} \cup (Query \X (Nat \ {0}))]
  BY <1>1 DEF GridTypes
<1> QED BY <1>2 DEF GridTypes

(* Every handler that sends a load.                                         *)
LEMMA SentLoad ==
  ASSUME GridInv, NEW q \in Query, NEW p \in Nat \ {0},
         LoadGrid(q, p), query' = q, page' = p, UNCHANGED <<listing, selected>>,
         UNCHANGED search \/ search' \in [text : Term, armed : Term \cup {Unarmed}],
         UNCHANGED time \/ time' \in [text : Term, armed : BOOLEAN]
  PROVE  GridInv'
<1>1. GridTypes /\ NewestAsks
  BY DEF GridInv
<1>2. NewestAsks' /\ gridNet' \in Seq(Request) /\ gridSeq' \in Nat /\ outcome' = "busy"
  BY <1>1, LoadNext
<1> QED BY <1>1, <1>2, TypesFrom DEF GridInv

LEMMA Loads ==
  ASSUME GridInv,
         \/ \E t \in Term : SetTime(t)
         \/ SearchFires \/ TimeFires \/ ClearAllFilters
         \/ PagePrev \/ PageNext \/ JumpToLast \/ RefreshGrid
  PROVE  GridInv'
<1>1. /\ query \in [search : Term, time : Term] /\ page \in Nat \ {0}
      /\ search \in [text : Term, armed : Term \cup {Unarmed}]
      /\ time \in [text : Term, armed : BOOLEAN]
      /\ listing.total \in Nat /\ NoTerm \in Term
  BY TermAssumption DEF GridInv, GridTypes, Query
<1>2. ASSUME NEW t \in Term, SetTime(t) PROVE GridInv'
  <2>1. [query EXCEPT !.time = t] \in Query /\ time' \in [text : Term, armed : BOOLEAN]
    BY <1>1, <1>2 DEF SetTime, Query
  <2> QED BY <1>2, <2>1, SentLoad DEF SetTime
<1>3. CASE SearchFires
  <2>1. search.armed \in Term
    BY <1>1, <1>3 DEF SearchFires
  <2>2. query' \in Query /\ search' \in [text : Term, armed : Term \cup {Unarmed}]
    BY <1>1, <1>3, <2>1 DEF SearchFires, Query
  <2> QED BY <1>3, <2>2, SentLoad DEF SearchFires
<1>4. CASE TimeFires
  <2>1. query' \in Query /\ time' \in [text : Term, armed : BOOLEAN]
    BY <1>1, <1>4 DEF TimeFires, Query
  <2>2. LoadGrid(query', 1) /\ page' = 1 /\ UNCHANGED <<search, listing, selected>>
    BY <1>4 DEF TimeFires
  <2> QED BY <2>1, <2>2, SentLoad
<1>5. CASE ClearAllFilters
  <2>1. /\ query' \in Query /\ time' \in [text : Term, armed : BOOLEAN]
        /\ search' \in [text : Term, armed : Term \cup {Unarmed}]
    BY <1>1, <1>5 DEF ClearAllFilters, Query, NoQuery
  <2> QED BY <1>5, <2>1, SentLoad DEF ClearAllFilters
<1>6. ASSUME NEW p \in Nat \ {0}, Turn(p) PROVE GridInv'
  BY <1>1, <1>6, SentLoad DEF Turn, Query
<1>7. CASE PagePrev
  <2>1. page - 1 \in Nat \ {0} /\ Turn(page - 1)
    BY <1>1, <1>7 DEF PagePrev
  <2> QED BY <1>6, <2>1
<1>8. CASE PageNext
  <2>1. page + 1 \in Nat \ {0} /\ Turn(page + 1)
    BY <1>1, <1>8 DEF PageNext
  <2> QED BY <1>6, <2>1
<1>9. CASE JumpToLast
  <2>1. Ceiling(listing.total, PageSize) \in Int
    BY <1>1, PageSizeAssumption DEF Ceiling
  <2>2. AtLeastOne(Ceiling(listing.total, PageSize)) \in Nat \ {0}
    BY <2>1 DEF AtLeastOne
  <2> QED BY <1>6, <1>9, <2>2 DEF JumpToLast
<1>10. CASE RefreshGrid
  BY <1>1, <1>6, <1>10 DEF RefreshGrid
<1> QED BY <1>2, <1>3, <1>4, <1>5, <1>7, <1>8, <1>9, <1>10

(* Every step that leaves the requests and the page's question alone.       *)
LEMMA NothingAsked ==
  ASSUME GridInv, UNCHANGED <<gridNet, query, page, listing, gridSeq, outcome>>,
         UNCHANGED search \/ search' \in [text : Term, armed : Term \cup {Unarmed}],
         UNCHANGED time \/ time' \in [text : Term, armed : BOOLEAN],
         UNCHANGED selected \/ selected' \subseteq Photo
  PROVE  GridInv'
<1>1. GridTypes /\ NewestAsks /\ gridNet' \in Seq(Request) /\ gridSeq' \in Nat
      /\ outcome' \in {"busy", "ok", "failed"}
  BY DEF GridInv, GridTypes
<1> QED BY <1>1, SameQuestions, TypesFrom DEF GridInv

LEMMA Selections ==
  ASSUME GridInv,
         \/ \E t \in Term : TypeSearch(t) \/ TypeTime(t)
         \/ ToggleSelectMode \/ BulkSelectAll \/ BulkClear
         \/ \E i \in Photo : ToggleItemSelected(i) \/ LongPress(i) \/ Elsewhere(i)
         \/ UNCHANGED gridVars
  PROVE  GridInv'
<1>1. listing.items \in Seq(Photo) /\ selected \subseteq Photo
  BY DEF GridInv, GridTypes
<1>2. ToSet(listing.items) \subseteq Photo
  BY <1>1 DEF ToSet
<1>3. ASSUME NEW t \in Term, TypeSearch(t) \/ TypeTime(t) PROVE GridInv'
  <2>1. CASE TypeSearch(t)
    <3>1. search' \in [text : Term, armed : Term \cup {Unarmed}]
      BY <2>1 DEF TypeSearch
    <3> QED BY <2>1, <3>1, NothingAsked DEF TypeSearch
  <2>2. CASE TypeTime(t)
    <3>1. time' \in [text : Term, armed : BOOLEAN]
      BY <2>2 DEF TypeTime
    <3> QED BY <2>2, <3>1, NothingAsked DEF TypeTime
  <2> QED BY <1>3, <2>1, <2>2
<1>4. CASE ToggleSelectMode \/ BulkSelectAll \/ BulkClear
  BY <1>1, <1>2, <1>4, NothingAsked DEF ToggleSelectMode, BulkSelectAll, BulkClear, SelectionOnly
<1>5. ASSUME NEW i \in Photo, ToggleItemSelected(i) \/ LongPress(i) \/ Elsewhere(i)
      PROVE  GridInv'
  BY <1>1, <1>5, NothingAsked DEF ToggleItemSelected, LongPress, Elsewhere, SelectionOnly
<1>6. CASE UNCHANGED gridVars
  BY <1>6, NothingAsked DEF gridVars
<1> QED BY <1>3, <1>4, <1>5, <1>6

(* The bulk buttons, the server and lost requests.                          *)
LEMMA BulkSent == ASSUME GridInv, NEW op \in BulkOps, Bulk(op) PROVE GridInv'
<1> DEFINE r == BulkRequest(op, selected)
<1>1. r \in Request /\ r.kind # "grid"
  BY RequestTypes DEF GridInv, GridTypes, BulkRequest, BulkOps
<1>2. /\ gridNet' = Append(gridNet, r) /\ gridNet \in Seq(Request)
      /\ UNCHANGED <<search, time, query, page, listing, gridSeq, outcome, selected>>
  BY DEF GridInv, GridTypes, Bulk
<1> HIDE DEF r
<1>3. /\ gridNet' \in Seq(Request) /\ Len(gridNet) \in Nat
      /\ DOMAIN gridNet' = 1 .. Len(gridNet) + 1 /\ DOMAIN gridNet = 1 .. Len(gridNet)
      /\ gridNet'[Len(gridNet) + 1] = r
      /\ \A k \in 1 .. Len(gridNet) : gridNet'[k] = gridNet[k]
  BY <1>1, <1>2, AppendFacts, SeqFacts
<1>4. NewestAsks'
  BY <1>1, <1>2, <1>3 DEF GridInv, NewestAsks, Newest
<1>5. gridSeq' \in Nat /\ outcome' \in {"busy", "ok", "failed"} /\ GridTypes
  BY <1>2 DEF GridInv, GridTypes
<1> QED BY <1>2, <1>3, <1>4, <1>5, TypesFrom DEF GridInv

LEMMA ServedOrLost ==
  ASSUME GridInv, NEW k \in DOMAIN gridNet, Serve(k) \/ LoseGrid(k) PROVE GridInv'
<1>1. /\ gridNet \in Seq(Request) /\ gridNet[k] \in Request /\ GridTypes /\ NewestAsks
      /\ gridSeq \in Nat /\ outcome \in {"busy", "ok", "failed"}
  BY SeqFacts DEF GridInv, GridTypes
<1>2. UNCHANGED <<search, time, query, page, listing, gridSeq, outcome, selected>>
  BY DEF Serve, LoseGrid
<1>3. PICK r \in Request : gridNet' = [gridNet EXCEPT ![k] = r] /\ Asks(r) = Asks(gridNet[k])
  <2>1. CASE LoseGrid(k)
    <3> DEFINE r == [gridNet[k] EXCEPT !.at = "failed"]
    <3>1. gridNet' = [gridNet EXCEPT ![k] = r]
      BY <2>1 DEF LoseGrid
    <3>2. r \in Request /\ Asks(r) = Asks(gridNet[k])
      BY <1>1 DEF Request, Asks
    <3> HIDE DEF r
    <3> QED BY <3>1, <3>2
  <2>2. CASE Serve(k)
    <3>0. PICK good \in BOOLEAN :
             gridNet' = [gridNet EXCEPT ![k] =
                [gridNet[k] EXCEPT !.at = "answered",
                                   !.reply = IF good /\ gridNet[k].kind = "grid"
                                             THEN Answer(gridNet[k].query, gridNet[k].page)
                                             ELSE NoReply]]
      BY <2>2 DEF Serve
    <3> DEFINE a == IF good /\ gridNet[k].kind = "grid"
                    THEN Answer(gridNet[k].query, gridNet[k].page) ELSE NoReply
               r == [gridNet[k] EXCEPT !.at = "answered", !.reply = a]
    <3>1. gridNet' = [gridNet EXCEPT ![k] = r]
      BY <3>0
    <3>2. a \in Reply
      <4>1. gridNet[k].page \in Nat \ {0}
        BY <1>1 DEF Request
      <4>2. <<>> \in Seq(Photo)
        OBVIOUS
      <4>3. NoReply \in Reply
        BY <4>2 DEF NoReply, Reply
      <4> QED BY <4>1, <4>3, AnswerType
    <3> HIDE DEF a
    <3>3. r \in Request /\ Asks(r) = Asks(gridNet[k])
      BY <1>1, <3>2 DEF Request, Asks
    <3> HIDE DEF r
    <3> QED BY <3>1, <3>3
  <2> QED BY <2>1, <2>2
<1>4. /\ gridNet' \in Seq(Request) /\ DOMAIN gridNet' = DOMAIN gridNet
      /\ \A j \in DOMAIN gridNet : gridNet'[j] = IF j = k THEN r ELSE gridNet[j]
  BY <1>1, <1>3
<1>5. \A j \in DOMAIN gridNet : Asks(gridNet'[j]) = Asks(gridNet[j])
  BY <1>3, <1>4
<1>6. NewestAsks'
  BY <1>1, <1>2, <1>4, <1>5, SameQuestions
<1> QED BY <1>1, <1>2, <1>4, <1>6, TypesFrom DEF GridInv

LEMMA Arrived == ASSUME GridInv, NEW k \in DOMAIN gridNet, Arrival(k) PROVE GridInv'
<1>1. /\ gridNet \in Seq(Request) /\ gridNet[k] \in Request /\ GridTypes /\ NewestAsks
      /\ gridSeq \in Nat /\ outcome \in {"busy", "ok", "failed"}
      /\ query \in Query /\ page \in Nat \ {0}
  BY SeqFacts DEF GridInv, GridTypes
<1>2. RemoveAt(gridNet, k) \in Seq(Request)
  BY <1>1, AfterRemoval
<1>3. Newest(k) => gridNet[k].query = query /\ gridNet[k].page = page
  BY <1>1 DEF NewestAsks
<1>4. CASE DeliverGrid(k)
  <2>1. /\ gridNet' = RemoveAt(gridNet, k) /\ gridNet[k].kind = "grid"
        /\ UNCHANGED <<search, time, query, page, gridSeq, selected>>
        /\ IF Newest(k) THEN outcome' = "ok" /\ listing' = Shown(gridNet[k])
                        ELSE UNCHANGED <<outcome, listing>>
    BY <1>4 DEF DeliverGrid, Newest
  <2>2. Shown(gridNet[k]).of = <<gridNet[k].query, gridNet[k].page>>
    BY DEF Shown
  <2>3. NewestAsks'
    BY <1>1, <1>3, <2>1, <2>2, RemovalKeeps
  <2> QED BY <1>1, <1>2, <2>1, <2>3, TypesFrom DEF GridInv
<1>5. CASE GridFails(k)
  <2>1. /\ gridNet' = RemoveAt(gridNet, k) /\ gridNet[k].kind = "grid"
        /\ UNCHANGED <<search, time, query, page, gridSeq, selected, listing>>
        /\ IF Newest(k) THEN outcome' = "failed" ELSE UNCHANGED outcome
    BY <1>5 DEF GridFails, Newest
  <2>2. NewestAsks'
    BY <1>1, <2>1, RemovalKeeps
  <2> QED BY <1>1, <1>2, <2>1, <2>2, TypesFrom DEF GridInv
<1>6. CASE DeliverBulk(k)
  <2> DEFINE net == RemoveAt(gridNet, k)
  <2>1. LoadGridAfter(net, query, page) /\ UNCHANGED <<search, time, query, page, listing>>
        /\ (UNCHANGED selected \/ selected' \subseteq Photo)
    BY <1>6 DEF DeliverBulk
  <2>2. \A j \in DOMAIN net : net[j].kind = "grid" => net[j].seq <= gridSeq
    <3>1. \A j \in DOMAIN net : \E i \in DOMAIN gridNet \ {k} : net[j] = gridNet[i]
      BY <1>1, AfterRemoval
    <3> QED BY <1>1, <3>1 DEF NewestAsks
  <2> HIDE DEF net
  <2>3. net \in Seq(Request)
    BY <1>2 DEF net
  <2>4. NewestAsks' /\ gridNet' \in Seq(Request) /\ gridSeq' \in Nat /\ outcome' = "busy"
    BY <1>1, <2>1, <2>2, <2>3, LoadKeeps
  <2> QED BY <1>1, <2>1, <2>4, TypesFrom DEF GridInv
<1>7. CASE BulkFails(k)
  <2>1. /\ gridNet' = RemoveAt(gridNet, k) /\ ~Newest(k)
        /\ UNCHANGED <<search, time, query, page, gridSeq, selected, listing, outcome>>
    BY <1>7 DEF BulkFails, BulkOps, Newest
  <2>2. NewestAsks'
    BY <1>1, <2>1, RemovalKeeps
  <2> QED BY <1>1, <1>2, <2>1, <2>2, TypesFrom DEF GridInv
<1> QED BY <1>4, <1>5, <1>6, <1>7 DEF Arrival

LEMMA GridKept == GridInv /\ [GridNext]_gridVars => GridInv'
<1> SUFFICES ASSUME GridInv, [GridNext]_gridVars PROVE GridInv'
  OBVIOUS
<1>1. CASE \/ \E t \in Term : SetTime(t)
           \/ SearchFires \/ TimeFires \/ ClearAllFilters
           \/ PagePrev \/ PageNext \/ JumpToLast \/ RefreshGrid
  BY <1>1, Loads
<1>2. CASE \/ \E t \in Term : TypeSearch(t) \/ TypeTime(t)
           \/ ToggleSelectMode \/ BulkSelectAll \/ BulkClear
           \/ \E i \in Photo : ToggleItemSelected(i) \/ LongPress(i) \/ Elsewhere(i)
           \/ UNCHANGED gridVars
  BY <1>2, Selections
<1>3. CASE \E op \in BulkOps : Bulk(op)
  BY <1>3, BulkSent
<1>4. CASE \E k \in DOMAIN gridNet : Serve(k) \/ LoseGrid(k) \/ Arrival(k)
  BY <1>4, ServedOrLost, Arrived
<1> QED BY <1>1, <1>2, <1>3, <1>4 DEF GridNext

(* Once the newest load has succeeded, what is listed answers the boxes and *)
(* the page the user is on, and the grid waits exactly as long as that load *)
(* is in flight: for any number of requests and every order of the answers  *)
(* (web.py:3576-3633).                                                      *)
THEOREM GridTellsNewest == GridSpec => []GridShowsNewest
<1>1. GridInv => GridShowsNewest
  BY DEF GridInv, NewestAsks, Newest, GridShowsNewest
<1> QED BY <1>1, GridInitially, GridKept, PTL DEF GridSpec

(* The tiles that are drawn bear the marks of the selection, whatever the   *)
(* selection, the answers and the bulk actions do in between                *)
(* (web.py:3359-3412).                                                      *)
THEOREM MarksAreSelection == GridSpec => []MarksTellSelection
<1>1. GridInit => MarksTellSelection
  BY DEF GridInit, MarksTellSelection
<1>2. ASSUME MarksTellSelection, [GridNext]_gridVars PROVE MarksTellSelection'
  <2>1. CASE tiles' = <<>>
    BY <2>1 DEF MarksTellSelection
  <2>2. CASE tiles' = Repainted(selected')
    BY <2>2 DEF MarksTellSelection, Repainted
  <2>3. CASE \E items : tiles' = Painted(items, selected')
    BY <2>3 DEF MarksTellSelection, Painted
  <2>4. CASE UNCHANGED <<tiles, selected>>
    BY <1>2, <2>4 DEF MarksTellSelection
  <2>5. CASE \E i \in Photo : ToggleItemSelected(i)
    <3>1. PICK i \in Photo : ToggleItemSelected(i)
      BY <2>5
    <3>2. /\ DOMAIN tiles' = DOMAIN tiles
          /\ \A j \in DOMAIN tiles : tiles'[j] = IF j = i THEN i \in selected' ELSE tiles[j]
          /\ \A j \in DOMAIN tiles : j # i => (j \in selected' <=> j \in selected)
      BY <3>1 DEF ToggleItemSelected
    <3> QED BY <1>2, <3>2 DEF MarksTellSelection
  <2>6. \/ tiles' = <<>> \/ tiles' = Repainted(selected')
        \/ \E items : tiles' = Painted(items, selected')
        \/ UNCHANGED <<tiles, selected>>
        \/ \E i \in Photo : ToggleItemSelected(i)
    <3>1. CASE \E t \in Term : TypeSearch(t) \/ TypeTime(t) \/ SetTime(t)
      BY <3>1 DEF TypeSearch, TypeTime, SetTime, LoadGrid, LoadGridAfter
    <3>2. CASE SearchFires \/ TimeFires \/ ClearAllFilters
      BY <3>2 DEF SearchFires, TimeFires, ClearAllFilters, LoadGrid, LoadGridAfter
    <3>3. CASE PagePrev \/ PageNext \/ JumpToLast \/ RefreshGrid
      BY <3>3 DEF PagePrev, PageNext, JumpToLast, RefreshGrid, Turn, LoadGrid, LoadGridAfter
    <3>4. CASE ToggleSelectMode \/ BulkSelectAll \/ BulkClear
      BY <3>4 DEF ToggleSelectMode, BulkSelectAll, BulkClear, Repainted
    <3>5. CASE \E i \in Photo : ToggleItemSelected(i) \/ LongPress(i) \/ Elsewhere(i)
      BY <3>5 DEF LongPress, Elsewhere
    <3>6. CASE \E op \in BulkOps : Bulk(op)
      BY <3>6 DEF Bulk
    <3>7. CASE \E k \in DOMAIN gridNet : Serve(k) \/ LoseGrid(k) \/ Arrival(k)
      BY <3>7 DEF Serve, LoseGrid, Arrival, DeliverGrid, GridFails, DeliverBulk, BulkFails,
         LoadGridAfter
    <3>8. CASE UNCHANGED gridVars
      BY <3>8 DEF gridVars
    <3> QED BY <1>2, <3>1, <3>2, <3>3, <3>4, <3>5, <3>6, <3>7, <3>8 DEF GridNext
  <2> QED BY <2>1, <2>2, <2>3, <2>4, <2>5, <2>6
<1> QED BY <1>1, <1>2, PTL DEF GridSpec

(***************************************************************************)
(* What the page has called added to a slideshow stays there.              *)
(***************************************************************************)
Panel == [target : Title \cup {NoTitle}, picker : [adds : Seq(Id), names : SUBSET Title],
          bar : BOOLEAN, shown : SUBSET Title]

(* Since its b-th cut, slideshow n has held photo i.                        *)
Holds(n, i, b) ==
    /\ n \in Title /\ b \in Nat /\ b <= age[n]
    /\ b = age[n] => lists[n] # NoTitle /\ i \in Elements(lists[n])

(* A request to add names a slideshow, and its answer, unless it refuses,   *)
(* tells of photos that are there.                                          *)
PostOK(x) ==
    /\ x.kind \in {"add", "create", "delete"} => x.name \in Title
    /\ x.adds \in Seq(Id)
    /\ x.at = "back" => x.names \subseteq Title
    /\ x.kind = "add" /\ x.at = "back" /\ x.ok =>
            \A i \in Elements(x.adds) : Holds(x.name, i, x.born)

ShopOK ==
    /\ lists \in [Title -> Seq(Id) \cup {NoTitle}] /\ saved \in [Title -> Seq(Id) \cup {NoTitle}]
    /\ \A n \in Title : lists[n] # NoTitle => Distinct(lists[n])
    /\ \A n \in Title : saved[n] # NoTitle => Distinct(saved[n])
    /\ age \in [Title -> Nat]
    /\ unsaved \in Nat /\ (unsaved = 0 => saved = lists)

PageOK ==
    /\ panel \in Panel
    /\ \A x \in posts : PostOK(x)
    /\ \A s \in said : Holds(s[1], s[2], s[3])

PlaylistInv == ShopOK /\ PageOK

(* Nothing is dropped from a slideshow whose age stays.                     *)
Grows ==
    \A n \in Title :
        /\ age'[n] \in Nat /\ age[n] <= age'[n]
        /\ age'[n] = age[n] /\ lists[n] # NoTitle =>
              lists'[n] # NoTitle /\ Elements(lists[n]) \subseteq Elements(lists'[n])

LEMMA HoldsOn ==
  ASSUME ShopOK, Grows, NEW n, NEW i, NEW b, Holds(n, i, b)
  PROVE  Holds(n, i, b)'
<1>1. n \in Title /\ b \in Nat /\ age[n] \in Nat /\ age'[n] \in Nat /\ age[n] <= age'[n] /\ b <= age[n]
  BY DEF Holds, ShopOK, Grows
<1>2. CASE b = age'[n]
  <2>1. b = age[n] /\ age'[n] = age[n]
    BY <1>1, <1>2
  <2>2. lists[n] # NoTitle /\ i \in Elements(lists[n])
    BY <2>1 DEF Holds
  <2>3. lists'[n] # NoTitle /\ i \in Elements(lists'[n])
    BY <1>1, <2>1, <2>2 DEF Grows
  <2> QED BY <1>1, <2>1, <2>3 DEF Holds
<1>3. CASE b # age'[n]
  BY <1>1, <1>3 DEF Holds
<1> QED BY <1>2, <1>3

LEMMA PostHolds == ASSUME ShopOK, Grows, NEW x, PostOK(x) PROVE PostOK(x)'
  BY HoldsOn DEF PostOK

-----------------------------------------------------------------------------
(* The store.                                                               *)
LEMMA Saves ==
  ASSUME ShopOK, SavePlaylists, lists' \in [Title -> Seq(Id) \cup {NoTitle}],
         \A n \in Title : lists'[n] # NoTitle => Distinct(lists'[n]), age' \in [Title -> Nat]
  PROVE  ShopOK'
  BY DEF ShopOK, SavePlaylists

(* One list becomes another, none the empty one for the first time.         *)
LEMMA Becomes ==
  ASSUME ShopOK, NEW n \in Title, NEW l \in Seq(Id) \cup {NoTitle}, l # NoTitle => Distinct(l),
         lists' = [lists EXCEPT ![n] = l], SavePlaylists,
         \/ age' = [age EXCEPT ![n] = @ + 1]
         \/ UNCHANGED age /\ (lists[n] # NoTitle =>
                l # NoTitle /\ Elements(lists[n]) \subseteq Elements(l))
  PROVE  ShopOK' /\ Grows
<1>1. lists \in [Title -> Seq(Id) \cup {NoTitle}] /\ age \in [Title -> Nat]
      /\ \A m \in Title : lists[m] # NoTitle => Distinct(lists[m])
  BY DEF ShopOK
<1>2. lists' \in [Title -> Seq(Id) \cup {NoTitle}]
      /\ \A m \in Title : lists'[m] = IF m = n THEN l ELSE lists[m]
  BY <1>1
<1>3. age' \in [Title -> Nat] /\ \A m \in Title : \/ age'[m] = age[m]
                                                  \/ m = n /\ age'[m] = age[m] + 1
  BY <1>1
<1>4. ShopOK'
  <2>1. \A m \in Title : lists'[m] # NoTitle => Distinct(lists'[m])
    BY <1>1, <1>2
  <2> QED BY <1>2, <1>3, <2>1, Saves
<1>5. Grows
  <2> SUFFICES ASSUME NEW m \in Title
               PROVE  /\ age'[m] \in Nat /\ age[m] <= age'[m]
                      /\ age'[m] = age[m] /\ lists[m] # NoTitle =>
                           lists'[m] # NoTitle /\ Elements(lists[m]) \subseteq Elements(lists'[m])
    BY DEF Grows
  <2>1. age[m] \in Nat /\ age'[m] \in Nat /\ age[m] <= age'[m]
    BY <1>1, <1>3
  <2>2. CASE m # n
    BY <1>2, <2>1, <2>2
  <2>3. CASE m = n /\ age'[m] = age[m] + 1
    BY <2>1, <2>3
  <2>4. CASE m = n /\ age'[m] # age[m] + 1
    <3>1. lists'[m] = l
      BY <1>2, <2>4
    <3>2. UNCHANGED age
      BY <1>1, <2>4
    <3> QED BY <1>1, <2>1, <2>4, <3>1, <3>2
  <2> QED BY <2>2, <2>3, <2>4
<1> QED BY <1>4, <1>5

LEMMA StoreSteps ==
  ASSUME ShopOK, NEW n \in Title,
         \/ CreatePlaylist(n) \/ DeletePlaylist(n)
         \/ \E i \in Id : RemoveItem(n, i)
         \/ \E ids \in Seq(Id) : AddItems(n, ids)
  PROVE  ShopOK' /\ Grows
<1>1. /\ lists[n] \in Seq(Id) \cup {NoTitle} /\ (lists[n] # NoTitle => Distinct(lists[n]))
      /\ lists \in [Title -> Seq(Id) \cup {NoTitle}]
  BY DEF ShopOK
<1>2. CASE CreatePlaylist(n)
  <2>1. <<>> \in Seq(Id)
    OBVIOUS
  <2> QED BY <1>2, <2>1, DistinctEmpty, Becomes DEF CreatePlaylist
<1>3. CASE DeletePlaylist(n)
  BY <1>3, Becomes DEF DeletePlaylist
<1>4. ASSUME NEW i \in Id, RemoveItem(n, i) PROVE ShopOK' /\ Grows
  <2>1. lists[n] \in Seq(Id) /\ Distinct(lists[n]) /\ lists' = [lists EXCEPT ![n] = Without(lists[n], i)]
        /\ age' = [age EXCEPT ![n] = @ + 1] /\ SavePlaylists
    BY <1>1, <1>4 DEF RemoveItem
  <2>2. Without(lists[n], i) \in Seq(Id) /\ Distinct(Without(lists[n], i))
    BY <2>1, WithoutFacts, Zenon
  <2> QED BY <2>1, <2>2, Becomes
<1>5. ASSUME NEW ids \in Seq(Id), AddItems(n, ids) PROVE ShopOK' /\ Grows
  <2>1. lists[n] \in Seq(Id) /\ Distinct(lists[n]) /\ lists' = [lists EXCEPT ![n] = Extended(lists[n], ids)]
        /\ UNCHANGED age /\ SavePlaylists
    BY <1>1, <1>5 DEF AddItems
  <2>2. Extended(lists[n], ids) \in Seq(Id)
    BY <2>1, ExtendedType, Zenon
  <2>3. Distinct(Extended(lists[n], ids))
        /\ Elements(Extended(lists[n], ids)) = Elements(lists[n]) \cup Elements(ids)
    BY <2>1, ExtendedFacts, Zenon
  <2>4. Extended(lists[n], ids) # NoTitle
    BY <2>2, NoTitleAssumption
  <2> QED BY <2>1, <2>2, <2>3, <2>4, Becomes
<1> QED BY <1>2, <1>3, <1>4, <1>5

(* Added photos are there.                                                  *)
LEMMA AddedAreThere ==
  ASSUME ShopOK, NEW n \in Title, NEW ids \in Seq(Id), AddItems(n, ids)
  PROVE  \A i \in Elements(ids) : lists'[n] # NoTitle /\ i \in Elements(lists'[n])
<1>1. lists[n] \in Seq(Id) /\ lists'[n] = Extended(lists[n], ids)
  BY DEF ShopOK, AddItems
<1>2. Extended(lists[n], ids) \in Seq(Id)
  BY <1>1, ExtendedType, Zenon
<1>3. \A t \in Seq(Id) : /\ Elements(Extended(lists[n], t)) = Elements(lists[n]) \cup Elements(t)
                         /\ Distinct(lists[n]) => Distinct(Extended(lists[n], t))
  BY <1>1, ExtendedFacts, Zenon
<1>4. lists'[n] # NoTitle /\ Elements(ids) \subseteq Elements(lists'[n])
  <2>1. Elements(Extended(lists[n], ids)) = Elements(lists[n]) \cup Elements(ids)
    BY <1>3, Zenon
  <2> QED BY <1>1, <1>2, <2>1, NoTitleAssumption
<1> QED BY <1>4

(* A restart cuts what it loses.                                            *)
LEMMA RestartLoses == ASSUME ShopOK, RestartPlaylists PROVE ShopOK' /\ Grows
<1>1. /\ lists' = saved /\ UNCHANGED <<saved, unsaved>> /\ unsaved # 0
      /\ age \in [Title -> Nat] /\ unsaved \in Nat
      /\ age' = [n \in Title |-> IF unsaved > 0 /\ saved[n] # lists[n] THEN age[n] + 1 ELSE age[n]]
  BY DEF ShopOK, RestartPlaylists
<1>2. age' \in [Title -> Nat] /\ \A n \in Title :
         age'[n] = IF saved[n] # lists[n] THEN age[n] + 1 ELSE age[n]
  BY <1>1
<1>3. ShopOK'
  BY <1>1, <1>2 DEF ShopOK
<1>4. Grows
  BY <1>1, <1>2 DEF Grows
<1> QED BY <1>3, <1>4

-----------------------------------------------------------------------------
(* The page.                                                                *)
LEMMA PageKeeps ==
  ASSUME PlaylistInv, ShopOK', Grows, panel' \in Panel,
         \A x \in posts' : x \in posts \/ PostOK(x)',
         \A s \in said' : s \in said \/ Holds(s[1], s[2], s[3])'
  PROVE  PlaylistInv'
<1>1. ShopOK /\ (\A x \in posts : PostOK(x)) /\ (\A s \in said : Holds(s[1], s[2], s[3]))
  BY DEF PlaylistInv, PageOK
<1>2. \A x \in posts' : PostOK(x)'
  BY <1>1, PostHolds
<1>3. \A s \in said' : Holds(s[1], s[2], s[3])'
  BY <1>1, HoldsOn
<1> QED BY <1>2, <1>3 DEF PlaylistInv, PageOK

(* The store is left alone.                                                 *)
LEMMA ShopSame == ASSUME ShopOK, UNCHANGED shopVars PROVE ShopOK' /\ Grows
  BY DEF ShopOK, Grows, shopVars

(* A request on its way to the server holds nothing yet.                    *)
LEMMA SentOK ==
  ASSUME NEW kind, NEW n, NEW ids \in Seq(Id),
         kind \in {"add", "create", "delete"} => n \in Title
  PROVE  PostOK([kind |-> kind, name |-> n, adds |-> ids, at |-> "sent"])'
  BY DEF PostOK

LEMMA ReloadOK ==
  ASSUME NEW net, NEW x, x \in Reload(net) PROVE x \in net \/ PostOK(x)'
<1> DEFINE r == [kind |-> "list", name |-> NoTitle, adds |-> <<>>, at |-> "sent"]
<1>1. <<>> \in Seq(Id)
  OBVIOUS
<1>2. PostOK(r)'
  BY <1>1, SentOK
<1>3. x \in net \/ x = r
  BY DEF Reload, Posted
<1> HIDE DEF r
<1> QED BY <1>2, <1>3

LEMMA Presses ==
  ASSUME PlaylistInv,
         \/ \E ids \in Bunch : PressAdd(ids) \/ PressChange(ids)
         \/ \E n \in Title : PickName(n) \/ PressDelete(n)
                             \/ \E ids \in Bunch \cup {<<>>} : PressCreate(n, ids)
  PROVE  PlaylistInv'
<1>1. ShopOK /\ panel \in Panel
  BY DEF PlaylistInv, PageOK
<1>2. panel.picker.adds \in Seq(Id) /\ (panel.target # NoTitle => panel.target \in Title)
  BY <1>1 DEF Panel
<1>3. <<>> \in Seq(Id) /\ Bunch \subseteq Seq(Id)
  BY BunchAssumption
<1> DEFINE Does(kind, n, ids) ==
             /\ kind \in {"add", "create", "delete"} => n \in Title
             /\ Post(kind, n, ids) /\ UNCHANGED <<shopVars, said>> /\ panel' \in Panel
<1>4. \E kind, n : \E ids \in Seq(Id) : Does(kind, n, ids)
  <2>1. ASSUME NEW ids \in Bunch, PressAdd(ids), panel.target # NoTitle
        PROVE  Does("add", panel.target, ids)
    BY <1>1, <1>2, <2>1 DEF PressAdd
  <2>2. ASSUME NEW ids \in Bunch, PressAdd(ids), panel.target = NoTitle
        PROVE  Does("list", NoTitle, ids)
    <3>1. /\ panel' = [panel EXCEPT !.picker = [adds |-> ids, names |-> {}]]
          /\ Post("list", NoTitle, ids) /\ UNCHANGED <<shopVars, said>>
      BY <2>2 DEF PressAdd
    <3>2. panel' \in Panel
      BY <1>1, <1>3, <3>1 DEF Panel
    <3> QED BY <3>1, <3>2
  <2>3. ASSUME NEW ids \in Bunch, PressChange(ids) PROVE Does("list", NoTitle, ids)
    <3>1. panel' \in Panel
      BY <1>1, <1>3, <2>3 DEF Panel, PressChange
    <3> QED BY <2>3, <3>1 DEF PressChange
  <2>4. ASSUME NEW n \in Title, PickName(n) PROVE Does("add", n, panel.picker.adds)
    BY <1>1, <2>4 DEF PickName
  <2>5. ASSUME NEW n \in Title, PressDelete(n) PROVE Does("delete", n, <<>>)
    BY <1>1, <2>5 DEF PressDelete
  <2>6. ASSUME NEW n \in Title, NEW ids \in Bunch \cup {<<>>}, PressCreate(n, ids)
        PROVE  Does("create", n, ids)
    BY <1>1, <2>6 DEF PressCreate
  <2> HIDE DEF Does
  <2>7. CASE \E ids \in Bunch : PressAdd(ids) \/ PressChange(ids)
    BY <1>3, <2>1, <2>2, <2>3, <2>7
  <2>8. CASE \E n \in Title : PickName(n) \/ PressDelete(n)
    BY <1>2, <1>3, <2>4, <2>5, <2>8
  <2>9. CASE \E n \in Title : \E ids \in Bunch \cup {<<>>} : PressCreate(n, ids)
    BY <1>3, <2>6, <2>9
  <2> QED BY <2>7, <2>8, <2>9
<1>41. PICK kind, n : \E ids \in Seq(Id) : Does(kind, n, ids)
  BY <1>4
<1>42. PICK ids \in Seq(Id) : Does(kind, n, ids)
  BY <1>41
<1> DEFINE r == [kind |-> kind, name |-> n, adds |-> ids, at |-> "sent"]
<1>5. posts' = posts \cup {r}
  BY <1>42 DEF Post
<1>6. PostOK(r)'
  BY <1>42, SentOK
<1> HIDE DEF r
<1>7. ShopOK' /\ Grows
  BY <1>1, <1>42, ShopSame
<1> QED BY <1>42, <1>5, <1>6, <1>7, PageKeeps

LEMMA OthersAndTimers ==
  ASSUME PlaylistInv,
         \/ \E n \in Title : OtherPage(n)
         \/ RestartPlaylists \/ Forget \/ HideBar \/ UNCHANGED playlistVars
  PROVE  PlaylistInv'
<1>1. ShopOK /\ panel \in Panel
  BY DEF PlaylistInv, PageOK
<1>2. ASSUME NEW n \in Title, OtherPage(n) PROVE PlaylistInv'
  <2>1. ASSUME NEW i \in Id PROVE <<i>> \in Seq(Id)
    OBVIOUS
  <2>2. ShopOK' /\ Grows
    BY <1>1, <1>2, <2>1, StoreSteps DEF OtherPage
  <2> QED BY <1>1, <1>2, <2>2, PageKeeps DEF OtherPage
<1>3. CASE RestartPlaylists
  BY <1>1, <1>3, RestartLoses, PageKeeps DEF RestartPlaylists
<1>4. CASE Forget \/ HideBar
  <2>1. panel' \in Panel
    BY <1>1, <1>4 DEF Forget, HideBar, Panel
  <2>2. UNCHANGED <<shopVars, posts, said>>
    BY <1>4 DEF Forget, HideBar
  <2> QED BY <1>1, <2>1, <2>2, ShopSame, PageKeeps
<1>5. CASE UNCHANGED playlistVars
  BY <1>1, <1>5, ShopSame, PageKeeps DEF playlistVars, shopVars
<1> QED BY <1>2, <1>3, <1>4, <1>5

(* Delivery.                                                                *)
LEMMA Served == ASSUME PlaylistInv, NEW x \in posts, ServePost(x) PROVE PlaylistInv'
<1>1. ShopOK /\ panel \in Panel /\ PostOK(x) /\ x.at = "sent"
  BY DEF PlaylistInv, PageOK, ServePost
<1>2. x.adds \in Seq(Id) /\ (x.kind \in {"add", "create", "delete"} => x.name \in Title)
  BY <1>1 DEF PostOK
<1>3. ShopOK' /\ Grows
  BY <1>1, <1>2, StoreSteps, ShopSame DEF ServePost
<1>4. PICK ok : /\ Answered(x, ok)
                /\ x.kind = "add" /\ ok => AddItems(x.name, x.adds)
  <2>1. CASE x.kind = "add" /\ AddItems(x.name, x.adds) /\ Answered(x, TRUE)
    BY <2>1
  <2>2. CASE x.kind # "add" /\ \E ok \in BOOLEAN : Answered(x, ok)
    BY <2>2
  <2>3. CASE Answered(x, FALSE)
    BY <2>3
  <2> QED BY <2>1, <2>2, <2>3 DEF ServePost
<1>7. PICK born : born = IF x.name = NoTitle THEN 0 ELSE age[x.name]
  OBVIOUS
<1>8. PICK names : names = Names
  OBVIOUS
<1> DEFINE r == [kind |-> x.kind, name |-> x.name, adds |-> x.adds, at |-> "back", ok |-> ok,
                 names |-> names, born |-> born]
<1>5. posts' = (posts \ {x}) \cup {r}
  BY <1>4, <1>7, <1>8 DEF Answered
<1>6. PostOK(r)'
  <2>1. names \subseteq Title
    BY <1>8 DEF Names
  <2>2. ASSUME x.kind = "add", ok, NEW i \in Elements(x.adds) PROVE Holds(x.name, i, born)'
    <3>1. AddItems(x.name, x.adds) /\ x.name \in Title /\ born = age[x.name]
      BY <1>2, <1>4, <1>7, <2>2, NoTitleAssumption
    <3>2. lists'[x.name] # NoTitle /\ i \in Elements(lists'[x.name])
      BY <1>1, <1>2, <3>1, AddedAreThere
    <3>3. age' = age /\ age[x.name] \in Nat
      BY <1>1, <3>1 DEF AddItems, ShopOK
    <3> QED BY <3>1, <3>2, <3>3 DEF Holds
  <2> QED BY <1>2, <2>1, <2>2 DEF PostOK
<1> HIDE DEF r
<1> QED BY <1>1, <1>3, <1>5, <1>6, PageKeeps DEF ServePost

LEMMA CameBack ==
  ASSUME PlaylistInv, NEW x \in posts,
         LosePost(x) \/ AddBack(x) \/ CreateBack(x) \/ DeleteBack(x) \/ ListBack(x)
  PROVE  PlaylistInv'
<1>1. ShopOK /\ panel \in Panel /\ PostOK(x) /\ UNCHANGED shopVars
  BY DEF PlaylistInv, PageOK, LosePost, AddBack, CreateBack, DeleteBack, ListBack
<1>2. ShopOK' /\ Grows
  BY <1>1, ShopSame
<1>3. x.adds \in Seq(Id) /\ (x.kind \in {"add", "create", "delete"} => x.name \in Title)
  BY <1>1 DEF PostOK
<1>4. <<>> \in Seq(Id)
  OBVIOUS
<1>5. CASE LosePost(x)
  BY <1>1, <1>2, <1>5, PageKeeps DEF LosePost
<1>6. CASE AddBack(x)
  <2>1. panel' \in Panel
    BY <1>1, <1>3, <1>4, <1>6 DEF AddBack, Panel, NoPicker
  <2>2. \A y \in posts' : y \in posts \/ PostOK(y)'
    BY <1>6, ReloadOK DEF AddBack
  <2>3. \A s \in said' : s \in said \/ Holds(s[1], s[2], s[3])'
    <3> SUFFICES ASSUME NEW i \in Elements(x.adds), x.ok PROVE Holds(x.name, i, x.born)'
      BY <1>6 DEF AddBack
    <3>1. Holds(x.name, i, x.born)
      BY <1>1, <1>6 DEF AddBack, PostOK
    <3> QED BY <1>1, <1>2, <3>1, HoldsOn
  <2> QED BY <1>2, <2>1, <2>2, <2>3, PageKeeps
<1>7. CASE CreateBack(x)
  <2> DEFINE r == [kind |-> "add", name |-> x.name, adds |-> x.adds, at |-> "sent"]
  <2>1. PostOK(r)'
    BY <1>3, <1>7, SentOK DEF CreateBack
  <2>2. \/ posts' = Posted(posts \ {x}, r)
        \/ posts' = Reload(posts \ {x}) \/ posts' = posts \ {x}
    BY <1>7 DEF CreateBack
  <2> HIDE DEF r
  <2>3. \A y \in posts' : y \in posts \/ PostOK(y)'
    BY <2>1, <2>2, ReloadOK DEF Posted
  <2> QED BY <1>1, <1>2, <1>7, <2>3, PageKeeps DEF CreateBack
<1>8. CASE DeleteBack(x)
  <2>1. \A y \in posts' : y \in posts \/ PostOK(y)'
    BY <1>8, ReloadOK DEF DeleteBack
  <2> QED BY <1>1, <1>2, <1>8, <2>1, PageKeeps DEF DeleteBack
<1>9. CASE ListBack(x)
  <2>1. x.names \subseteq Title
    BY <1>1, <1>9 DEF ListBack, PostOK
  <2>2. panel' \in Panel
    BY <1>1, <1>9, <2>1 DEF ListBack, Panel
  <2> QED BY <1>2, <1>9, <2>2, PageKeeps DEF ListBack
<1> QED BY <1>5, <1>6, <1>7, <1>8, <1>9

LEMMA PlaylistInitially == PlaylistInit => PlaylistInv
<1> SUFFICES ASSUME PlaylistInit PROVE PlaylistInv
  OBVIOUS
<1>1. <<>> \in Seq(Id)
  OBVIOUS
<1>2. lists \in [Title -> {NoTitle, <<>>}] /\ saved = lists
  BY DEF PlaylistInit
<1>3. \A n \in Title : lists[n] # NoTitle => lists[n] = <<>>
  BY <1>2
<1>4. ShopOK
  <2>1. lists \in [Title -> Seq(Id) \cup {NoTitle}]
    BY <1>1, <1>2
  <2>2. age \in [Title -> Nat] /\ unsaved = 0
    BY DEF PlaylistInit
  <2> QED BY <1>2, <1>3, <2>1, <2>2, DistinctEmpty DEF ShopOK
<1>5. PageOK
  BY <1>1 DEF PlaylistInit, PageOK, Panel, NoPicker
<1> QED BY <1>4, <1>5 DEF PlaylistInv

LEMMA PlaylistKept == PlaylistInv /\ [PlaylistNext]_playlistVars => PlaylistInv'
<1> SUFFICES ASSUME PlaylistInv, [PlaylistNext]_playlistVars PROVE PlaylistInv'
  OBVIOUS
<1>1. CASE \/ \E n \in Title : OtherPage(n)
           \/ RestartPlaylists \/ Forget \/ HideBar \/ UNCHANGED playlistVars
  BY <1>1, OthersAndTimers
<1>2. CASE \/ \E ids \in Bunch : PressAdd(ids) \/ PressChange(ids)
           \/ \E n \in Title : PickName(n) \/ PressDelete(n)
                               \/ \E ids \in Bunch \cup {<<>>} : PressCreate(n, ids)
  BY <1>2, Presses
<1>3. CASE \E x \in posts : ServePost(x) \/ LosePost(x) \/ AddBack(x) \/ CreateBack(x)
                           \/ DeleteBack(x) \/ ListBack(x)
  BY <1>3, Served, CameBack
<1> QED BY <1>1, <1>2, <1>3 DEF PlaylistNext

(* A photo the page has called added is in that slideshow exactly once      *)
(* until somebody removes it, deletes the slideshow or loses an unsaved     *)
(* change by a restart, for any number of slideshows, photos, pages and     *)
(* requests (playlists.py:51-102; web.py:4472-4612).                        *)
THEOREM PlaylistAddedStays == PlaylistSpec => []AddedStays
<1>1. PlaylistInv => AddedStays
  <2> SUFFICES ASSUME PlaylistInv, NEW s \in said, s[3] = age[s[1]]
               PROVE  /\ lists[s[1]] # NoTitle
                      /\ Cardinality({k \in DOMAIN lists[s[1]] : lists[s[1]][k] = s[2]}) = 1
    BY DEF AddedStays
  <2> DEFINE l == lists[s[1]]
  <2>1. s[1] \in Title /\ l # NoTitle /\ s[2] \in Elements(l)
    BY DEF PlaylistInv, PageOK, Holds
  <2>2. Distinct(l)
    BY <2>1 DEF PlaylistInv, ShopOK
  <2> HIDE DEF l
  <2>3. PICK k \in DOMAIN l : l[k] = s[2]
    BY <2>1 DEF Elements
  <2>4. {j \in DOMAIN l : l[j] = s[2]} = {k}
    BY <2>2, <2>3 DEF Distinct
  <2>5. Cardinality({k}) = 1
    BY FS_Singleton
  <2> QED BY <2>1, <2>4, <2>5 DEF l
<1> QED BY <1>1, PlaylistInitially, PlaylistKept, PTL DEF PlaylistSpec

=============================================================================
