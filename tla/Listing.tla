------------------------------ MODULE Listing ------------------------------
(***************************************************************************)
(* What GET /media, /stats and /people promise: an answer is computed from *)
(* the library and the names as they are when the question is asked,       *)
(* however many caches stand in between.  A write made by a background     *)
(* thread may be seen or not while it is under way.                        *)
(***************************************************************************)
CONSTANTS
    Query,          \* the questions
    Fits(_, _, _),  \* Fits(record, names, q): the record is in answer to q
    Totals(_, _)    \* Totals(shelf, names): the figures of /stats and /people

VARIABLES
    shelf,      \* the library: a function from item ids to records
    shelfNext,  \* the library as the write under way will leave it
    called,     \* the name of every person
    answer      \* the last answer given

Hits(s, q) == {i \in DOMAIN s : Fits(s[i], called, q)}

(* The items served are those that match; each as it was matched, or as the *)
(* question itself left it (a stale record is brought up to date on the way *)
(* out).                                                                    *)
AskList(q) ==
    \E s \in {shelf, shelfNext} :
        /\ answer'.kind = "list" /\ answer'.q = q
        /\ DOMAIN answer'.value = Hits(s, q)
        /\ \A i \in Hits(s, q) : answer'.value[i] \in {s[i], shelfNext'[i]}
        /\ UNCHANGED called

AskTotals ==
    \E s \in {shelf, shelfNext} :
        /\ answer'.kind = "totals"
        /\ answer'.value = Totals(s, called)
        /\ UNCHANGED called

(* The library or the names change, and the answer was read.                *)
Write == answer' = [kind |-> "none"]

ListingInit == answer = [kind |-> "none"]
ListingNext == (\E q \in Query : AskList(q)) \/ AskTotals \/ Write
ListingSpec == ListingInit /\ [][ListingNext]_<<shelf, shelfNext, called, answer>>
=============================================================================
