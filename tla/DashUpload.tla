----------------------------- MODULE DashUpload -----------------------------
(***************************************************************************)
(* Uploading from the dashboard (the script in api/web.py, "Upload"): a    *)
(* dropped folder is walked, then its files go up in at most Lanes         *)
(* requests at a time; each end of a request counts and starts the next,   *)
(* and the last one refreshes the page.  Batches run side by side.         *)
(*                                                                         *)
(* Abstractions.  A file is its index in the batch; progress bars, rows    *)
(* and wording are left out.  The browser lists a folder in parts and may  *)
(* fail at any of them.                                                    *)
(***************************************************************************)
EXTENDS Naturals, FiniteSets, SequencesExt

CONSTANTS
    Lanes,      \* CONCURRENCY
    MaxFiles,   \* bound: entries found in one drop
    MaxDrops    \* bound: drops and picks

ASSUME LanesAssumption == Lanes \in Nat \ {0}

VARIABLES
    walks,      \* the drops being walked: [dirs, files, out, found]
    batches,    \* the batches whose files go up
    drops, refreshes

uploadVars == <<walks, batches, drops, refreshes>>

Ends == {"ok", "dup", "err"}

Smaller(n, k) == IF n < k THEN n ELSE k

(* handleFiles: the rows, the counters, and the first lanes; with no photo  *)
(* among the files it says so and starts nothing.                           *)
HandleFiles(n) ==
    batches' = IF n = 0 THEN batches
               ELSE Append(batches,
                      [total |-> n, idx |-> Smaller(Lanes, n),
                       flying |-> 1 .. Smaller(Lanes, n), ended |-> [e \in Ends |-> 0]])

Completed(b) == b.ended["ok"] + b.ended["dup"] + b.ended["err"]

Drop == drops < MaxDrops /\ drops' = drops + 1

(* Files chosen in the dialog. *)
PickFiles(n) ==
    /\ Drop
    /\ HandleFiles(n)
    /\ UNCHANGED <<walks, refreshes>>

(* filesFromDrop on a folder: dirs holds, for every folder being listed,    *)
(* what it has seen so far; files counts the entries whose file is awaited. *)
DropFolder ==
    /\ Drop
    /\ walks' = Append(walks, [dirs |-> <<[files |-> 0, dirs |-> 0]>>, files |-> 0,
                               out |-> 0, found |-> 0])
    /\ UNCHANGED <<batches, refreshes>>

(* readEntries brings another part of folder d's listing. *)
ReadMore(w, d) ==
    /\ walks[w].found < MaxFiles
    /\ \E part \in {"files", "dirs"} :
         walks' = [walks EXCEPT ![w].dirs[d][part] = @ + 1, ![w].found = @ + 1]
    /\ UNCHANGED <<batches, drops, refreshes>>

(* The listing of d is complete: everything seen is walked in turn; or it   *)
(* failed, and what d had seen is given up.                                 *)
ListingEnds(w, d) ==
    LET seen == walks[w].dirs[d]
        rest == RemoveAt(walks[w].dirs, d)
    IN  /\ \/ walks' = [walks EXCEPT ![w].files = @ + seen.files,
                  ![w].dirs = rest \o [k \in 1 .. seen.dirs |-> [files |-> 0, dirs |-> 0]]]
           \/ walks' = [walks EXCEPT ![w].dirs = rest]
        /\ UNCHANGED <<batches, drops, refreshes>>

(* An entry yields its file, or an error. *)
EntryFile(w) ==
    /\ walks[w].files > 0
    /\ \E got \in 0 .. 1 :
         walks' = [walks EXCEPT ![w].files = @ - 1, ![w].out = @ + got]
    /\ UNCHANGED <<batches, drops, refreshes>>

(* Every promise of the walk is resolved. *)
WalkEnds(w) ==
    /\ walks[w].dirs = <<>> /\ walks[w].files = 0
    /\ HandleFiles(walks[w].out)
    /\ walks' = RemoveAt(walks, w)
    /\ UNCHANGED <<drops, refreshes>>

(* A slip of RequestEnds: an error does not come to done().                 *)
RequestEndsErrSilent(b, f, e) ==
    LET old == batches[b]
        next == IF old.idx < old.total /\ e # "err" THEN {old.idx + 1} ELSE {}
        new == [old EXCEPT !.flying = (@ \ {f}) \cup next,
                           !.idx = @ + Cardinality(next),
                           !.ended[e] = IF e = "err" THEN @ ELSE @ + 1]
    IN  /\ batches' = [batches EXCEPT ![b] = new]
        /\ refreshes' = IF Completed(new) = new.total THEN refreshes + 1 ELSE refreshes
        /\ UNCHANGED <<walks, drops>>

(* The request of file f ends, with 200, 409 or anything else: done counts  *)
(* it, refreshes the page after the last one and starts the next.           *)
RequestEnds(b, f, e) ==
    LET old == batches[b]
        next == IF old.idx < old.total THEN {old.idx + 1} ELSE {}
        new == [old EXCEPT !.flying = (@ \ {f}) \cup next,
                           !.idx = @ + Cardinality(next),
                           !.ended[e] = @ + 1]
    IN  /\ batches' = [batches EXCEPT ![b] = new]
        /\ refreshes' = IF Completed(new) = new.total THEN refreshes + 1 ELSE refreshes
        /\ UNCHANGED <<walks, drops>>

-----------------------------------------------------------------------------
UploadInit == walks = <<>> /\ batches = <<>> /\ drops = 0 /\ refreshes = 0

Walking == \E w \in DOMAIN walks :
               \/ EntryFile(w) \/ WalkEnds(w)
               \/ \E d \in DOMAIN walks[w].dirs : ListingEnds(w, d)

Sending == \E b \in DOMAIN batches : \E f \in batches[b].flying, e \in Ends :
               RequestEnds(b, f, e)

UploadNext ==
    \/ \E n \in 0 .. MaxFiles : PickFiles(n)
    \/ DropFolder
    \/ \E w \in DOMAIN walks : \E d \in DOMAIN walks[w].dirs : ReadMore(w, d)
    \/ Walking \/ Sending

(* The browser lists folders to the end, and every request ends: uploads    *)
(* have no timeout, but the connection has.                                 *)
UploadFairness == WF_uploadVars(Walking) /\ WF_uploadVars(Sending)

-----------------------------------------------------------------------------
(* Properties. *)

InFlight == \E b \in DOMAIN batches : batches[b].flying # {}

(* Whatever mixture of successes, duplicates and errors a drop meets, every *)
(* file of it is sent once and counted once, never more than Lanes at a     *)
(* time, and the page is refreshed once for every batch (web.py:2789-2845). *)
UploadsEnd ==
    /\ [](\A b \in DOMAIN batches : Cardinality(batches[b].flying) <= Lanes)
    /\ []<>(/\ walks = <<>> /\ ~InFlight
            /\ \A b \in DOMAIN batches : Completed(batches[b]) = batches[b].total
            /\ refreshes = Len(batches))
=============================================================================
