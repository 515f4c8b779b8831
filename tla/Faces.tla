-------------------------------- MODULE Faces --------------------------------
(***************************************************************************)
(* Face recognition of the server: the per-face index (faces_index.py), the *)
(* people it is grouped into (people.py), the tags it leaves on the media   *)
(* items, the background worker that fills it (worker.py) and the HTTP      *)
(* handlers that correct it (api/routes.py).                                *)
(*                                                                          *)
(* Threads.  Handlers and the worker share one event loop, so a stretch     *)
(* without an await is one action.  Two things run in executor threads      *)
(* beside the loop: face detection, and recluster, which writes the index   *)
(* face by face and replaces the people at the end.  The interpreter may    *)
(* switch threads inside a face's write, so set_person is three steps there:*)
(* it reads the entry, _put unlinks what it then finds, and links the copy. *)
(*                                                                          *)
(* Abstractions.  An embedding is a Look, and `Alike' the pairs of looks    *)
(* whose cosine similarity reaches SIMILARITY_THRESHOLD; of several people  *)
(* alike enough any may be the most similar.  A person's centroid, count    *)
(* and sample items are functions of the faces they were computed from, so  *)
(* a record keeps that set as `made'.  Boxes, scores and orders are left    *)
(* out.  uuid4 never repeats: an id is fresh when nothing refers to it.     *)
(***************************************************************************)
EXTENDS Naturals, FiniteSets

CONSTANTS
    Item, Face, Person, Look, Name,
    None,        \* Python's None
    Alike,       \* pairs of looks a face is matched by
    Near,        \* pairs of names one typo apart
    Shows,       \* the looks detection finds in each item's photo
    Batch,       \* _BATCH_SIZE
    MaxEvents    \* bound: requests other than uploads, failed saves, restarts

ASSUME AlikeAssumption ==
    /\ Alike \subseteq Look \X Look
    /\ \A l \in Look : <<l, l>> \in Alike
    /\ \A l, k \in Look : <<l, k>> \in Alike => <<k, l>> \in Alike
ASSUME NearAssumption == Near \subseteq Name \X Name
ASSUME ShowsAssumption == Shows \in [Item -> SUBSET Look]
ASSUME FaceAssumption == IsFiniteSet(Face)
ASSUME BoundsAssumption == Batch \in Nat \ {0} /\ MaxEvents \in Nat

Owner == {"worker", "handler"}   \* for whom a recluster runs

(* A face's entry, a person's record, an item and a recluster.              *)
FaceType   == [item : Item, person : Person, look : Look]
PersonType == [name : Name \cup {None}, made : SUBSET Face]
ItemType   == [trashed : BOOLEAN, done : BOOLEAN, pids : SUBSET Person]
JobType ==
    [pc   : {"called", "clustering", "applying", "done"},
     old  : [Face -> FaceType \cup {None}], plan : [Face -> Person \cup {None}],
     next : [Person -> PersonType \cup {None}],
     todo : SUBSET Face, at : Face \cup {None}, entry : FaceType \cup {None},
     half : BOOLEAN, calm : BOOLEAN]
ASSUME NoneAssumption ==
    None \notin Item /\ None \notin Face /\ None \notin Person /\ None \notin FaceType
    /\ None \notin PersonType /\ None \notin ItemType /\ None \notin JobType

VARIABLES
    fs,      \* FaceStore: the entries and the two indexes over them
    people,  \* PersonStore._people
    lib,     \* MediaStore._items, as far as faces are concerned
    worker,  \* where the background worker is
    job,     \* the reclusters under way, at most one for each owner
    files,   \* people.jsonl, faces.jsonl and the media index
    faults,  \* how many saves failed and restarts happened
    asked,   \* how many requests other than uploads were made
    health   \* history: what undisturbed operation has been lost

facesVars == <<fs, people, lib, worker, job, files, faults, asked, health>>

FaceEntry(i, p, look) == [item |-> i, person |-> p, look |-> look]
NewPerson == [name |-> None, made |-> {}]
NewItem   == [trashed |-> FALSE, done |-> FALSE, pids |-> {}]

Asleep == [pc |-> "asleep", queue |-> {}, item |-> None, found |-> {}, pids |-> {},
           changed |-> FALSE, dirty |-> FALSE]

-----------------------------------------------------------------------------
(* FaceStore.  Every write goes through Put and Forget.                     *)

EmptyStore == [entry    |-> [f \in Face |-> None],
               byPerson |-> [p \in Person |-> {}],
               byItem   |-> [i \in Item |-> {}]]

Stored(s) == {f \in Face : s.entry[f] # None}

(* _unlink: drop face f, held as entry e, from the two indexes.             *)
Unlink(s, f, e) == [s EXCEPT !.byPerson[e.person] = @ \ {f}, !.byItem[e.item] = @ \ {f}]

(* the second half of _put: the entry and its links.                        *)
Link(s, f, e) == [s EXCEPT !.entry[f] = e,
                           !.byPerson[e.person] = @ \cup {f},
                           !.byItem[e.item] = @ \cup {f}]

(* A slip of Put: a replaced entry keeps its links.                          *)
PutKeepsLinks(s, f, e) == Link(s, f, e)

(* _put: insert or replace.                                                 *)
Put(s, f, e) ==
    Link(IF s.entry[f] = None THEN s ELSE Unlink(s, f, s.entry[f]), f, e)

(* _forget, of each face in F.                                              *)
Forget(s, F) ==
    [entry    |-> [f \in Face |-> IF f \in F THEN None ELSE s.entry[f]],
     byPerson |-> [p \in Person |->
                     s.byPerson[p] \ {f \in F : s.entry[f].person = p}],
     byItem   |-> [i \in Item |-> s.byItem[i] \ {f \in F : s.entry[f].item = i}]]

(* _entries: those of F that still have an entry.                           *)
Entries(s, F) == {f \in F : s.entry[f] # None}

(* reassign_all: move every face of p to q.                                 *)
MoveAll(s, p, q) ==
    LET moving == Entries(s, s.byPerson[p])
    IN  [entry    |-> [f \in Face |-> IF f \in moving
                                      THEN [s.entry[f] EXCEPT !.person = q]
                                      ELSE s.entry[f]],
         byPerson |-> [r \in Person |->
             (s.byPerson[r] \ {f \in moving : s.entry[f].person = r})
               \cup (IF r = q THEN moving ELSE {})],
         byItem   |-> s.byItem]

(* The store a load of the file with these entries builds.                  *)
Loaded(entries) ==
    [entry    |-> entries,
     byPerson |-> [p \in Person |-> {f \in Face : entries[f] # None /\ entries[f].person = p}],
     byItem   |-> [i \in Item |-> {f \in Face : entries[f] # None /\ entries[f].item = i}]]

PersonsIn(s, i) ==
    {s.entry[f].person : f \in {g \in Stored(s) : s.entry[g].item = i}}

-----------------------------------------------------------------------------
(* PersonStore.                                                             *)

Known == {p \in Person : people[p] # None}

(* recompute_person: rebuild the derived fields of p, if there is such.     *)
Recomputed(ps, p, s) ==
    IF ps[p] = None THEN ps
    ELSE [ps EXCEPT ![p].made = Entries(s, s.byPerson[p])]

(* prune_empty: unnamed people without a face go.                           *)
Pruned(ps) ==
    [p \in Person |->
       IF ps[p] # None /\ ps[p].made = {} /\ ps[p].name = None THEN None ELSE ps[p]]

(* recompute_all.                                                           *)
AllRecomputed(ps, s) ==
    Pruned([p \in Person |->
              IF ps[p] = None THEN None
              ELSE [ps[p] EXCEPT !.made = Entries(s, s.byPerson[p])]])

(* sync_person_ids: project the index back onto the items.                  *)
Synced(its, s) ==
    [i \in Item |-> IF its[i] = None THEN None
                    ELSE [its[i] EXCEPT !.pids = PersonsIn(s, i)]]

(* A uuid4 nobody refers to yet.                                            *)
Present(g) == {g[x] : x \in DOMAIN g} \ {None}
InUse(entries) == {e.person : e \in Present(entries)}
Jobs == Present(job)
FreshPeople ==
    Person \ ({p \in Person : people[p] # None \/ files.people[p] # None}
              \cup InUse(fs.entry) \cup InUse(files.entries)
              \cup UNION {InUse(j.old) \cup {p \in Person : j.next[p] # None} : j \in Jobs}
              \cup UNION {item.pids : item \in Present(lib) \cup Present(files.lib)})
FreshFaces ==
    Face \ (Stored(fs) \cup {f \in Face : files.entries[f] # None}
            \cup UNION {r.made : r \in Present(people) \cup Present(files.people)}
            \cup UNION {{f \in Face : j.old[f] # None} \cup {j.at} : j \in Jobs})

-----------------------------------------------------------------------------
(* recluster: what it makes of the faces `old' it read at its start.        *)

In(old) == {f \in Face : old[f] # None}

(* The faces of person p. *)
FacesOf(p, old) == {f \in In(old) : old[f].person = p}

(* connected_components.                                                    *)
Closed(C, old) ==
    \A f \in C : \A g \in In(old) : <<old[f].look, old[g].look>> \in Alike => g \in C
Components(old) ==
    {C \in SUBSET In(old) :
       /\ C # {} /\ Closed(C, old)
       /\ \A B \in SUBSET C : (B # {} /\ Closed(B, old)) => B = C}

Share(C, p, old) == Cardinality({f \in C : old[f].person = p})
OwnersOf(C, old) == {old[f].person : f \in C}

(* A slip of Regroupings: an old person may be claimed twice.                *)
RegroupingsShare(old, fresh) ==
    {g \in [Components(old) -> Person] :
       \A C \in Components(old) :
          /\ g[C] \in OwnersOf(C, old)
          /\ \A p \in OwnersOf(C, old) : Share(C, p, old) <= Share(C, g[C], old)}

(* Largest component first, each takes the person most of its faces belong  *)
(* to of those not taken before it, or a new one when all are taken.        *)
Regroupings(old, fresh) ==
    LET Cs == Components(old)
        n  == Cardinality(Cs)
        Orders == {o \in [1..n -> Cs] :
                     /\ \A j, k \in 1..n : j # k => o[j] # o[k]
                     /\ \A j, k \in 1..n :
                          j < k => Cardinality(o[j]) >= Cardinality(o[k])}
        Left(o, g, k) == OwnersOf(o[k], old) \ {g[o[j]] : j \in 1..(k - 1)}
    IN  {g \in [Cs -> InUse(old) \cup fresh] :
           /\ \A C, B \in Cs : C # B => g[C] # g[B]
           /\ \E o \in Orders : \A k \in 1..n :
                IF Left(o, g, k) = {} THEN g[o[k]] \in fresh
                ELSE /\ g[o[k]] \in Left(o, g, k)
                     /\ \A p \in Left(o, g, k) :
                          Share(o[k], p, old) <= Share(o[k], g[o[k]], old)}

(* Whom each face goes to. *)
PlanOf(g, old) ==
    [f \in Face |-> IF f \in In(old) THEN g[CHOOSE C \in DOMAIN g : f \in C] ELSE None]

(* The people regrouping g makes: each keeps the name its id had.           *)
NewPeople(g, ps) ==
    [p \in Person |->
       IF \E C \in DOMAIN g : g[C] = p
       THEN [name |-> IF ps[p] = None THEN None ELSE ps[p].name,
             made |-> CHOOSE C \in DOMAIN g : g[C] = p]
       ELSE None]

-----------------------------------------------------------------------------
(* Saving, and the bookkeeping of what runs at the same time.               *)

(* save_to_disk of people, faces and index, best effort: a file whose save  *)
(* fails keeps what it held.                                                *)
SaveSome(which) ==
    \E miss \in SUBSET which :
      /\ miss = {} \/ asked' + faults < MaxEvents
      /\ faults' = IF miss = {} THEN faults ELSE faults + 1
      /\ files' = [people  |-> IF "people" \in which \ miss THEN people' ELSE files.people,
                   entries |-> IF "faces" \in which \ miss THEN fs'.entry ELSE files.entries,
                   lib     |-> IF "index" \in which \ miss THEN lib' ELSE files.lib]

(* _persist, _save_faces_state: the three files, one after the other.       *)
SaveState == SaveSome({"people", "faces", "index"})
SaveIndex == SaveSome({"index"})

Running == {o \in Owner : job[o] # None /\ job[o].pc # "done"}

(* The loop changed the people or the index: a recluster under way has read *)
(* what no longer holds.  Inside a write of its own that tears the index; a *)
(* face dropped after set_person read it comes back with the write.         *)
Disturb ==
    /\ job' = [o \in Owner |-> IF job[o] = None THEN None
                               ELSE [job[o] EXCEPT !.calm = FALSE]]
    /\ health' = IF health = "torn" \/ \E o \in Running : job[o].half THEN "torn"
                 ELSE IF \E o \in Running : job[o].at # None /\ fs'.entry[job[o].at] = None
                      THEN "revived" ELSE health

(* The worker holds the loop: no handler runs.                              *)
Free == worker.pc \notin {"sweep", "next", "assign"}

-----------------------------------------------------------------------------
(* The background worker.                                                   *)

Live(i) == lib[i] # None /\ ~lib[i].trashed
Pending == {i \in Item : Live(i) /\ ~lib[i].done}
Processed(pids) == [trashed |-> FALSE, done |-> TRUE, pids |-> pids]

Wake ==
    /\ worker.pc = "asleep"
    /\ worker' = [worker EXCEPT !.pc = "sweep"]
    /\ UNCHANGED <<fs, people, lib, job, files, faults, health>>

(* pending_face_ids, up to a batch.                                         *)
StartSweep ==
    /\ worker.pc = "sweep" /\ Pending # {}
    /\ \E q \in SUBSET Pending :
         /\ Cardinality(q) = Batch \/ (q = Pending /\ Cardinality(q) < Batch)
         /\ worker' = [worker EXCEPT !.pc = "next", !.queue = q, !.changed = FALSE]
    /\ UNCHANGED <<fs, people, lib, job, files, faults, health>>

NoJob == [pc   |-> "none", old |-> [f \in Face |-> None],
          plan |-> [f \in Face |-> None], next |-> [p \in Person |-> None],
          todo |-> {}, at |-> None, entry |-> None, half |-> FALSE, calm |-> TRUE]

(* run_in_executor: a recluster is handed to a thread.                      *)
StartJob(o) ==
    job' = [r \in Owner |-> IF r = o THEN [NoJob EXCEPT !.pc = "called", !.calm = FALSE]
                           ELSE IF job[r] = None THEN None
                           ELSE [job[r] EXCEPT !.calm = FALSE]]

(* Nothing is pending: recluster if anything was processed since, or sleep. *)
FinishSweeps ==
    /\ worker.pc = "sweep" /\ Pending = {}
    /\ IF worker.dirty
       THEN StartJob("worker") /\ worker' = [worker EXCEPT !.pc = "recluster"]
       ELSE UNCHANGED job /\ worker' = [worker EXCEPT !.pc = "asleep"]
    /\ UNCHANGED <<fs, people, lib, files, faults, health>>

(* A slip of NextItem: an item processed before keeps its old faces.         *)
NextItemKeepsFaces(i) ==
    /\ worker.pc = "next" /\ i \in worker.queue
    /\ IF ~Live(i)
       THEN /\ worker' = [worker EXCEPT !.queue = @ \ {i}, !.changed = @ \/ lib[i] # None]
            /\ lib' = IF lib[i] = None THEN lib
                      ELSE [lib EXCEPT ![i].done = TRUE, ![i].pids = {}]
       ELSE worker' = [worker EXCEPT !.pc = "read", !.item = i] /\ UNCHANGED lib
    /\ UNCHANGED <<fs, people, job, files, faults, health>>

(* _process_one up to its await.  The item's faces go first.  An item whose *)
(* file is not under the media root, as that of a trashed item, is marked   *)
(* processed without being looked at.                                       *)
NextItem(i) ==
    /\ worker.pc = "next" /\ i \in worker.queue
    /\ fs' = IF lib[i] = None THEN fs ELSE Forget(fs, Entries(fs, fs.byItem[i]))
    /\ IF lib[i] = None THEN UNCHANGED <<job, health>> ELSE Disturb
    /\ IF ~Live(i)
       THEN /\ worker' = [worker EXCEPT !.queue = @ \ {i}, !.changed = @ \/ lib[i] # None]
            /\ lib' = IF lib[i] = None THEN lib
                      ELSE [lib EXCEPT ![i].done = TRUE, ![i].pids = {}]
       ELSE worker' = [worker EXCEPT !.pc = "read", !.item = i] /\ UNCHANGED lib
    /\ UNCHANGED <<people, files, faults>>

(* detect_faces, in an executor thread: a file that is gone or that it      *)
(* cannot cope with gives none.                                             *)
Detect ==
    /\ worker.pc = "read"
    /\ \E found \in {{}} \cup (IF Live(worker.item) THEN {Shows[worker.item]} ELSE {}) :
         worker' = [worker EXCEPT !.pc = "found", !.found = found, !.pids = {}]
    /\ UNCHANGED <<fs, people, lib, job, files, faults, health>>

Matching(look) ==
    {p \in Known : \E f \in Entries(fs, fs.byPerson[p]) :
                     <<look, fs.entry[f].look>> \in Alike}

(* assign: a face joins a person it is alike to, or founds a new one.       *)
AssignFace(look) ==
    /\ worker.pc \in {"found", "assign"} /\ look \in worker.found
    /\ FreshFaces # {}
    /\ \E p \in (IF Matching(look) # {} THEN Matching(look)
                 ELSE {q \in FreshPeople : q = CHOOSE r \in FreshPeople : TRUE}) :
         LET f    == CHOOSE g \in FreshFaces : TRUE
             s    == Put(fs, f, FaceEntry(worker.item, p, look))
             base == IF people[p] = None
                     THEN [people EXCEPT ![p] = NewPerson]
                     ELSE people
         IN  /\ fs' = s
             /\ people' = Recomputed(base, p, s)
             /\ worker' = [worker EXCEPT !.pc = "assign", !.found = @ \ {look},
                                         !.pids = @ \cup {p}]
    /\ Disturb
    /\ UNCHANGED <<lib, files, faults>>

(* _process_one's end: the item, if it is still there, is marked.           *)
FinishItem ==
    /\ worker.pc \in {"found", "assign"} /\ worker.found = {}
    /\ lib' = IF lib[worker.item] = None THEN lib
              ELSE [lib EXCEPT ![worker.item].done = TRUE,
                               ![worker.item].pids = worker.pids]
    /\ worker' = [worker EXCEPT !.pc = "next", !.queue = @ \ {worker.item},
                                !.changed = TRUE, !.item = None, !.pids = {}]
    /\ UNCHANGED <<fs, people, job, files, faults, health>>

(* The batch is through: recompute every person, prune, persist.            *)
EndSweep ==
    /\ worker.pc = "next" /\ worker.queue = {}
    /\ worker' = [worker EXCEPT !.pc = "sweep", !.dirty = @ \/ worker.changed]
    /\ IF worker.changed
       THEN /\ people' = AllRecomputed(people, fs)
            /\ UNCHANGED <<fs, lib>>
            /\ IF people' = people THEN UNCHANGED <<job, health>> ELSE Disturb
            /\ SaveState
       ELSE UNCHANGED <<fs, people, lib, job, files, faults, health>>

-----------------------------------------------------------------------------
(* recluster, in an executor thread, for the worker or for POST             *)
(* /people/recluster.                                                       *)

Recluster ==
    /\ Free /\ job["handler"] = None
    /\ StartJob("handler")
    /\ UNCHANGED <<fs, people, lib, worker, files, faults, health>>

Spoilt == IF health = "good" THEN "skewed" ELSE health

(* The thread reads every face.  It is calm when nothing else is at work on *)
(* the faces or the people, from here until it is through.                  *)
ReadFaces(o) ==
    /\ o \in Running /\ job[o].pc = "called"
    /\ job' = [job EXCEPT ![o] = [@ EXCEPT
                 !.pc = "clustering", !.old = fs.entry,
                 !.calm = worker.pc # "assign" /\ \A r \in Owner \ {o} : job[r] = None]]
    /\ UNCHANGED <<fs, people, lib, worker, files, faults, health>>

(* The clusters are known: the names are read and the groups planned.  For  *)
(* no face at all there is no group, and Replace drops every person.        *)
Regroup(o) ==
    /\ o \in Running /\ job[o].pc = "clustering"
    /\ \E g \in Regroupings(job[o].old, FreshPeople) :
         job' = [job EXCEPT ![o] =
           [@ EXCEPT !.pc = "applying", !.todo = In(job[o].old), !.next = NewPeople(g, people),
                     !.plan = PlanOf(g, job[o].old)]]
    /\ UNCHANGED <<fs, people, lib, worker, files, faults, health>>

(* Iterating over the people while the loop adds or drops one raises.       *)
ReclusterRaises(o) ==
    /\ o \in Running /\ job[o].pc = "clustering" /\ ~job[o].calm /\ In(job[o].old) # {}
    /\ job' = [job EXCEPT ![o] = None]
    /\ worker' = IF o = "worker" THEN [worker EXCEPT !.pc = "asleep"] ELSE worker
    /\ UNCHANGED <<fs, people, lib, files, faults, health>>

(* Two threads inside a write at once.                                      *)
Crossed(o) ==
    health' = IF \E r \in Running \ {o} : job[r].half THEN "torn" ELSE health

(* set_person's read; a face that is gone is skipped.                       *)
SetPersonReads(o, f) ==
    /\ o \in Running /\ job[o].at = None /\ job[o].todo # {} /\ f = CHOOSE g \in job[o].todo : TRUE
    /\ job' = IF fs.entry[f] = None THEN [job EXCEPT ![o].todo = @ \ {f}]
              ELSE [job EXCEPT ![o] = [@ EXCEPT
                     !.at = f, !.entry = [fs.entry[f] EXCEPT !.person = job[o].plan[f]]]]
    /\ UNCHANGED <<fs, people, lib, worker, files, faults, health>>

(* _put's own read and its unlink of what it finds.                         *)
SetPersonUnlinks(o) ==
    /\ o \in Running /\ job[o].at # None /\ ~job[o].half
    /\ LET f == job[o].at
       IN  fs' = IF fs.entry[f] = None THEN fs ELSE Unlink(fs, f, fs.entry[f])
    /\ job' = [job EXCEPT ![o] = [@ EXCEPT !.half = TRUE]]
    /\ Crossed(o)
    /\ UNCHANGED <<people, lib, worker, files, faults>>

(* _put's write.                                                            *)
SetPersonEnds(o) ==
    /\ o \in Running /\ job[o].half
    /\ fs' = Link(fs, job[o].at, job[o].entry)
    /\ job' = [job EXCEPT ![o] = [@ EXCEPT !.todo = job[o].todo \ {job[o].at}, !.at = None,
                                           !.entry = None, !.half = FALSE]]
    /\ Crossed(o)
    /\ UNCHANGED <<people, lib, worker, files, faults>>

(* Every face is set: the people are replaced.                              *)
Replace(o) ==
    /\ o \in Running /\ job[o].pc = "applying" /\ job[o].todo = {}
    /\ people' = job[o].next
    /\ job' = [job EXCEPT ![o] = [NoJob EXCEPT !.pc = "done", !.calm = job[o].calm]]
    /\ health' = IF job[o].calm THEN health ELSE Spoilt
    /\ UNCHANGED <<fs, lib, worker, files, faults>>

(* A slip of ReclusterReturns: the items' tags are left as they are.         *)
ReclusterReturnsUnsynced(o) ==
    /\ job[o] # None /\ job[o].pc = "done" /\ (o = "handler" => Free)
    /\ job' = [job EXCEPT ![o] = None]
    /\ worker' = IF o = "worker" THEN [worker EXCEPT !.pc = "asleep", !.dirty = FALSE]
                 ELSE worker
    /\ health' = IF job[o].calm /\ health = "skewed" THEN "good" ELSE health
    /\ UNCHANGED <<fs, people, lib>>
    /\ SaveState

(* Back on the loop: the items' tags are rewritten, everything is saved.    *)
ReclusterReturns(o) ==
    /\ job[o] # None /\ job[o].pc = "done" /\ (o = "handler" => Free)
    /\ job' = [job EXCEPT ![o] = None]
    /\ lib' = Synced(lib, fs)
    /\ worker' = IF o = "worker" THEN [worker EXCEPT !.pc = "asleep", !.dirty = FALSE]
                 ELSE worker
    /\ health' = IF job[o].calm /\ health = "skewed" THEN "good" ELSE health
    /\ UNCHANGED <<fs, people>>
    /\ SaveState

-----------------------------------------------------------------------------
(* The handlers that correct the grouping.  Each ends by rewriting every    *)
(* item's tags from the index and saving all three files.                   *)

Corrected ==
    /\ lib' = Synced(lib, fs')
    /\ SaveState
    /\ Disturb

(* A slip of DeletePerson: the faces stay.                                   *)
DeletePersonKeepsFaces(p) ==
    /\ Free /\ p \in Known
    /\ people' = [people EXCEPT ![p] = None]
    /\ UNCHANGED <<fs, worker>>
    /\ Corrected

(* DELETE /people/{id}: the person goes with its faces, the photos stay.    *)
DeletePerson(p) ==
    /\ Free /\ p \in Known
    /\ fs' = Forget(fs, Entries(fs, fs.byPerson[p]))
    /\ people' = [people EXCEPT ![p] = None]
    /\ Corrected
    /\ UNCHANGED worker

Merged(into, from) ==
    /\ fs' = MoveAll(fs, from, into)
    /\ people' = Recomputed([people EXCEPT ![from] = None], into, fs')

(* POST /people/{into}/merge. *)
Merge(into, from) ==
    /\ Free /\ into # from /\ into \in Known /\ from \in Known
    /\ Merged(into, from)
    /\ Corrected
    /\ UNCHANGED worker

(* POST /people/{p}/name with a name of more than blanks: p is merged into  *)
(* another person of nearly that name, if there is one.                     *)
NamePerson(p, n) ==
    LET twins == {q \in Known \ {p} : people[q].name # None /\ <<n, people[q].name>> \in Near}
    IN  /\ Free /\ p \in Known
        /\ IF twins # {}
           THEN \E q \in twins : Merged(q, p)
           ELSE /\ people' = [people EXCEPT ![p].name = n]
                /\ UNCHANGED fs
        /\ Corrected
        /\ UNCHANGED worker

(* A slip of Reassign: the person losing the face is not recomputed.         *)
ReassignHalf(f, q) ==
    /\ Free /\ fs.entry[f] # None /\ q \in Known
    /\ fs' = Put(fs, f, [fs.entry[f] EXCEPT !.person = q])
    /\ people' = Pruned(Recomputed(people, q, fs'))
    /\ Corrected
    /\ UNCHANGED worker

(* POST /faces/{f}/reassign to a person there is.                           *)
Reassign(f, q) ==
    /\ Free /\ fs.entry[f] # None /\ q \in Known
    /\ fs' = Put(fs, f, [fs.entry[f] EXCEPT !.person = q])
    /\ people' = Pruned(Recomputed(Recomputed(people, fs.entry[f].person, fs'), q, fs'))
    /\ Corrected
    /\ UNCHANGED worker

(* The same without a person: the face is detached onto a new one.          *)
Detach(f) ==
    /\ Free /\ fs.entry[f] # None /\ FreshPeople # {}
    /\ LET q    == CHOOSE r \in FreshPeople : TRUE
           base == [people EXCEPT ![q] = NewPerson]
       IN  /\ fs' = Put(fs, f, [fs.entry[f] EXCEPT !.person = q])
           /\ people' = Pruned(Recomputed(Recomputed(base, fs.entry[f].person, fs'), q, fs'))
    /\ Corrected
    /\ UNCHANGED worker

-----------------------------------------------------------------------------
(* The handlers that change the items under the worker (MediaStore has them *)
(* in full); none of them touches the people or the faces.                  *)

Unheard(i) ==
    /\ lib[i] = None /\ files.lib[i] = None /\ i \notin worker.queue
    /\ i \notin {e.item : e \in Present(fs.entry) \cup Present(files.entries)}

(* POST /upload. *)
Upload(i) ==
    /\ Free /\ Unheard(i)
    /\ lib' = [lib EXCEPT ![i] = NewItem]
    /\ SaveIndex
    /\ UNCHANGED <<fs, people, worker, job, health>>

(* DELETE /media/{id} and its undoing: the file leaves the media root and   *)
(* comes back.                                                              *)
SetTrashed(i, t) ==
    /\ Free /\ lib[i] # None /\ lib[i].trashed # t
    /\ lib' = [lib EXCEPT ![i].trashed = t]
    /\ SaveIndex
    /\ UNCHANGED <<fs, people, worker, job, health>>

(* The permanent delete.                                                    *)
Purge(i) ==
    /\ Free /\ lib[i] # None
    /\ lib' = [lib EXCEPT ![i] = None]
    /\ SaveIndex
    /\ UNCHANGED <<fs, people, worker, job, health>>

(* Process exit at any point, and a start, which loads the three files; a   *)
(* new FACE_PROCESSING_VERSION makes every item pending again.  The indexes *)
(* are built anew, so a torn one is mended, but for what it made of the     *)
(* entries before, as a face that came back.                                *)
Restart(bump) ==
    /\ asked + faults < MaxEvents
    /\ faults' = faults + 1
    /\ people' = files.people
    /\ fs' = Loaded(files.entries)
    /\ lib' = [i \in Item |-> IF files.lib[i] = None \/ ~bump THEN files.lib[i]
                              ELSE [files.lib[i] EXCEPT !.done = FALSE]]
    /\ worker' = Asleep
    /\ job' = [o \in Owner |-> None]
    /\ health' = IF health \in {"torn", "revived"} THEN "revived" ELSE "skewed"
    /\ UNCHANGED files

-----------------------------------------------------------------------------
FacesInit ==
    /\ fs = EmptyStore
    /\ people = [p \in Person |-> None]
    /\ lib = [i \in Item |-> None]
    /\ worker = Asleep
    /\ job = [o \in Owner |-> None]
    /\ files = [people |-> people, entries |-> fs.entry, lib |-> lib]
    /\ faults = 0
    /\ asked = 0
    /\ health = "good"

WorkerStep ==
    /\ UNCHANGED asked
    /\ \/ Wake \/ StartSweep \/ FinishSweeps \/ Detect \/ FinishItem \/ EndSweep
       \/ \E i \in Item : NextItem(i)
       \/ \E l \in Look : AssignFace(l)

JobStep(o) ==
    /\ UNCHANGED asked
    /\ \/ ReadFaces(o) \/ Regroup(o) \/ SetPersonUnlinks(o) \/ SetPersonEnds(o) \/ Replace(o)
       \/ ReclusterReturns(o)
       \/ \E f \in Face : SetPersonReads(o, f)

Request ==
    /\ asked + faults < MaxEvents
    /\ asked' = asked + 1
    /\ \/ Recluster
       \/ \E p \in Person : \/ DeletePerson(p) \/ \E q \in Person : Merge(p, q)
                            \/ \E n \in Name : NamePerson(p, n)
       \/ \E f \in Face : Detach(f) \/ \E p \in Person : Reassign(f, p)
       \/ \E i \in Item : Purge(i) \/ \E t \in BOOLEAN : SetTrashed(i, t)

FacesNext ==
    \/ WorkerStep
    \/ \E o \in Owner : JobStep(o)
    \/ UNCHANGED asked /\ \E o \in Owner : ReclusterRaises(o)
    \/ Request
    \/ UNCHANGED asked /\ \E i \in Item : Upload(i)
    \/ UNCHANGED asked /\ \E bump \in BOOLEAN : Restart(bump)

FacesSpec == FacesInit /\ [][FacesNext]_facesVars

-----------------------------------------------------------------------------
(* Properties.                                                              *)

(* No recluster is under way, nor about to rewrite the items' tags.         *)
Settled == \A o \in Owner : job[o] = None

(* The two indexes of FaceStore say what its entries say, unless a thread   *)
(* switch fell inside a write ("the sole write path").                      *)
IndexHonest ==
    (health # "torn" /\ \A o \in Running : ~job[o].half) =>
        fs = Loaded(fs.entry)

(* Every face belongs to a person there is -- no handler, prune or worker   *)
(* step leaves a face behind -- and an undisturbed recluster puts that      *)
(* right after a restart from files that do not agree.                      *)
FacesOwned ==
    (health = "good" /\ Settled) =>
        \A f \in Stored(fs) : people[fs.entry[f].person] # None

(* What a person is said to hold is what the index gives it, whenever the   *)
(* worker is between sweeps: no correction forgets to recompute a side.     *)
CountsDerived ==
    (health = "good" /\ Settled /\ worker.pc = "asleep") =>
        \A p \in Known : people[p].made = fs.byPerson[p]

(* The tags a search goes by are the people of the item's faces, for every  *)
(* item but the one whose faces are being looked for.                       *)
TagsAgree ==
    (health = "good" /\ Settled) =>
        \A i \in Item : (lib[i] # None /\ i # worker.item) =>
                            lib[i].pids = PersonsIn(fs, i)

(* No face is recorded twice: an item that is looked at again loses its old *)
(* faces first, whatever was saved or lost before ("a re-run never leaves   *)
(* stale/duplicate faces behind"), unless that was ever looked up in a torn *)
(* index, or a recluster brought back a face dropped after it was read.     *)
NoDuplicateFaces ==
    health \notin {"torn", "revived"} =>
        \A f, g \in Stored(fs) :
           (fs.entry[f].item = fs.entry[g].item /\ fs.entry[f].look = fs.entry[g].look)
             => f = g

(* Two faces are of one person after an undisturbed recluster exactly when  *)
(* a chain of alike faces joins them, and a person whose faces are just     *)
(* such a group keeps its id and its name.                                  *)
Regrouped ==
    [][\A o \in Owner : (job[o] # None /\ job[o].calm /\ job[o].pc = "applying"
                         /\ job'[o] # None /\ job'[o].pc = "done") =>
         LET C == Components(fs.entry)
         IN  /\ \A p \in Person : people'[p] # None => people'[p].made \in C
             /\ \A B \in C : \E p \in Person : people'[p] # None /\ people'[p].made = B
             /\ \A p \in Known : FacesOf(p, job[o].old) \in C =>
                   (people'[p] # None /\ people'[p].name = people[p].name)]_facesVars
=============================================================================
