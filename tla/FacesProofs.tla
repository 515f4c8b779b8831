----------------------------- MODULE FacesProofs -----------------------------
(***************************************************************************)
(* The face index and the people made from it, proved for any number of    *)
(* photos, faces and people and any history: that FaceStore's two indexes  *)
(* say what its entries say, that no face is recorded twice, that faces,   *)
(* people and tags agree while nothing was lost, and that an undisturbed   *)
(* recluster makes one person of each group of alike faces.                *)
(*                                                                         *)
(* The indexes first.  Every write turns the indexes of some entries into  *)
(* the indexes of the new ones; the write of a recluster's thread does so  *)
(* in two halves, and whatever comes between the halves is on record.  The *)
(* copy it writes was read before: a step that drops the face in between   *)
(* is on record too.                                                       *)
(***************************************************************************)
EXTENDS Faces, FiniteSetTheorems, FunctionTheorems, TLAPS

Entered == [Face -> FaceType \cup {None}]
Folk    == [Person -> PersonType \cup {None}]
StoreType == [entry : Entered, byPerson : [Person -> SUBSET Face],
              byItem : [Item -> SUBSET Face]]
WorkerType ==
    [pc : {"asleep", "sweep", "next", "read", "found", "assign", "recluster"},
     queue : SUBSET Item, item : Item \cup {None}, found : SUBSET Look,
     pids : SUBSET Person, changed : BOOLEAN, dirty : BOOLEAN]

FacesShape ==
    /\ fs \in StoreType
    /\ people \in Folk
    /\ files.entries \in Entered /\ files.people \in Folk
    /\ worker \in WorkerType
    /\ worker.pc \in {"read", "found", "assign"} => worker.item \in Item
    /\ job \in [Owner -> JobType \cup {None}]

(* A recluster knows where each face it has to write goes, and writes only  *)
(* while it applies its plan.                                               *)
JobsSound ==
    \A o \in Owner : job[o] # None =>
        /\ \A f \in job[o].todo : job[o].plan[f] \in Person
        /\ job[o].todo # {} => job[o].pc = "applying"
        /\ job[o].at # None => /\ job[o].at \in job[o].todo
                               /\ job[o].entry \in FaceType
        /\ job[o].half => job[o].at # None

(* The worker sleeps until its recluster is back.                           *)
WorkerWaits == job["worker"] # None => worker.pc = "recluster"

Writing == {o \in Owner : job[o] # None /\ job[o].half}

(* The first half of a write has been done, the second has not.             *)
HalfWritten(s, f) ==
    s = IF s.entry[f] = None THEN Loaded(s.entry) ELSE Unlink(Loaded(s.entry), f, s.entry[f])

IndexesSound ==
    health # "torn" =>
        /\ Writing = {} => fs = Loaded(fs.entry)
        /\ \A o \in Writing : Writing = {o} /\ HalfWritten(fs, job[o].at)

FacesInv == FacesShape /\ JobsSound /\ WorkerWaits /\ IndexesSound

-----------------------------------------------------------------------------
(* The store's operations keep its types ...                                *)
LEMMA LoadedType == ASSUME NEW E \in Entered PROVE Loaded(E) \in StoreType
  BY DEF Loaded, StoreType, Entered, FaceType

LEMMA UnlinkType ==
  ASSUME NEW s \in StoreType, NEW f \in Face, NEW e \in FaceType
  PROVE  Unlink(s, f, e) \in StoreType /\ Unlink(s, f, e).entry = s.entry
  BY DEF Unlink, StoreType, FaceType

LEMMA LinkType ==
  ASSUME NEW s \in StoreType, NEW f \in Face, NEW e \in FaceType
  PROVE  Link(s, f, e) \in StoreType
<1>1. [s.entry EXCEPT ![f] = e] \in Entered
  BY DEF StoreType, Entered
<1> QED BY <1>1 DEF Link, StoreType, FaceType

LEMMA PutType ==
  ASSUME NEW s \in StoreType, NEW f \in Face, NEW e \in FaceType
  PROVE  Put(s, f, e) \in StoreType
<1>1. CASE s.entry[f] = None
  BY <1>1, LinkType DEF Put
<1>2. CASE s.entry[f] # None
  <2>1. s.entry[f] \in FaceType
    BY <1>2 DEF StoreType, Entered
  <2> QED BY <1>2, <2>1, UnlinkType, LinkType DEF Put
<1> QED BY <1>1, <1>2

LEMMA ForgetType ==
  ASSUME NEW s \in StoreType, NEW F \in SUBSET Face PROVE Forget(s, F) \in StoreType
  BY DEF Forget, StoreType, Entered

LEMMA MoveAllType ==
  ASSUME NEW s \in StoreType, NEW p \in Person, NEW q \in Person
  PROVE  MoveAll(s, p, q) \in StoreType
<1> DEFINE moving == Entries(s, s.byPerson[p])
<1>1. moving \subseteq Face /\ \A f \in moving : s.entry[f] \in FaceType
  BY DEF Entries, StoreType, Entered
<1>2. [f \in Face |-> IF f \in moving THEN [s.entry[f] EXCEPT !.person = q]
                      ELSE s.entry[f]] \in Entered
  BY <1>1 DEF StoreType, Entered, FaceType
<1>3. [r \in Person |-> (s.byPerson[r] \ {f \in moving : s.entry[f].person = r})
                          \cup (IF r = q THEN moving ELSE {})] \in [Person -> SUBSET Face]
  BY <1>1 DEF StoreType
<1> QED BY <1>2, <1>3 DEF MoveAll, StoreType

-----------------------------------------------------------------------------
(* ... and its indexes right.                                               *)
Triple(E, P, I) == [entry |-> E, byPerson |-> P, byItem |-> I]

LEMMA TripleExcept ==
  ASSUME NEW E, NEW P, NEW I, NEW X
  PROVE  /\ [Triple(E, P, I) EXCEPT !.entry = X] = Triple(X, P, I)
         /\ [Triple(E, P, I) EXCEPT !.byPerson = X] = Triple(E, X, I)
         /\ [Triple(E, P, I) EXCEPT !.byItem = X] = Triple(E, P, X)
<1> DEFINE s == Triple(E, P, I)
<1>1. s = [entry |-> E, byPerson |-> P, byItem |-> I]
  BY DEF Triple
<1>2. [s EXCEPT !.entry = X] = Triple(X, P, I)
  BY <1>1 DEF Triple
<1>3. [s EXCEPT !.byPerson = X] = Triple(E, X, I)
  BY <1>1 DEF Triple
<1>4. [s EXCEPT !.byItem = X] = Triple(E, P, X)
  BY <1>1 DEF Triple
<1> QED BY <1>2, <1>3, <1>4

LEMMA UnlinkParts ==
  ASSUME NEW E, NEW P, NEW I, NEW f, NEW e
  PROVE  Unlink(Triple(E, P, I), f, e) =
           Triple(E, [P EXCEPT ![e.person] = @ \ {f}], [I EXCEPT ![e.item] = @ \ {f}])
<1> DEFINE s == Triple(E, P, I)
           Q == [P EXCEPT ![e.person] = @ \ {f}]
           J == [I EXCEPT ![e.item] = @ \ {f}]
<1>1. s = [entry |-> E, byPerson |-> P, byItem |-> I] /\ s.byPerson = P /\ s.byItem = I
  BY DEF Triple
<1>2. Unlink(s, f, e) = [s EXCEPT !.byPerson = Q, !.byItem = J]
  BY <1>1 DEF Unlink
<1> HIDE DEF Q, J
<1>3. [s EXCEPT !.byPerson = Q, !.byItem = J] = Triple(E, Q, J)
  <2>1. [s EXCEPT !.byPerson = Q] = Triple(E, Q, I)
    BY TripleExcept
  <2>2. [Triple(E, Q, I) EXCEPT !.byItem = J] = Triple(E, Q, J)
    <3>1. \A X : [Triple(E, Q, I) EXCEPT !.byItem = X] = Triple(E, Q, X)
      BY TripleExcept
    <3> QED BY <3>1
  <2> HIDE DEF s
  <2> QED BY <2>1, <2>2, Zenon
<1> QED BY <1>2, <1>3 DEF Q, J

LEMMA LinkParts ==
  ASSUME NEW E, NEW P, NEW I, NEW f, NEW e
  PROVE  Link(Triple(E, P, I), f, e) =
           Triple([E EXCEPT ![f] = e], [P EXCEPT ![e.person] = @ \cup {f}],
                  [I EXCEPT ![e.item] = @ \cup {f}])
<1> DEFINE s == Triple(E, P, I)
           D == [E EXCEPT ![f] = e]
           Q == [P EXCEPT ![e.person] = @ \cup {f}]
           J == [I EXCEPT ![e.item] = @ \cup {f}]
<1>1. s.entry = E /\ s.byPerson = P /\ s.byItem = I
  BY DEF Triple
<1>2. Link(s, f, e) = [s EXCEPT !.entry = D, !.byPerson = Q, !.byItem = J]
  BY <1>1 DEF Link
<1> HIDE DEF D, Q, J
<1>3. [s EXCEPT !.entry = D, !.byPerson = Q, !.byItem = J] = Triple(D, Q, J)
  <2>1. [s EXCEPT !.entry = D] = Triple(D, P, I)
    BY TripleExcept
  <2>2. [Triple(D, P, I) EXCEPT !.byPerson = Q] = Triple(D, Q, I)
    BY TripleExcept
  <2>3. [Triple(D, Q, I) EXCEPT !.byItem = J] = Triple(D, Q, J)
    BY TripleExcept
  <2> HIDE DEF s
  <2> QED BY <2>1, <2>2, <2>3, Zenon
<1> QED BY <1>2, <1>3 DEF D, Q, J

ByPerson(E) == [p \in Person |-> {f \in Face : E[f] # None /\ E[f].person = p}]
ByItem(E)   == [i \in Item |-> {f \in Face : E[f] # None /\ E[f].item = i}]

LEMMA LoadedParts == \A E : Loaded(E) = Triple(E, ByPerson(E), ByItem(E))
  BY DEF Loaded, Triple, ByPerson, ByItem

LEMMA RewriteLoaded ==
  ASSUME NEW E \in Entered, NEW f \in Face, E[f] # None,
         NEW e \in FaceType
  PROVE  Link(Unlink(Loaded(E), f, E[f]), f, e) = Loaded([E EXCEPT ![f] = e])
<1> DEFINE new == [E EXCEPT ![f] = e]
           P == [ByPerson(E) EXCEPT ![E[f].person] = @ \ {f}]
           I == [ByItem(E) EXCEPT ![E[f].item] = @ \ {f}]
<1>1. E[f] \in FaceType /\ E[f].person \in Person /\ E[f].item \in Item
  BY DEF Entered, FaceType
<1>2. e # None /\ e.person \in Person /\ e.item \in Item
  BY NoneAssumption DEF FaceType
<1>3. new[f] = e /\ \A g \in Face \ {f} : new[g] = E[g]
  BY DEF Entered
<1>4. Link(Unlink(Loaded(E), f, E[f]), f, e) =
        Triple(new, [P EXCEPT ![e.person] = @ \cup {f}], [I EXCEPT ![e.item] = @ \cup {f}])
  <2>1. Unlink(Loaded(E), f, E[f]) = Triple(E, P, I)
    BY LoadedParts, UnlinkParts
  <2> HIDE DEF P, I
  <2> QED BY <2>1, LinkParts
<1>5. [P EXCEPT ![e.person] = @ \cup {f}] = ByPerson(new)
  <2>1. \A p \in Person : [P EXCEPT ![e.person] = @ \cup {f}][p] = ByPerson(new)[p]
    BY <1>1, <1>2, <1>3 DEF ByPerson
  <2> QED BY <2>1 DEF ByPerson
<1>6. [I EXCEPT ![e.item] = @ \cup {f}] = ByItem(new)
  <2>1. \A i \in Item : [I EXCEPT ![e.item] = @ \cup {f}][i] = ByItem(new)[i]
    BY <1>1, <1>2, <1>3 DEF ByItem
  <2> QED BY <2>1 DEF ByItem
<1> QED BY <1>4, <1>5, <1>6, LoadedParts

LEMMA PutLoaded ==
  ASSUME NEW E \in Entered, NEW f \in Face, NEW e \in FaceType
  PROVE  Put(Loaded(E), f, e) = Loaded([E EXCEPT ![f] = e])
<1>0. Loaded(E).entry = E
  BY DEF Loaded
<1>1. CASE E[f] # None
  BY <1>0, <1>1, RewriteLoaded DEF Put
<1>2. CASE E[f] = None
  <2> DEFINE new == [E EXCEPT ![f] = e]
  <2>1. e # None /\ e.person \in Person /\ e.item \in Item
    BY NoneAssumption DEF FaceType
  <2>2. new[f] = e /\ \A g \in Face \ {f} : new[g] = E[g]
    BY DEF Entered
  <2>3. Link(Loaded(E), f, e) =
          Triple(new, [ByPerson(E) EXCEPT ![e.person] = @ \cup {f}],
                 [ByItem(E) EXCEPT ![e.item] = @ \cup {f}])
    BY LoadedParts, LinkParts
  <2>4. [ByPerson(E) EXCEPT ![e.person] = @ \cup {f}] = ByPerson(new)
    <3>1. \A p \in Person :
             [ByPerson(E) EXCEPT ![e.person] = @ \cup {f}][p] = ByPerson(new)[p]
      BY <1>2, <2>1, <2>2 DEF ByPerson
    <3> QED BY <3>1 DEF ByPerson
  <2>5. [ByItem(E) EXCEPT ![e.item] = @ \cup {f}] = ByItem(new)
    <3>1. \A i \in Item : [ByItem(E) EXCEPT ![e.item] = @ \cup {f}][i] = ByItem(new)[i]
      BY <1>2, <2>1, <2>2 DEF ByItem
    <3> QED BY <3>1 DEF ByItem
  <2> QED BY <1>0, <1>2, <2>3, <2>4, <2>5, LoadedParts DEF Put
<1> QED BY <1>1, <1>2

LEMMA ForgetLoaded ==
  ASSUME NEW E \in Entered, NEW F \in SUBSET Face
  PROVE  Forget(Loaded(E), F) = Loaded(Forget(Loaded(E), F).entry)
  BY DEF Forget, Loaded

LEMMA MoveAllLoaded ==
  ASSUME NEW E \in Entered, NEW p \in Person, NEW q \in Person
  PROVE  MoveAll(Loaded(E), p, q) = Loaded(MoveAll(Loaded(E), p, q).entry)
<1> DEFINE s == Loaded(E)
           moving == {f \in Face : E[f] # None /\ E[f].person = p}
           new == [f \in Face |-> IF f \in moving THEN [E[f] EXCEPT !.person = q] ELSE E[f]]
<1>1. Entries(s, s.byPerson[p]) = moving
  BY DEF Entries, Loaded
<1>2. MoveAll(s, p, q) =
        [entry    |-> new,
         byPerson |-> [r \in Person |-> (s.byPerson[r] \ {f \in moving : E[f].person = r})
                                          \cup (IF r = q THEN moving ELSE {})],
         byItem   |-> s.byItem]
  BY <1>1 DEF MoveAll, Loaded
<1>3. \A f \in moving : /\ new[f] # None /\ new[f].person = q /\ new[f].item = E[f].item
                        /\ E[f] # None /\ E[f].person = p
  <2> SUFFICES ASSUME NEW f \in moving
               PROVE  /\ new[f] # None /\ new[f].person = q /\ new[f].item = E[f].item
                      /\ E[f] # None /\ E[f].person = p
    OBVIOUS
  <2>1. E[f] \in FaceType
    BY DEF Entered
  <2>2. [E[f] EXCEPT !.person = q] \in FaceType
    BY <2>1 DEF FaceType
  <2>3. new[f] = [E[f] EXCEPT !.person = q]
    OBVIOUS
  <2> QED BY <2>1, <2>2, <2>3, NoneAssumption DEF FaceType
<1>4. \A f \in Face \ moving : new[f] = E[f]
  OBVIOUS
<1>5. ASSUME NEW r \in Person
      PROVE  (s.byPerson[r] \ {f \in moving : E[f].person = r})
               \cup (IF r = q THEN moving ELSE {}) = ByPerson(new)[r]
  BY <1>3, <1>4 DEF Loaded, ByPerson
<1>6. s.byItem = ByItem(new)
  BY <1>3, <1>4 DEF Loaded, ByItem
<1>7. MoveAll(s, p, q) = Triple(new, ByPerson(new), ByItem(new))
  <2> HIDE DEF new, moving, s
  <2>1. ByPerson(new) =
          [r \in Person |-> (s.byPerson[r] \ {f \in moving : E[f].person = r})
                               \cup (IF r = q THEN moving ELSE {})]
    BY <1>5 DEF ByPerson
  <2> QED BY <1>2, <1>6, <2>1 DEF Triple
<1>8. MoveAll(s, p, q).entry = new
  BY <1>7 DEF Triple
<1> QED BY <1>7, <1>8, LoadedParts

-----------------------------------------------------------------------------
(* The people.                                                              *)
LEMMA RecomputedType ==
  ASSUME NEW ps \in Folk, NEW p \in Person, NEW s \in StoreType
  PROVE  Recomputed(ps, p, s) \in Folk
<1>1. Entries(s, s.byPerson[p]) \in SUBSET Face
  BY DEF Entries, StoreType
<1>2. CASE ps[p] = None
  BY <1>2 DEF Recomputed
<1>3. CASE ps[p] # None
  <2>1. ps[p] \in PersonType
    BY <1>3 DEF Folk
  <2>2. [ps[p] EXCEPT !.made = Entries(s, s.byPerson[p])] \in PersonType
    BY <1>1, <2>1 DEF PersonType
  <2> QED BY <1>3, <2>2 DEF Recomputed, Folk
<1> QED BY <1>2, <1>3

LEMMA PrunedType == ASSUME NEW ps \in Folk PROVE Pruned(ps) \in Folk
  BY DEF Pruned, Folk

LEMMA AllRecomputedType ==
  ASSUME NEW ps \in Folk, NEW s \in StoreType PROVE AllRecomputed(ps, s) \in Folk
<1>1. \A p \in Person : Entries(s, s.byPerson[p]) \in SUBSET Face
  BY DEF Entries, StoreType
<1>2. \A p \in Person : ps[p] # None =>
         [ps[p] EXCEPT !.made = Entries(s, s.byPerson[p])] \in PersonType
  BY <1>1 DEF Folk, PersonType
<1>3. [p \in Person |-> IF ps[p] = None THEN None
                        ELSE [ps[p] EXCEPT !.made = Entries(s, s.byPerson[p])]] \in Folk
  BY <1>2 DEF Folk
<1> QED BY <1>3, PrunedType DEF AllRecomputed

LEMMA NewPersonType == NewPerson \in PersonType
  BY DEF NewPerson, PersonType

LEMMA NewPeopleType ==
  ASSUME NEW g, DOMAIN g \subseteq SUBSET Face, NEW ps \in Folk
  PROVE  NewPeople(g, ps) \in Folk
<1> SUFFICES ASSUME NEW p \in Person, \E C \in DOMAIN g : g[C] = p
             PROVE  [name |-> IF ps[p] = None THEN None ELSE ps[p].name,
                     made |-> CHOOSE C \in DOMAIN g : g[C] = p] \in PersonType
  BY DEF NewPeople, Folk
<1>1. (CHOOSE C \in DOMAIN g : g[C] = p) \in DOMAIN g
  OBVIOUS
<1>2. (IF ps[p] = None THEN None ELSE ps[p].name) \in Name \cup {None}
  BY DEF Folk, PersonType
<1> QED BY <1>1, <1>2 DEF PersonType

-----------------------------------------------------------------------------
(* What a step does to the reclusters under way.                            *)
SameWrites ==
    \A o \in Owner :
        /\ (job'[o] # None /\ job'[o].half) <=> (job[o] # None /\ job[o].half)
        /\ o \in Writing => job'[o].at = job[o].at

(* No copy of an entry is taken or put down. *)
SameCopies ==
    \A o \in Owner :
        /\ (job'[o] # None /\ job'[o].at # None) <=> (job[o] # None /\ job[o].at # None)
        /\ (job[o] # None /\ job[o].at # None) =>
              job'[o].at = job[o].at /\ job'[o].entry = job[o].entry

JobsShape == job \in [Owner -> JobType \cup {None}]

LEMMA SameWritesSound ==
  ASSUME IndexesSound, SameWrites, fs' = fs, health' # "torn" => health # "torn"
  PROVE  IndexesSound'
<1>1. Writing' = Writing
  BY DEF Writing, SameWrites
<1>2. \A o \in Writing : job'[o].at = job[o].at
  BY DEF SameWrites, Writing
<1> QED BY <1>1, <1>2 DEF IndexesSound, HalfWritten

LEMMA DisturbKeeps ==
  ASSUME JobsShape, JobsSound, Disturb
  PROVE  JobsShape' /\ JobsSound' /\ SameWrites /\ SameCopies
<1>1. ASSUME NEW o \in Owner, job[o] # None
      PROVE  /\ job'[o] \in JobType
             /\ job'[o] = [job[o] EXCEPT !.calm = FALSE]
             /\ job'[o] # None
             /\ job'[o].at = job[o].at /\ job'[o].entry = job[o].entry
             /\ job'[o].todo = job[o].todo /\ job'[o].plan = job[o].plan
             /\ job'[o].pc = job[o].pc /\ job'[o].half = job[o].half
  <2>1. job[o] \in JobType
    BY <1>1 DEF JobsShape
  <2>2. job'[o] = [job[o] EXCEPT !.calm = FALSE]
    BY <1>1 DEF Disturb
  <2>3. job'[o] \in JobType
    BY <2>1, <2>2 DEF JobType
  <2> QED BY <2>1, <2>2, <2>3, NoneAssumption DEF JobType
<1>2. \A o \in Owner : job[o] = None => job'[o] = None
  BY DEF Disturb
<1>3. job' = [o \in Owner |-> job'[o]]
  BY DEF Disturb
<1>4. JobsShape'
  BY <1>1, <1>2, <1>3 DEF JobsShape
<1>5. JobsSound'
  <2> SUFFICES ASSUME NEW o \in Owner, job'[o] # None
               PROVE  /\ \A f \in job'[o].todo : job'[o].plan[f] \in Person
                      /\ job'[o].todo # {} => job'[o].pc = "applying"
                      /\ job'[o].at # None => /\ job'[o].at \in job'[o].todo
                                             /\ job'[o].entry \in FaceType
                      /\ job'[o].half => job'[o].at # None
    BY DEF JobsSound
  <2>1. job[o] # None
    BY <1>2
  <2> QED BY <1>1, <2>1 DEF JobsSound
<1>6. SameWrites /\ SameCopies
  BY <1>1, <1>2 DEF SameWrites, SameCopies, Writing
<1> QED BY <1>4, <1>5, <1>6

(* The loop changes the store: all is well, or a write was cut across.      *)
LEMMA DisturbSound ==
  ASSUME JobsSound, IndexesSound, Disturb, SameWrites,
         fs = Loaded(fs.entry) => fs' = Loaded(fs'.entry)
  PROVE  IndexesSound'
<1>1. Writing' = Writing
  BY DEF Writing, SameWrites
<1>2. CASE Writing = {}
  <2>1. health' # "torn" => health # "torn"
    BY DEF Disturb
  <2> QED BY <1>1, <1>2, <2>1 DEF IndexesSound
<1>3. CASE Writing # {}
  <2>1. PICK o \in Owner : job[o] # None /\ job[o].half
    BY <1>3 DEF Writing
  <2>2. o \in Running
    BY <2>1 DEF Running, JobsSound
  <2> QED BY <2>1, <2>2 DEF Disturb, IndexesSound
<1> QED BY <1>2, <1>3

(* A recluster starts, goes on outside a write, or ends.                    *)
LEMMA JobChanges ==
  ASSUME JobsShape, JobsSound, NEW o \in Owner, NEW j \in JobType \cup {None},
         job[o] = None \/ job[o].at = None,
         j # None => /\ j.at = None /\ ~j.half /\ (j.todo # {} => j.pc = "applying")
                     /\ \A f \in j.todo : j.plan[f] \in Person,
         job' = [job EXCEPT ![o] = j]
  PROVE  JobsShape' /\ JobsSound' /\ SameWrites /\ SameCopies
<1>1. job'[o] = j /\ \A r \in Owner \ {o} : job'[r] = job[r]
  BY DEF JobsShape
<1>2. JobsShape'
  BY DEF JobsShape
<1>3. JobsSound'
  BY <1>1 DEF JobsSound
<1>4. SameWrites /\ SameCopies
  BY <1>1 DEF SameWrites, SameCopies, Writing, JobsSound
<1> QED BY <1>2, <1>3, <1>4

LEMMA StartJobKeeps ==
  ASSUME JobsShape, JobsSound, NEW o \in Owner, job[o] = None, StartJob(o)
  PROVE  JobsShape' /\ JobsSound' /\ SameWrites /\ SameCopies
<1> DEFINE new == [NoJob EXCEPT !.pc = "called", !.calm = FALSE]
<1>1. new \in JobType /\ new.at = None /\ new.todo = {} /\ ~new.half
  <2>1. [p \in Person |-> None] \in Folk /\ [f \in Face |-> None] \in Entered
        /\ [f \in Face |-> None] \in [Face -> Person \cup {None}]
    BY DEF Folk, Entered
  <2> QED BY <2>1 DEF NoJob, JobType, Folk, Entered
<1>2. new # None
  BY <1>1, NoneAssumption
<1> HIDE DEF new
<1>3. job' = [r \in Owner |-> IF r = o THEN new ELSE IF job[r] = None THEN None
                              ELSE [job[r] EXCEPT !.calm = FALSE]]
  BY DEF StartJob, new
<1>4. ASSUME NEW r \in Owner \ {o}, job[r] # None
      PROVE  /\ job'[r] \in JobType /\ job'[r] # None
             /\ job'[r].at = job[r].at /\ job'[r].entry = job[r].entry
             /\ job'[r].todo = job[r].todo /\ job'[r].plan = job[r].plan
             /\ job'[r].pc = job[r].pc /\ job'[r].half = job[r].half
  <2>1. job[r] \in JobType
    BY <1>4 DEF JobsShape
  <2>2. job'[r] = [job[r] EXCEPT !.calm = FALSE]
    BY <1>3, <1>4
  <2>3. job'[r] \in JobType
    BY <2>1, <2>2 DEF JobType
  <2> QED BY <2>1, <2>2, <2>3, NoneAssumption DEF JobType
<1>5. job'[o] = new /\ \A r \in Owner \ {o} : job[r] = None => job'[r] = None
  BY <1>3
<1>6. JobsShape'
  BY <1>1, <1>3, <1>4, <1>5 DEF JobsShape
<1>7. JobsSound'
  BY <1>1, <1>4, <1>5 DEF JobsSound
<1>8. SameWrites /\ SameCopies
  BY <1>1, <1>2, <1>4, <1>5 DEF SameWrites, SameCopies, Writing
<1> QED BY <1>6, <1>7, <1>8

-----------------------------------------------------------------------------
(* The steps.                                                               *)
FilesShape == files.entries \in Entered /\ files.people \in Folk
WorkerShape ==
    /\ worker \in WorkerType
    /\ worker.pc \in {"read", "found", "assign"} => worker.item \in Item

LEMMA SaveSomeShape ==
  ASSUME FilesShape, fs' \in StoreType, people' \in Folk, NEW which, SaveSome(which)
  PROVE  FilesShape'
<1>1. fs'.entry \in Entered
  BY DEF StoreType
<1>2. PICK miss \in SUBSET which :
        files' = [people  |-> IF "people" \in which \ miss THEN people' ELSE files.people,
                  entries |-> IF "faces" \in which \ miss THEN fs'.entry ELSE files.entries,
                  lib     |-> IF "index" \in which \ miss THEN lib' ELSE files.lib]
  BY DEF SaveSome
<1> QED BY <1>1, <1>2 DEF FilesShape

LEMMA ShapeParts ==
  FacesShape <=> /\ fs \in StoreType /\ people \in Folk /\ FilesShape
                 /\ WorkerShape /\ JobsShape
  BY DEF FacesShape, FilesShape, WorkerShape, JobsShape

LEMMA ShapePartsNext ==
  FacesShape' <=> /\ fs' \in StoreType /\ people' \in Folk /\ FilesShape'
                  /\ WorkerShape' /\ JobsShape'
  BY DEF FacesShape, FilesShape, WorkerShape, JobsShape

LEMMA UntouchedSound ==
  ASSUME FacesInv, UNCHANGED <<fs, job, health>>
  PROVE  JobsShape' /\ JobsSound' /\ IndexesSound'
  BY DEF FacesInv, FacesShape, JobsShape, JobsSound, IndexesSound, Writing, HalfWritten

(* The worker's own steps.                                                  *)
LEMMA WorkerKeepsSound ==
  ASSUME FacesInv, WorkerStep PROVE FacesShape' /\ JobsSound' /\ IndexesSound'
<1> DEFINE Goal == FacesShape' /\ JobsSound' /\ IndexesSound'
<1> USE DEF FacesInv
<1>0. fs \in StoreType /\ people \in Folk /\ FilesShape /\ WorkerShape /\ JobsShape
  BY ShapeParts
<1>1. CASE Wake \/ StartSweep \/ Detect \/ FinishItem
  <2>1. UNCHANGED <<fs, people, job, files, health>>
    BY <1>1 DEF Wake, StartSweep, Detect, FinishItem
  <2>2. WorkerShape'
    <3>1. CASE Wake
      BY <1>0, <3>1 DEF Wake, WorkerShape, WorkerType
    <3>2. CASE StartSweep
      BY <1>0, <3>2 DEF StartSweep, WorkerShape, WorkerType, Pending
    <3>3. CASE Detect
      <4>1. worker.item \in Item /\ Shows[worker.item] \in SUBSET Look
        BY <1>0, <3>3, ShowsAssumption DEF Detect, WorkerShape
      <4>2. PICK found \in SUBSET Look :
              worker' = [worker EXCEPT !.pc = "found", !.found = found, !.pids = {}]
        <5>1. {{}} \cup (IF Live(worker.item) THEN {Shows[worker.item]} ELSE {})
                \subseteq SUBSET Look
          BY <4>1
        <5> QED BY <3>3, <5>1 DEF Detect
      <4> QED BY <1>0, <4>1, <4>2 DEF WorkerShape, WorkerType
    <3>4. CASE FinishItem
      BY <1>0, <3>4 DEF FinishItem, WorkerShape, WorkerType
    <3> QED BY <1>1, <3>1, <3>2, <3>3, <3>4
  <2> QED BY <1>0, <2>1, <2>2, UntouchedSound, ShapePartsNext DEF FilesShape
<1>2. CASE FinishSweeps
  <2>1. UNCHANGED <<fs, people, files, health>> /\ WorkerShape' /\ FilesShape'
    BY <1>0, <1>2 DEF FinishSweeps, WorkerShape, WorkerType, FilesShape
  <2>2. CASE worker.dirty /\ job["worker"] = None
    <3>1. StartJob("worker") /\ "worker" \in Owner
      BY <1>2, <2>2 DEF FinishSweeps, Owner
    <3> QED BY <1>0, <2>1, <2>2, <3>1, StartJobKeeps, SameWritesSound, ShapePartsNext
  <2>3. CASE worker.dirty /\ job["worker"] # None
    BY <1>2, <2>3 DEF FinishSweeps, WorkerWaits
  <2>4. CASE ~worker.dirty
    BY <1>0, <1>2, <2>1, <2>4, UntouchedSound, ShapePartsNext DEF FinishSweeps
  <2> QED BY <2>2, <2>3, <2>4
<1>3. CASE EndSweep
  <2>1. fs' = fs /\ people' \in Folk
    BY <1>0, <1>3, AllRecomputedType DEF EndSweep
  <2>2. WorkerShape'
    BY <1>0, <1>3 DEF EndSweep, WorkerShape, WorkerType
  <2>3. FilesShape'
    BY <1>0, <1>3, <2>1, SaveSomeShape DEF EndSweep, SaveState, FilesShape
  <2>4. UNCHANGED <<job, health>> \/ Disturb
    BY <1>3 DEF EndSweep
  <2>5. JobsShape' /\ JobsSound' /\ IndexesSound'
    BY <1>0, <2>1, <2>4, UntouchedSound, DisturbKeeps, DisturbSound
  <2> QED BY <1>0, <2>1, <2>2, <2>3, <2>5, ShapePartsNext
<1>4. ASSUME NEW i \in Item, NextItem(i) PROVE Goal
  <2>1. UNCHANGED <<people, files>> /\ WorkerShape' /\ FilesShape'
    <3>1. UNCHANGED <<people, files>> /\ FilesShape'
      BY <1>0, <1>4 DEF NextItem, FilesShape
    <3>2. CASE ~Live(i)
      <4> DEFINE ch == worker.changed \/ lib[i] # None
      <4>1. ch \in BOOLEAN
        OBVIOUS
      <4>2. worker' = [worker EXCEPT !.queue = @ \ {i}, !.changed = ch]
        BY <1>4, <3>2 DEF NextItem
      <4> HIDE DEF ch
      <4> QED BY <1>0, <1>4, <3>1, <4>1, <4>2 DEF NextItem, WorkerShape, WorkerType
    <3>3. CASE Live(i)
      <4>1. worker' = [worker EXCEPT !.pc = "read", !.item = i]
        BY <1>4, <3>3 DEF NextItem
      <4> QED BY <1>0, <3>1, <4>1 DEF WorkerShape, WorkerType
    <3> QED BY <3>2, <3>3
  <2>2. CASE lib[i] = None
    <3>1. UNCHANGED <<fs, job, health>>
      BY <1>4, <2>2 DEF NextItem
    <3> QED BY <1>0, <2>1, <3>1, UntouchedSound, ShapePartsNext
  <2>3. CASE lib[i] # None
    <3>1. fs' = Forget(fs, Entries(fs, fs.byItem[i])) /\ Disturb
      BY <1>4, <2>3 DEF NextItem
    <3>2. Entries(fs, fs.byItem[i]) \in SUBSET Face
      BY <1>0 DEF StoreType, Entries
    <3>3. fs' \in StoreType
      BY <1>0, <3>1, <3>2, ForgetType
    <3>4. fs = Loaded(fs.entry) => fs' = Loaded(fs'.entry)
      BY <1>0, <3>1, <3>2, ForgetLoaded DEF StoreType
    <3> QED BY <1>0, <2>1, <3>1, <3>3, <3>4, DisturbKeeps, DisturbSound, ShapePartsNext
  <2> QED BY <2>2, <2>3
<1>5. ASSUME NEW l \in Look, AssignFace(l) PROVE Goal
  <2> DEFINE f == CHOOSE g \in FreshFaces : TRUE
  <2>1. f \in Face
    BY <1>5 DEF AssignFace, FreshFaces
  <2>2. PICK p \in Person :
           LET s    == Put(fs, f, FaceEntry(worker.item, p, l))
               base == IF people[p] = None THEN [people EXCEPT ![p] = NewPerson] ELSE people
           IN  /\ fs' = s
               /\ people' = Recomputed(base, p, s)
               /\ worker' = [worker EXCEPT !.pc = "assign", !.found = @ \ {l},
                                           !.pids = @ \cup {p}]
    BY <1>5 DEF AssignFace, Matching, Known, FreshPeople
  <2> DEFINE e == FaceEntry(worker.item, p, l)
             base == IF people[p] = None THEN [people EXCEPT ![p] = NewPerson] ELSE people
  <2>3. e \in FaceType
    BY <1>0, <1>5 DEF FaceEntry, FaceType, WorkerShape, AssignFace
  <2>4. base \in Folk
    BY <1>0, NewPersonType DEF Folk
  <2> HIDE DEF e, base, f
  <2>5. fs' = Put(fs, f, e) /\ people' = Recomputed(base, p, fs')
    BY <2>2 DEF e, base, f
  <2>6. fs' \in StoreType /\ people' \in Folk
    BY <1>0, <2>1, <2>3, <2>4, <2>5, PutType, RecomputedType
  <2>7. ASSUME fs = Loaded(fs.entry) PROVE fs' = Loaded(fs'.entry)
    <3> DEFINE new == [fs.entry EXCEPT ![f] = e]
    <3>1. fs' = Loaded(new)
      BY <1>0, <2>1, <2>3, <2>5, <2>7, PutLoaded DEF StoreType
    <3> QED BY <3>1 DEF Loaded
  <2>8. WorkerShape'
    BY <1>0, <1>5, <2>2 DEF WorkerShape, WorkerType, AssignFace
  <2>9. FilesShape' /\ Disturb
    BY <1>0, <1>5 DEF AssignFace, FilesShape
  <2> QED BY <1>0, <2>6, <2>7, <2>8, <2>9, DisturbKeeps, DisturbSound, ShapePartsNext
<1> QED BY <1>1, <1>2, <1>3, <1>4, <1>5 DEF WorkerStep

LEMMA WorkerKeeps == ASSUME FacesInv, WorkerStep PROVE FacesInv'
<1>1. job["worker"] # None => worker.pc = "recluster"
  BY DEF FacesInv, WorkerWaits
<1>2. WorkerWaits'
  <2>1. CASE worker.pc = "recluster"
    BY <2>1 DEF WorkerStep, Wake, StartSweep, FinishSweeps, Detect, FinishItem, EndSweep,
                NextItem, AssignFace
  <2>2. CASE job["worker"] = None
    <3>1. "worker" \in Owner
      BY DEF Owner
    <3>2. Disturb => job'["worker"] = None
      BY <2>2, <3>1 DEF Disturb
    <3>3. CASE FinishSweeps
      BY <2>2, <3>3 DEF FinishSweeps, WorkerWaits, FacesInv, FacesShape, WorkerType
    <3>4. CASE ~FinishSweeps
      BY <2>2, <3>2, <3>4 DEF WorkerStep, Wake, StartSweep, Detect, FinishItem, EndSweep,
                              NextItem, AssignFace, WorkerWaits
    <3> QED BY <3>3, <3>4
  <2> QED BY <1>1, <2>1, <2>2
<1> QED BY <1>2, WorkerKeepsSound DEF FacesInv

(* Every face is in a component: the least closed set around it.            *)
LEMMA FaceHasComponent ==
  ASSUME NEW old \in Entered, NEW f \in In(old)
  PROVE  \E C \in Components(old) : f \in C
<1> DEFINE D == {B \in SUBSET In(old) : f \in B /\ Closed(B, old)}
           C == {x \in In(old) : \A B \in D : x \in B}
<1>1. \A x \in In(old) : old[x].look \in Look
  BY DEF In, Entered, FaceType
<1>2. C \in SUBSET In(old) /\ f \in C
  OBVIOUS
<1>3. Closed(C, old)
  BY DEF Closed
<1>4. ASSUME NEW B \in SUBSET C, B # {}, Closed(B, old) PROVE B = C
  <2>1. Closed(C \ B, old)
    <3> SUFFICES ASSUME NEW x \in C \ B, NEW y \in In(old),
                        <<old[x].look, old[y].look>> \in Alike
                 PROVE  y \in C \ B
      BY DEF Closed
    <3>1. y \in C
      BY <1>3 DEF Closed
    <3>2. <<old[y].look, old[x].look>> \in Alike
      BY <1>1, AlikeAssumption
    <3>3. y \notin B
      BY <1>4, <3>2 DEF Closed
    <3> QED BY <3>1, <3>3
  <2>2. f \in B
    <3> SUFFICES ASSUME f \notin B PROVE FALSE
      OBVIOUS
    <3>1. C \ B \in D
      BY <1>2, <2>1
    <3> QED BY <1>4, <3>1
  <2>3. B \in D
    BY <1>2, <1>4, <2>2
  <2> QED BY <2>3
<1>5. C \in Components(old)
  BY <1>2, <1>3, <1>4 DEF Components
<1> QED BY <1>2, <1>5

(* The steps of a recluster.                                                *)
LEMMA JobStepKeeps == ASSUME FacesInv, NEW o \in Owner, JobStep(o) PROVE FacesInv'
<1> USE DEF FacesInv
<1>0. fs \in StoreType /\ people \in Folk /\ FilesShape /\ WorkerShape /\ JobsShape
  BY ShapeParts
<1>a. ASSUME job[o] # None PROVE job[o] \in JobType
  BY <1>0, <1>a DEF JobsShape
<1>6. CASE ReadFaces(o)
  <2> DEFINE calm == worker.pc # "assign" /\ \A r \in Owner \ {o} : job[r] = None
             j == [job[o] EXCEPT !.pc = "clustering", !.old = fs.entry, !.calm = calm]
  <2>1. /\ o \in Running /\ job[o].pc = "called" /\ job[o] # None /\ job[o] \in JobType
        /\ job' = [job EXCEPT ![o] = j]
        /\ UNCHANGED <<fs, people, worker, files, health>>
    BY <1>6, <1>a DEF ReadFaces, Running
  <2>2. job[o].at = None /\ ~job[o].half /\ job[o].todo = {}
    BY <2>1 DEF JobsSound
  <2>3. calm \in BOOLEAN /\ fs.entry \in Entered
    BY <1>0 DEF StoreType
  <2> HIDE DEF calm
  <2>4. j \in JobType /\ j.at = None /\ ~j.half /\ j.todo = {}
    BY <2>1, <2>2, <2>3 DEF JobType, Entered
  <2>5. j # None
    BY <2>4, NoneAssumption
  <2> HIDE DEF j
  <2>6. JobsShape' /\ JobsSound' /\ SameWrites
    BY <1>0, <2>1, <2>2, <2>4, JobChanges
  <2>7. WorkerWaits'
    BY <1>0, <2>1 DEF WorkerWaits, JobsShape, Owner
  <2> QED BY <1>0, <2>1, <2>6, <2>7, SameWritesSound, ShapePartsNext DEF FilesShape, WorkerShape
<1>1. CASE Regroup(o)
  <2>1. /\ o \in Running /\ job[o].pc = "clustering" /\ job[o] # None
        /\ UNCHANGED <<fs, people, worker, files, health>>
    BY <1>1 DEF Regroup, Running
  <2>2. PICK g \in Regroupings(job[o].old, FreshPeople) :
          job' = [job EXCEPT ![o] =
            [@ EXCEPT !.pc = "applying", !.todo = In(job[o].old), !.next = NewPeople(g, people),
               !.plan = PlanOf(g, job[o].old)]]
    BY <1>1 DEF Regroup
  <2> DEFINE old  == job[o].old
             plan == PlanOf(g, old)
             j == [job[o] EXCEPT !.pc = "applying", !.todo = In(old),
                                 !.next = NewPeople(g, people), !.plan = plan]
  <2>3. old \in Entered /\ job[o].at = None /\ ~job[o].half
    BY <1>0, <1>a, <2>1 DEF JobType, Entered, JobsSound
  <2>4. g \in [Components(old) -> InUse(old) \cup FreshPeople]
    BY DEF Regroupings
  <2>5. InUse(old) \subseteq Person /\ FreshPeople \subseteq Person
    <3>1. \A e \in Present(old) : e \in FaceType
      BY <2>3 DEF Present, Entered
    <3> QED BY <3>1 DEF InUse, FreshPeople, FaceType
  <2>6. \A f \in In(old) : plan[f] \in Person
    <3> SUFFICES ASSUME NEW f \in In(old)
                 PROVE  \E C \in Components(old) : f \in C
      BY <2>4, <2>5 DEF In, PlanOf
    <3> QED BY <2>3, FaceHasComponent
  <2>7. plan \in [Face -> Person \cup {None}]
    BY <2>6 DEF PlanOf
  <2>8. NewPeople(g, people) \in Folk
    <3>1. DOMAIN g \subseteq SUBSET Face
      BY <2>4 DEF Components, In
    <3> QED BY <1>0, <3>1, NewPeopleType
  <2>9. In(old) \in SUBSET Face
    BY DEF In
  <2>10. j \in JobType /\ j.at = None /\ ~j.half /\ j.pc = "applying"
          /\ j.todo = In(old) /\ j.plan = plan
    <3> HIDE DEF plan, old
    <3> QED BY <1>a, <2>1, <2>3, <2>7, <2>8, <2>9 DEF JobType, Folk
  <2>11. job' = [job EXCEPT ![o] = j] /\ j # None
    BY <2>2, <2>10, NoneAssumption
  <2> HIDE DEF j, plan, old
  <2>12. JobsShape' /\ JobsSound' /\ SameWrites
    BY <1>0, <2>1, <2>3, <2>6, <2>10, <2>11, JobChanges DEF old
  <2>13. WorkerWaits'
    BY <1>0, <2>1, <2>11 DEF WorkerWaits, JobsShape, Owner
  <2> QED BY <1>0, <2>1, <2>12, <2>13, SameWritesSound, ShapePartsNext DEF FilesShape, WorkerShape
<1>2. ASSUME NEW f \in Face, SetPersonReads(o, f) PROVE FacesInv'
  <2>1. /\ o \in Running /\ job[o] # None /\ job[o] \in JobType
        /\ job[o].at = None /\ ~job[o].half /\ f \in job[o].todo
        /\ UNCHANGED <<fs, people, worker, files, health>>
    BY <1>2, <1>a DEF SetPersonReads, Running, JobsSound
  <2>2. CASE fs.entry[f] = None
    <3> DEFINE j == [job[o] EXCEPT !.todo = @ \ {f}]
    <3>1. job' = [job EXCEPT ![o] = j]
      BY <1>2, <2>2 DEF SetPersonReads
    <3>2. /\ j \in JobType /\ j.at = None /\ ~j.half /\ j.pc = job[o].pc
          /\ j.plan = job[o].plan /\ j.todo \subseteq job[o].todo
      BY <2>1 DEF JobType
    <3> HIDE DEF j
    <3>3. JobsShape' /\ JobsSound' /\ SameWrites
      <4>1. /\ j.todo # {} => j.pc = "applying"
            /\ \A g \in j.todo : j.plan[g] \in Person
        BY <2>1, <3>2 DEF JobsSound
      <4> QED BY <1>0, <2>1, <3>1, <3>2, <4>1, JobChanges
    <3>4. WorkerWaits'
      BY <1>0, <2>1, <3>1 DEF WorkerWaits, JobsShape, Owner
    <3> QED BY <1>0, <2>1, <3>3, <3>4, SameWritesSound, ShapePartsNext
            DEF FilesShape, WorkerShape
  <2>3. CASE fs.entry[f] # None
    <3> DEFINE e == [fs.entry[f] EXCEPT !.person = job[o].plan[f]]
               j == [job[o] EXCEPT !.at = f, !.entry = e]
    <3>1. job' = [job EXCEPT ![o] = j]
      BY <1>2, <2>3, Zenon DEF SetPersonReads
    <3>2. fs.entry[f] \in FaceType /\ job[o].plan[f] \in Person
      BY <1>0, <2>1, <2>3 DEF StoreType, Entered, JobsSound
    <3>3. e \in FaceType
      BY <3>2 DEF FaceType
    <3> HIDE DEF e
    <3>4. /\ j \in JobType /\ j.at = f /\ j.entry = e /\ j.todo = job[o].todo
          /\ j.plan = job[o].plan /\ j.pc = job[o].pc /\ ~j.half
      BY <2>1, <3>3 DEF JobType
    <3>5. j # None /\ f # None
      BY <3>4, NoneAssumption
    <3> HIDE DEF j
    <3>6. job'[o] = j /\ \A r \in Owner \ {o} : job'[r] = job[r]
      BY <1>0, <3>1 DEF JobsShape
    <3>7. JobsShape'
      BY <1>0, <3>1, <3>4 DEF JobsShape
    <3>8. JobsSound'
      BY <2>1, <3>3, <3>4, <3>6 DEF JobsSound
    <3>9. WorkerWaits'
      BY <2>1, <3>6 DEF WorkerWaits, Owner
    <3>10. SameWrites
      BY <2>1, <3>4, <3>5, <3>6 DEF SameWrites, Writing
    <3> QED BY <1>0, <2>1, <3>7, <3>8, <3>9, <3>10, SameWritesSound, ShapePartsNext
            DEF FilesShape, WorkerShape
  <2> QED BY <2>2, <2>3
<1>7. CASE SetPersonUnlinks(o)
  <2> DEFINE f == job[o].at
             j == [job[o] EXCEPT !.half = TRUE]
  <2>1. /\ o \in Running /\ job[o] # None /\ job[o] \in JobType
        /\ f # None /\ ~job[o].half /\ UNCHANGED <<people, worker, files>>
        /\ fs' = IF fs.entry[f] = None THEN fs ELSE Unlink(fs, f, fs.entry[f])
        /\ job' = [job EXCEPT ![o] = j] /\ Crossed(o)
    BY <1>7, <1>a DEF SetPersonUnlinks, Running
  <2>2. f \in Face /\ f \in job[o].todo /\ job[o].entry \in FaceType
    BY <2>1 DEF JobsSound, JobType
  <2>3. /\ j \in JobType /\ j.at = f /\ j.entry = job[o].entry /\ j.todo = job[o].todo
        /\ j.plan = job[o].plan /\ j.pc = job[o].pc /\ j.half
    BY <2>1 DEF JobType
  <2>4. j # None
    BY <2>3, NoneAssumption
  <2> HIDE DEF j, f
  <2>5. job'[o] = j /\ \A r \in Owner \ {o} : job'[r] = job[r]
    BY <1>0, <2>1 DEF JobsShape
  <2>6. JobsShape'
    BY <1>0, <2>1, <2>3 DEF JobsShape
  <2>7. JobsSound'
    BY <2>1, <2>2, <2>3, <2>5 DEF JobsSound
  <2>8. WorkerWaits'
    BY <2>1, <2>5 DEF WorkerWaits, Owner
  <2>9. Writing' = Writing \cup {o}
    BY <2>3, <2>4, <2>5 DEF Writing
  <2>10. fs' \in StoreType /\ fs'.entry = fs.entry
    <3>1. CASE fs.entry[f] # None
      <4>1. fs.entry[f] \in FaceType
        BY <1>0, <2>2, <3>1 DEF StoreType, Entered
      <4> QED BY <1>0, <2>1, <2>2, <3>1, <4>1, UnlinkType
    <3> QED BY <1>0, <2>1, <3>1
  <2>11. ASSUME health' # "torn" PROVE Writing = {} /\ fs = Loaded(fs.entry)
    <3>1. health # "torn" /\ ~\E r \in Running \ {o} : job[r].half
      BY <2>1, <2>11 DEF Crossed
    <3>2. Writing = {}
      BY <2>1, <3>1 DEF Writing, Running, JobsSound
    <3> QED BY <3>1, <3>2 DEF IndexesSound
  <2>12. IndexesSound'
    <3> SUFFICES ASSUME health' # "torn"
                 PROVE  HalfWritten(fs', job'[o].at) /\ Writing' = {o}
      BY <2>9, <2>11 DEF IndexesSound
    <3> QED BY <2>1, <2>3, <2>5, <2>9, <2>10, <2>11 DEF HalfWritten
  <2> QED BY <1>0, <2>1, <2>6, <2>7, <2>8, <2>10, <2>12, ShapePartsNext
          DEF FilesShape, WorkerShape
<1>3. CASE SetPersonEnds(o)
  <2>1. /\ o \in Writing /\ job[o] \in JobType /\ UNCHANGED <<people, worker, files>>
        /\ fs' = Link(fs, job[o].at, job[o].entry)
    BY <1>3, <1>a DEF SetPersonEnds, Running, Writing
  <2> DEFINE f == job[o].at
             e == job[o].entry
             j == [job[o] EXCEPT !.todo = job[o].todo \ {job[o].at}, !.at = None,
                                 !.entry = None, !.half = FALSE]
  <2>2. f \in Face /\ e \in FaceType
    BY <2>1 DEF JobsSound, Writing, JobType
  <2>3. job' = [job EXCEPT ![o] = j]
    BY <1>3 DEF SetPersonEnds
  <2>4. j \in JobType /\ j.at = None /\ ~j.half /\ j.todo \subseteq job[o].todo
        /\ j.plan = job[o].plan /\ j.pc = job[o].pc
    BY <2>1 DEF JobType
  <2>5. j # None
    BY <2>4, NoneAssumption
  <2> HIDE DEF j
  <2>6. job'[o] = j /\ \A r \in Owner \ {o} : job'[r] = job[r]
    BY <1>0, <2>3 DEF JobsShape
  <2>7. JobsShape'
    BY <1>0, <2>3, <2>4 DEF JobsShape
  <2>8. JobsSound'
    BY <2>1, <2>4, <2>6 DEF JobsSound, Writing
  <2>9. WorkerWaits'
    BY <2>1, <2>6 DEF WorkerWaits, Writing, Owner
  <2>10. Writing' = Writing \ {o}
    BY <2>4, <2>6 DEF Writing
  <2>11. IndexesSound'
    <3>1. CASE Writing = {o} /\ health # "torn"
      <4>1. HalfWritten(fs, f)
        BY <2>1, <3>1 DEF IndexesSound
      <4>2. fs.entry \in Entered
        BY <1>0 DEF StoreType
      <4> DEFINE E == fs.entry
      <4>3. Loaded(E).entry = E
        BY DEF Loaded
      <4> HIDE DEF E
      <4>4. fs' = Put(Loaded(E), f, e)
        BY <2>1, <4>1, <4>3 DEF HalfWritten, Put, E
      <4>5. fs' = Loaded([E EXCEPT ![f] = e])
        BY <2>2, <4>2, <4>4, PutLoaded DEF E
      <4>6. fs' = Loaded(fs'.entry)
        BY <4>5 DEF Loaded
      <4> QED BY <2>10, <3>1, <4>6 DEF IndexesSound
    <3>2. CASE Writing # {o} \/ health = "torn"
      <4>1. CASE health = "torn"
        BY <1>3, <4>1 DEF SetPersonEnds, Crossed, IndexesSound
      <4>2. CASE health # "torn"
        BY <2>1, <3>2, <4>2 DEF IndexesSound
      <4> QED BY <4>1, <4>2
    <3> QED BY <3>1, <3>2
  <2>12. fs' \in StoreType
    BY <1>0, <2>1, <2>2, LinkType
  <2> QED BY <1>0, <2>1, <2>7, <2>8, <2>9, <2>11, <2>12, ShapePartsNext
          DEF FilesShape, WorkerShape
<1>4. CASE Replace(o)
  <2>1. /\ job[o] # None /\ job[o] \in JobType /\ job[o].todo = {}
        /\ people' = job[o].next /\ UNCHANGED <<fs, worker, files>>
    BY <1>4, <1>a DEF Replace, Running
  <2> DEFINE j == [NoJob EXCEPT !.pc = "done", !.calm = job[o].calm]
  <2>2. job[o].at = None
    BY <2>1 DEF JobsSound
  <2>3. j \in JobType /\ j.at = None /\ ~j.half /\ j.todo = {}
    <3>1. [p \in Person |-> None] \in Folk /\ [f \in Face |-> None] \in Entered
          /\ [f \in Face |-> None] \in [Face -> Person \cup {None}]
      BY DEF Folk, Entered
    <3> QED BY <2>1, <3>1 DEF NoJob, JobType, Folk, Entered
  <2>4. job' = [job EXCEPT ![o] = j]
    BY <1>4 DEF Replace
  <2>5. people' \in Folk
    BY <2>1 DEF JobType, Folk
  <2> HIDE DEF j
  <2>6. JobsShape' /\ JobsSound' /\ SameWrites
    BY <1>0, <2>2, <2>3, <2>4, JobChanges
  <2>7. health' # "torn" => health # "torn"
    BY <1>4 DEF Replace, Spoilt
  <2>8. WorkerWaits'
    BY <1>0, <2>1, <2>4 DEF WorkerWaits, JobsShape, Owner
  <2> QED BY <1>0, <2>1, <2>5, <2>6, <2>7, <2>8, SameWritesSound, ShapePartsNext
          DEF FilesShape, WorkerShape
<1>5. CASE ReclusterReturns(o)
  <2>1. /\ job[o] # None /\ job[o].pc = "done" /\ job' = [job EXCEPT ![o] = None]
        /\ UNCHANGED <<fs, people>> /\ SaveState
    BY <1>5 DEF ReclusterReturns
  <2>2. JobsShape' /\ JobsSound' /\ SameWrites
    BY <1>0, <2>1, JobChanges DEF JobsSound
  <2>3. health' # "torn" => health # "torn"
    BY <1>5 DEF ReclusterReturns
  <2>4. FilesShape'
    BY <1>0, <2>1, SaveSomeShape DEF SaveState
  <2>5. WorkerShape' /\ WorkerWaits'
    <3>1. CASE o = "worker"
      <4>1. job'["worker"] = None
        BY <1>0, <2>1, <3>1 DEF JobsShape
      <4>2. worker' = [worker EXCEPT !.pc = "asleep", !.dirty = FALSE]
        BY <1>5, <3>1 DEF ReclusterReturns
      <4> QED BY <1>0, <4>1, <4>2 DEF WorkerShape, WorkerType, WorkerWaits
    <3>2. CASE o # "worker"
      <4>1. worker' = worker /\ job'["worker"] = job["worker"]
        BY <1>0, <1>5, <2>1, <3>2 DEF ReclusterReturns, JobsShape, Owner
      <4> QED BY <1>0, <4>1 DEF WorkerShape, WorkerWaits
    <3> QED BY <3>1, <3>2
  <2> QED BY <1>0, <2>1, <2>2, <2>3, <2>4, <2>5, SameWritesSound, ShapePartsNext
<1> QED BY <1>1, <1>2, <1>3, <1>4, <1>5, <1>6, <1>7 DEF JobStep

-----------------------------------------------------------------------------
(* The handlers.                                                            *)
LEMMA CorrectedKeeps ==
  ASSUME FacesInv, Corrected, worker' = worker,
         fs' \in StoreType, people' \in Folk, fs = Loaded(fs.entry) => fs' = Loaded(fs'.entry)
  PROVE  FacesInv'
<1>0. fs \in StoreType /\ people \in Folk /\ FilesShape /\ WorkerShape /\ JobsShape
      /\ JobsSound /\ WorkerWaits /\ IndexesSound
  BY ShapeParts DEF FacesInv
<1>1. SaveSome({"people", "faces", "index"}) /\ Disturb
  BY DEF Corrected, SaveState
<1>2. JobsShape' /\ JobsSound' /\ SameWrites /\ IndexesSound'
  BY <1>0, <1>1, DisturbKeeps, DisturbSound
<1>3. FilesShape'
  BY <1>0, <1>1, SaveSomeShape
<1>4. WorkerShape'
  BY <1>0 DEF WorkerShape
<1>5. WorkerWaits'
  BY <1>0, <1>1 DEF WorkerWaits, Disturb, Owner
<1> QED BY <1>2, <1>3, <1>4, <1>5, ShapePartsNext DEF FacesInv

LEMMA MergedKeeps ==
  ASSUME fs \in StoreType, people \in Folk, NEW p \in Person, NEW q \in Person, Merged(p, q)
  PROVE  /\ fs' \in StoreType /\ people' \in Folk
         /\ fs = Loaded(fs.entry) => fs' = Loaded(fs'.entry)
<1>1. fs' = MoveAll(fs, q, p) /\ people' = Recomputed([people EXCEPT ![q] = None], p, fs')
  BY DEF Merged
<1>2. [people EXCEPT ![q] = None] \in Folk /\ fs.entry \in Entered
  BY DEF Folk, StoreType
<1>3. fs' \in StoreType
  BY <1>1, MoveAllType
<1> QED BY <1>1, <1>2, <1>3, MoveAllLoaded, RecomputedType

(* A face moves to another person.                                          *)
LEMMA MovedKeeps ==
  ASSUME fs \in StoreType, NEW f \in Face, fs.entry[f] # None, NEW q \in Person,
         fs' = Put(fs, f, [fs.entry[f] EXCEPT !.person = q])
  PROVE  /\ fs' \in StoreType /\ fs.entry[f].person \in Person
         /\ fs = Loaded(fs.entry) => fs' = Loaded(fs'.entry)
<1> DEFINE e == [fs.entry[f] EXCEPT !.person = q]
<1>1. fs.entry \in Entered /\ fs.entry[f] \in FaceType
  BY DEF StoreType, Entered
<1>2. e \in FaceType /\ fs.entry[f].person \in Person
  BY <1>1 DEF FaceType
<1> HIDE DEF e
<1>3. fs' = Put(fs, f, e)
  BY DEF e
<1>4. ASSUME fs = Loaded(fs.entry) PROVE fs' = Loaded(fs'.entry)
  <2> DEFINE moved == [fs.entry EXCEPT ![f] = e]
  <2>1. fs' = Loaded(moved)
    BY <1>1, <1>2, <1>3, <1>4, PutLoaded
  <2> HIDE DEF moved
  <2>2. fs'.entry = moved
    BY <2>1 DEF Loaded
  <2> QED BY <2>1, <2>2
<1> QED BY <1>2, <1>3, <1>4, PutType

LEMMA RequestKeeps == ASSUME FacesInv, Request PROVE FacesInv'
<1>0. fs \in StoreType /\ people \in Folk /\ FilesShape /\ WorkerShape /\ JobsShape
      /\ JobsSound /\ WorkerWaits /\ IndexesSound
  BY ShapeParts DEF FacesInv
<1>1. CASE Recluster
  <2>1. /\ StartJob("handler") /\ job["handler"] = None /\ "handler" \in Owner
        /\ UNCHANGED <<fs, people, worker, files, health>>
    BY <1>1 DEF Recluster, Owner
  <2>2. JobsShape' /\ JobsSound' /\ SameWrites
    BY <1>0, <2>1, StartJobKeeps
  <2>3. WorkerWaits'
    BY <1>0, <2>1 DEF WorkerWaits, StartJob, Owner
  <2> QED BY <1>0, <2>1, <2>2, <2>3, SameWritesSound, ShapePartsNext
          DEF FacesInv, FilesShape, WorkerShape
<1>2. ASSUME NEW p \in Person, DeletePerson(p) PROVE FacesInv'
  <2>1. Entries(fs, fs.byPerson[p]) \in SUBSET Face /\ fs.entry \in Entered
    BY <1>0 DEF StoreType, Entries
  <2>2. /\ fs' = Forget(fs, Entries(fs, fs.byPerson[p]))
        /\ people' = [people EXCEPT ![p] = None] /\ worker' = worker /\ Corrected
    BY <1>2 DEF DeletePerson
  <2>3. fs' \in StoreType /\ (fs = Loaded(fs.entry) => fs' = Loaded(fs'.entry))
    BY <1>0, <2>1, <2>2, ForgetType, ForgetLoaded
  <2>4. people' \in Folk
    BY <1>0, <2>2 DEF Folk
  <2> QED BY <2>2, <2>3, <2>4, CorrectedKeeps
<1>3. ASSUME NEW p \in Person, NEW q \in Person, Merge(p, q) PROVE FacesInv'
  BY <1>0, <1>3, MergedKeeps, CorrectedKeeps DEF Merge
<1>4. ASSUME NEW p \in Person, NEW n \in Name, NamePerson(p, n) PROVE FacesInv'
  <2> DEFINE twins == {q \in Known \ {p} : people[q].name # None
                                            /\ <<n, people[q].name>> \in Near}
  <2>1. /\ people[p] # None /\ worker' = worker /\ Corrected
        /\ IF twins # {} THEN \E q \in twins : Merged(q, p)
           ELSE people' = [people EXCEPT ![p].name = n] /\ UNCHANGED fs
    BY <1>4 DEF NamePerson, Known
  <2>2. CASE twins # {}
    <3>1. PICK q \in Person : Merged(q, p)
      BY <2>1, <2>2 DEF Known
    <3> QED BY <1>0, <2>1, <3>1, MergedKeeps, CorrectedKeeps
  <2>3. CASE twins = {}
    <3>1. fs' = fs /\ people' \in Folk
      BY <1>0, <2>1, <2>3 DEF Folk, PersonType
    <3> QED BY <1>0, <2>1, <3>1, CorrectedKeeps
  <2> QED BY <2>2, <2>3
<1>5. ASSUME NEW f \in Face, Detach(f) PROVE FacesInv'
  <2> DEFINE q == CHOOSE r \in FreshPeople : TRUE
             base == [people EXCEPT ![q] = NewPerson]
  <2>1. q \in Person
    BY <1>5 DEF Detach, FreshPeople
  <2>2. base \in Folk
    BY <1>0, NewPersonType DEF Folk
  <2> HIDE DEF q, base
  <2>3. /\ fs.entry[f] # None /\ worker' = worker /\ Corrected
        /\ fs' = Put(fs, f, [fs.entry[f] EXCEPT !.person = q])
        /\ people' = Pruned(Recomputed(Recomputed(base, fs.entry[f].person, fs'), q, fs'))
    BY <1>5 DEF Detach, q, base
  <2>4. /\ fs' \in StoreType /\ fs.entry[f].person \in Person
        /\ fs = Loaded(fs.entry) => fs' = Loaded(fs'.entry)
    BY <1>0, <2>1, <2>3, MovedKeeps
  <2>5. Recomputed(base, fs.entry[f].person, fs') \in Folk
    BY <2>2, <2>4, RecomputedType
  <2>6. people' \in Folk
    BY <2>1, <2>3, <2>4, <2>5, RecomputedType, PrunedType
  <2> QED BY <2>3, <2>4, <2>6, CorrectedKeeps
<1>6. ASSUME NEW f \in Face, NEW q \in Person, Reassign(f, q) PROVE FacesInv'
  <2>3. /\ fs.entry[f] # None /\ worker' = worker /\ Corrected
        /\ fs' = Put(fs, f, [fs.entry[f] EXCEPT !.person = q])
        /\ people' = Pruned(Recomputed(Recomputed(people, fs.entry[f].person, fs'), q, fs'))
    BY <1>6 DEF Reassign
  <2>4. /\ fs' \in StoreType /\ fs.entry[f].person \in Person
        /\ fs = Loaded(fs.entry) => fs' = Loaded(fs'.entry)
    BY <1>0, <2>3, MovedKeeps
  <2>5. Recomputed(people, fs.entry[f].person, fs') \in Folk
    BY <1>0, <2>4, RecomputedType
  <2>6. people' \in Folk
    BY <2>3, <2>4, <2>5, RecomputedType, PrunedType
  <2> QED BY <2>3, <2>4, <2>6, CorrectedKeeps
<1>7. ASSUME NEW i \in Item, Purge(i) \/ \E t \in BOOLEAN : SetTrashed(i, t) PROVE FacesInv'
  <2>1. UNCHANGED <<fs, people, worker, job, health>> /\ SaveSome({"index"})
    BY <1>7 DEF Purge, SetTrashed, SaveIndex
  <2>2. FilesShape'
    BY <1>0, <2>1, SaveSomeShape
  <2> QED BY <1>0, <2>1, <2>2, UntouchedSound, ShapePartsNext
          DEF FacesInv, WorkerShape, WorkerWaits
<1> QED BY <1>1, <1>2, <1>3, <1>4, <1>5, <1>6, <1>7 DEF Request

-----------------------------------------------------------------------------
LEMMA FacesInitially == FacesInit => FacesInv
<1> SUFFICES ASSUME FacesInit PROVE FacesInv
  OBVIOUS
<1>1. fs = Loaded(fs.entry) /\ fs.entry \in Entered
  BY DEF FacesInit, EmptyStore, Loaded, Entered
<1>2. fs \in StoreType
  BY <1>1, LoadedType
<1>3. people \in Folk /\ FilesShape
  BY <1>1 DEF FacesInit, Folk, FilesShape
<1>4. WorkerShape
  BY DEF FacesInit, Asleep, WorkerShape, WorkerType
<1>5. job = [o \in Owner |-> None]
  BY DEF FacesInit
<1>6. JobsShape /\ JobsSound /\ WorkerWaits /\ Writing = {}
  BY <1>5 DEF JobsShape, JobsSound, WorkerWaits, Writing, Owner
<1> QED BY <1>1, <1>2, <1>3, <1>4, <1>6, ShapeParts DEF FacesInv, IndexesSound

LEMMA FacesKept == FacesInv /\ [FacesNext]_facesVars => FacesInv'
<1> SUFFICES ASSUME FacesInv, [FacesNext]_facesVars PROVE FacesInv'
  OBVIOUS
<1>0. fs \in StoreType /\ people \in Folk /\ FilesShape /\ WorkerShape /\ JobsShape
      /\ JobsSound /\ WorkerWaits /\ IndexesSound
  BY ShapeParts DEF FacesInv
<1>1. ASSUME NEW o \in Owner, ReclusterRaises(o) PROVE FacesInv'
  <2>1. /\ job[o] # None /\ job[o].pc = "clustering" /\ job' = [job EXCEPT ![o] = None]
        /\ UNCHANGED <<fs, people, files, health>>
    BY <1>1 DEF ReclusterRaises, Running
  <2>2. job[o].at = None
    BY <1>0, <2>1 DEF JobsSound
  <2>3. JobsShape' /\ JobsSound' /\ SameWrites
    BY <1>0, <2>1, <2>2, JobChanges
  <2>4. WorkerShape' /\ WorkerWaits'
    <3>1. CASE o = "worker"
      <4>1. job'["worker"] = None
        BY <1>0, <2>1, <3>1 DEF JobsShape
      <4>2. worker' = [worker EXCEPT !.pc = "asleep"]
        BY <1>1, <3>1 DEF ReclusterRaises
      <4> QED BY <1>0, <4>1, <4>2 DEF WorkerShape, WorkerType, WorkerWaits
    <3>2. CASE o # "worker"
      <4>1. worker' = worker /\ job'["worker"] = job["worker"]
        BY <1>0, <1>1, <2>1, <3>2 DEF ReclusterRaises, JobsShape, Owner
      <4> QED BY <1>0, <4>1 DEF WorkerShape, WorkerWaits
    <3> QED BY <3>1, <3>2
  <2> QED BY <1>0, <2>1, <2>3, <2>4, SameWritesSound, ShapePartsNext DEF FacesInv, FilesShape
<1>2. ASSUME NEW i \in Item, Upload(i) PROVE FacesInv'
  <2>1. UNCHANGED <<fs, people, worker, job, health>> /\ SaveSome({"index"})
    BY <1>2 DEF Upload, SaveIndex
  <2>2. FilesShape'
    BY <1>0, <2>1, SaveSomeShape
  <2> QED BY <1>0, <2>1, <2>2, UntouchedSound, ShapePartsNext
          DEF FacesInv, WorkerShape, WorkerWaits
<1>3. ASSUME NEW bump \in BOOLEAN, Restart(bump) PROVE FacesInv'
  <2>1. /\ people' = files.people /\ fs' = Loaded(files.entries) /\ worker' = Asleep
        /\ job' = [o \in Owner |-> None] /\ UNCHANGED files
    BY <1>3 DEF Restart
  <2>2. fs' \in StoreType /\ people' \in Folk /\ FilesShape' /\ fs' = Loaded(fs'.entry)
    <3>1. fs'.entry = files.entries
      BY <2>1 DEF Loaded
    <3> QED BY <1>0, <2>1, <3>1, LoadedType DEF FilesShape
  <2>3. WorkerShape'
    BY <2>1 DEF Asleep, WorkerShape, WorkerType
  <2>4. JobsShape' /\ JobsSound' /\ WorkerWaits' /\ Writing' = {}
    BY <2>1 DEF JobsShape, JobsSound, WorkerWaits, Writing, Owner
  <2> QED BY <2>2, <2>3, <2>4, ShapePartsNext DEF FacesInv, IndexesSound
<1>4. CASE UNCHANGED facesVars
  <2>1. UNCHANGED <<fs, people, worker, job, files, health>>
    BY <1>4 DEF facesVars
  <2> QED BY <1>0, <2>1, UntouchedSound, ShapePartsNext
          DEF FacesInv, FilesShape, WorkerShape, WorkerWaits
<1> QED BY <1>1, <1>2, <1>3, <1>4, WorkerKeeps, JobStepKeeps, RequestKeeps DEF FacesNext

LEMMA HonestFollows == FacesInv => IndexHonest
  BY DEF FacesInv, IndexesSound, JobsSound, IndexHonest, Running, Writing

(* FaceStore's indexes by person and by item agree with its entries, for    *)
(* any number of photos, faces and people, however handlers, the worker,    *)
(* reclusters and restarts interleave, unless a thread was switched inside  *)
(* a write that another one met (faces_index.py:100-118).                   *)
THEOREM FacesIndexHonest == FacesSpec => []IndexHonest
<1> QED BY FacesInitially, FacesKept, HonestFollows, PTL DEF FacesSpec

-----------------------------------------------------------------------------
(* No face twice.                                                           *)
NoTwins(E) ==
    \A f, g \in In(E) : (E[f].item = E[g].item /\ E[f].look = E[g].look) => f = g

(* D has no other faces than E, of the same photos and looks.               *)
Derived(E, D) ==
    \A f \in Face : D[f] # None =>
        E[f] # None /\ D[f].item = E[f].item /\ D[f].look = E[f].look

Looking == worker.pc \in {"read", "found", "assign"}

(* No index was torn and no dropped face came back.                         *)
Sane == health \notin {"torn", "revived"}

(* The entry a recluster holds a copy of is there, of the same photo and    *)
(* look.                                                                    *)
Copied ==
    \A o \in Owner : (job[o] # None /\ job[o].at # None) =>
        /\ fs.entry[job[o].at] # None
        /\ job[o].entry.item = fs.entry[job[o].at].item
        /\ job[o].entry.look = fs.entry[job[o].at].look

SingleInv ==
    Sane =>
      /\ worker.pc \in {"read", "found"} =>
            \A f \in Stored(fs) : fs.entry[f].item # worker.item
      /\ NoTwins(fs.entry) /\ NoTwins(files.entries)
      /\ worker.pc \in {"found", "assign"} =>
            \A f \in Stored(fs) : fs.entry[f].item = worker.item =>
                                      fs.entry[f].look \notin worker.found
      /\ Copied

LEMMA DerivedNoTwins ==
  ASSUME NEW E, NEW D, NoTwins(E), Derived(E, D) PROVE NoTwins(D)
  BY DEF NoTwins, Derived, In

LEMMA DerivedSame == \A E : Derived(E, E)
  BY DEF Derived

LEMMA PutEntry ==
  ASSUME NEW s \in StoreType, NEW f \in Face, NEW e \in FaceType
  PROVE  Put(s, f, e).entry = [s.entry EXCEPT ![f] = e]
<1>1. CASE s.entry[f] = None
  BY <1>1 DEF Put, Link, StoreType
<1>2. CASE s.entry[f] # None
  <2>1. s.entry[f] \in FaceType
    BY <1>2 DEF StoreType, Entered
  <2>2. Unlink(s, f, s.entry[f]) \in StoreType /\ Unlink(s, f, s.entry[f]).entry = s.entry
    BY <2>1, UnlinkType
  <2> QED BY <1>2, <2>2 DEF Put, Link, StoreType
<1> QED BY <1>1, <1>2

LEMMA LinkEntry ==
  ASSUME NEW s \in StoreType, NEW f \in Face, NEW e \in FaceType
  PROVE  Link(s, f, e).entry = [s.entry EXCEPT ![f] = e]
  BY DEF Link, StoreType

LEMMA ForgetDerives ==
  ASSUME NEW s \in StoreType, NEW F PROVE Derived(s.entry, Forget(s, F).entry)
  BY DEF Forget, Derived

LEMMA MoveDerives ==
  ASSUME NEW s \in StoreType, NEW p, NEW q PROVE Derived(s.entry, MoveAll(s, p, q).entry)
<1> SUFFICES ASSUME NEW f \in Face, MoveAll(s, p, q).entry[f] # None
             PROVE  /\ s.entry[f] # None /\ MoveAll(s, p, q).entry[f].item = s.entry[f].item
                    /\ MoveAll(s, p, q).entry[f].look = s.entry[f].look
  BY DEF Derived
<1>1. MoveAll(s, p, q).entry[f] = s.entry[f]
      \/ (s.entry[f] # None /\ MoveAll(s, p, q).entry[f] = [s.entry[f] EXCEPT !.person = q])
  BY DEF MoveAll, Entries
<1>2. s.entry[f] # None => s.entry[f] \in FaceType
  BY DEF StoreType, Entered
<1> QED BY <1>1, <1>2 DEF FaceType

(* A face given to another person.                                          *)
LEMMA ToDerives ==
  ASSUME NEW E \in Entered, NEW f \in Face, E[f] # None, NEW e \in FaceType,
         e.item = E[f].item, e.look = E[f].look
  PROVE  Derived(E, [E EXCEPT ![f] = e])
  BY DEF Derived, Entered

LEMMA FaceTo ==
  ASSUME NEW e \in FaceType, NEW q \in Person
  PROVE  /\ [e EXCEPT !.person = q] \in FaceType /\ [e EXCEPT !.person = q].person = q
         /\ [e EXCEPT !.person = q].item = e.item /\ [e EXCEPT !.person = q].look = e.look
  BY DEF FaceType

LEMMA PutDerives ==
  ASSUME NEW s \in StoreType, NEW f \in Face, s.entry[f] # None, NEW q \in Person
  PROVE  Derived(s.entry, Put(s, f, [s.entry[f] EXCEPT !.person = q]).entry)
<1>1. s.entry \in Entered /\ s.entry[f] \in FaceType
  BY DEF StoreType, Entered
<1> DEFINE e == [s.entry[f] EXCEPT !.person = q]
<1>2. e \in FaceType /\ e.item = s.entry[f].item /\ e.look = s.entry[f].look
  BY <1>1, FaceTo
<1> HIDE DEF e
<1>3. Put(s, f, e).entry = [s.entry EXCEPT ![f] = e]
  BY <1>2, PutEntry
<1>4. Derived(s.entry, [s.entry EXCEPT ![f] = e])
  BY <1>1, <1>2, ToDerives
<1> QED BY <1>3, <1>4 DEF e

LEMMA SaveSomeEntries ==
  ASSUME NEW which, SaveSome(which)
  PROVE  /\ files'.entries = files.entries \/ files'.entries = fs'.entry
         /\ files'.people = files.people \/ files'.people = people'
         /\ files'.lib = files.lib \/ files'.lib = lib'
<1>1. PICK miss \in SUBSET which :
        files' = [people  |-> IF "people" \in which \ miss THEN people' ELSE files.people,
                  entries |-> IF "faces" \in which \ miss THEN fs'.entry ELSE files.entries,
                  lib     |-> IF "index" \in which \ miss THEN lib' ELSE files.lib]
  BY DEF SaveSome
<1> QED BY <1>1

(* A change the loop makes while no thread is inside a write.               *)
LEMMA DisturbClean ==
  ASSUME JobsSound, IndexesSound, Disturb, Sane'
  PROVE  fs = Loaded(fs.entry) /\ Writing = {} /\ health' = health
<1>1. Writing \subseteq Running
  BY DEF JobsSound, Writing, Running
<1>2. Writing = {} /\ health' = health /\ health # "torn"
  BY <1>1 DEF Disturb, Writing, Sane
<1> QED BY <1>2 DEF IndexesSound

(* The entries of D are those of E or faces there were not.                 *)
Kept(E, D) ==
    \A f \in Face : (E[f] # None /\ D[f] # None) => D[f].item = E[f].item /\ D[f].look = E[f].look

LEMMA CopiesSame == ASSUME SameCopies, fs'.entry = fs.entry, Copied PROVE Copied'
  BY DEF SameCopies, Copied

LEMMA CopiesDisturbed ==
  ASSUME JobsShape, JobsSound, Disturb, Kept(fs.entry, fs'.entry), Copied, Sane'
  PROVE  Copied'
<1>1. SameCopies
  BY DisturbKeeps
<1> SUFFICES ASSUME NEW o \in Owner, job'[o] # None, job'[o].at # None
             PROVE  /\ fs'.entry[job'[o].at] # None
                    /\ job'[o].entry.item = fs'.entry[job'[o].at].item
                    /\ job'[o].entry.look = fs'.entry[job'[o].at].look
  BY DEF Copied
<1>2. job[o] # None /\ job[o].at # None /\ job'[o].at = job[o].at /\ job'[o].entry = job[o].entry
  BY <1>1 DEF SameCopies
<1>3. job[o] \in JobType /\ job[o].at \in job[o].todo /\ job[o].pc = "applying"
  BY <1>2 DEF JobsShape, JobsSound
<1>4. o \in Running /\ job[o].at \in Face
  BY <1>2, <1>3 DEF Running, JobType
<1>5. fs'.entry[job[o].at] # None
  BY <1>2, <1>4 DEF Disturb, Sane
<1> QED BY <1>2, <1>4, <1>5 DEF Copied, Kept

(* A step that finds no new face, unless a write has been cut across.       *)
Finds == \/ \E i \in Item : NextItem(i)
         \/ Detect
         \/ \E l \in Look : AssignFace(l)

Mild ==
    /\ Sane' => Sane /\ Derived(fs.entry, fs'.entry) /\ Copied'
    /\ worker' = worker \/ worker'.pc \notin {"read", "found", "assign"}
    /\ files'.entries = files.entries \/ files'.entries = fs'.entry

LEMMA WorkerMild ==
  ASSUME FacesInv, SingleInv, WorkerStep, ~Finds PROVE Mild
<1>0. worker \in WorkerType /\ JobsShape /\ JobsSound
  BY ShapeParts DEF FacesInv, FacesShape
<1>1. CASE Wake \/ StartSweep \/ FinishSweeps \/ FinishItem
  <2>1. UNCHANGED <<fs, files, health>>
    BY <1>1 DEF Wake, StartSweep, FinishSweeps, FinishItem
  <2>3. SameCopies
    <3>1. CASE job' = job
      BY <3>1 DEF SameCopies
    <3>2. CASE job' # job
      <4>1. StartJob("worker") /\ worker.pc = "sweep" /\ "worker" \in Owner
        BY <1>1, <3>2 DEF Wake, StartSweep, FinishSweeps, FinishItem, Owner
      <4>2. job["worker"] = None
        BY <4>1 DEF FacesInv, WorkerWaits
      <4> QED BY <1>0, <4>1, <4>2, StartJobKeeps
    <3> QED BY <3>1, <3>2
  <2>2. worker'.pc \notin {"read", "found", "assign"}
    BY <1>0, <1>1 DEF Wake, StartSweep, FinishSweeps, FinishItem, WorkerType
  <2> QED BY <2>1, <2>2, <2>3, CopiesSame, DerivedSame DEF Mild, Sane, SingleInv
<1>2. CASE EndSweep
  <2>1. fs' = fs /\ worker'.pc \notin {"read", "found", "assign"}
    BY <1>0, <1>2 DEF EndSweep, WorkerType
  <2>2. files'.entries = files.entries \/ files'.entries = fs'.entry
    BY <1>2, SaveSomeEntries DEF EndSweep, SaveState
  <2>3. Disturb \/ UNCHANGED <<job, health>>
    BY <1>2 DEF EndSweep
  <2>4. Sane' => Sane
    BY <2>3 DEF Disturb, Sane
  <2>5. SameCopies
    BY <1>0, <2>3, DisturbKeeps DEF SameCopies
  <2> QED BY <2>1, <2>2, <2>4, <2>5, CopiesSame, DerivedSame DEF Mild, SingleInv
<1> QED BY <1>1, <1>2 DEF WorkerStep, Finds

LEMMA JobMild ==
  ASSUME FacesInv, SingleInv, NEW o \in Owner, JobStep(o) PROVE Mild
<1> USE DEF FacesInv
<1>0. fs \in StoreType /\ JobsShape /\ JobsSound /\ worker \in WorkerType /\ (Sane => Copied)
  BY ShapeParts DEF WorkerShape, SingleInv
<1>a. ASSUME job[o] # None PROVE job[o] \in JobType
  BY <1>0, <1>a DEF JobsShape
(* Whoever else holds a copy is not disturbed by what o does outside its own. *)
<1>b. ASSUME NEW j, job' = [job EXCEPT ![o] = j], fs'.entry = fs.entry, Copied,
             j # None => j.at = None \/ (job[o] # None /\ j.at = job[o].at /\ j.entry = job[o].entry)
      PROVE  Copied'
  <2>1. job'[o] = j /\ \A r \in Owner \ {o} : job'[r] = job[r]
    BY <1>0, <1>b DEF JobsShape
  <2> QED BY <1>b, <2>1 DEF Copied
<1>1. CASE ReadFaces(o) \/ Regroup(o)
  <2>1. job[o] # None /\ job[o] \in JobType /\ UNCHANGED <<fs, worker, files, health>>
    BY <1>1, <1>a DEF ReadFaces, Regroup, Running
  <2>2. PICK j : job' = [job EXCEPT ![o] = j] /\ j.at = job[o].at /\ j.entry = job[o].entry
    <3>1. CASE ReadFaces(o)
      <4> DEFINE calm == worker.pc # "assign" /\ \A r \in Owner \ {o} : job[r] = None
                 j == [job[o] EXCEPT !.pc = "clustering", !.old = fs.entry, !.calm = calm]
      <4>1. job' = [job EXCEPT ![o] = j]
        BY <3>1 DEF ReadFaces
      <4> HIDE DEF calm
      <4>2. j.at = job[o].at /\ j.entry = job[o].entry
        BY <2>1 DEF JobType
      <4> QED BY <4>1, <4>2
    <3>2. CASE Regroup(o)
      <4>1. PICK g \in Regroupings(job[o].old, FreshPeople) :
              job' = [job EXCEPT ![o] =
                [@ EXCEPT !.pc = "applying", !.todo = In(job[o].old), !.next = NewPeople(g, people),
                   !.plan = PlanOf(g, job[o].old)]]
        BY <3>2 DEF Regroup
      <4> DEFINE A == In(job[o].old)
                 B == NewPeople(g, people)
                 C == PlanOf(g, job[o].old)
                 j == [job[o] EXCEPT !.pc = "applying", !.todo = A, !.next = B, !.plan = C]
      <4>2. job' = [job EXCEPT ![o] = j]
        BY <4>1
      <4> HIDE DEF A, B, C
      <4>3. j.at = job[o].at /\ j.entry = job[o].entry
        BY <2>1 DEF JobType
      <4> QED BY <4>2, <4>3
    <3> QED BY <1>1, <3>1, <3>2
  <2>3. Copied => Copied'
    BY <1>b, <2>1, <2>2
  <2> QED BY <1>0, <2>1, <2>3, DerivedSame DEF Mild, Sane
<1>2. ASSUME NEW f \in Face, SetPersonReads(o, f) PROVE Mild
  <2>1. /\ job[o] # None /\ job[o] \in JobType /\ job[o].at = None
        /\ UNCHANGED <<fs, worker, files, health>>
    BY <1>2, <1>a DEF SetPersonReads, Running
  <2>2. ASSUME Copied PROVE Copied'
    <3>1. CASE fs.entry[f] = None
      <4> DEFINE j == [job[o] EXCEPT !.todo = @ \ {f}]
      <4>1. job' = [job EXCEPT ![o] = j] /\ j.at = None
        BY <1>2, <2>1, <3>1 DEF SetPersonReads, JobType
      <4> HIDE DEF j
      <4> QED BY <1>b, <2>1, <2>2, <4>1
    <3>2. CASE fs.entry[f] # None
      <4> DEFINE e == [fs.entry[f] EXCEPT !.person = job[o].plan[f]]
                 j == [job[o] EXCEPT !.at = f, !.entry = e]
      <4>1. job' = [job EXCEPT ![o] = j]
        BY <1>2, <3>2, Zenon DEF SetPersonReads
      <4>2. fs.entry[f] \in FaceType
        BY <1>0, <3>2 DEF StoreType, Entered
      <4>3. e.item = fs.entry[f].item /\ e.look = fs.entry[f].look
        BY <4>2 DEF FaceType
      <4> HIDE DEF e
      <4>4. j.at = f /\ j.entry = e
        BY <2>1 DEF JobType
      <4> HIDE DEF j
      <4>5. job'[o] = j /\ \A r \in Owner \ {o} : job'[r] = job[r]
        BY <1>0, <4>1 DEF JobsShape
      <4> QED BY <2>1, <2>2, <3>2, <4>3, <4>4, <4>5 DEF Copied
    <3> QED BY <3>1, <3>2
  <2> QED BY <1>0, <2>1, <2>2, DerivedSame DEF Mild, Sane
<1>6. CASE SetPersonUnlinks(o)
  <2> DEFINE f == job[o].at
             j == [job[o] EXCEPT !.half = TRUE]
  <2>1. /\ job[o] # None /\ job[o] \in JobType /\ f # None /\ UNCHANGED <<worker, files>>
        /\ fs' = IF fs.entry[f] = None THEN fs ELSE Unlink(fs, f, fs.entry[f])
        /\ job' = [job EXCEPT ![o] = j] /\ Crossed(o)
    BY <1>6, <1>a DEF SetPersonUnlinks, Running
  <2>2. f \in Face
    BY <1>0, <2>1 DEF JobsSound, JobType
  <2>3. j.at = job[o].at /\ j.entry = job[o].entry
    BY <2>1 DEF JobType
  <2> HIDE DEF f, j
  <2>4. fs'.entry = fs.entry
    <3>1. CASE fs.entry[f] # None
      <4>1. fs.entry[f] \in FaceType
        BY <1>0, <2>2, <3>1 DEF StoreType, Entered
      <4> QED BY <1>0, <2>1, <2>2, <3>1, <4>1, UnlinkType
    <3> QED BY <2>1, <3>1
  <2>5. Copied => Copied'
    BY <1>b, <2>1, <2>3, <2>4
  <2>6. Sane' => Sane
    BY <2>1 DEF Crossed, Sane
  <2> QED BY <1>0, <2>1, <2>4, <2>5, <2>6, DerivedSame DEF Mild
<1>3. CASE SetPersonEnds(o)
  <2>1. /\ o \in Writing /\ job[o] \in JobType /\ UNCHANGED <<worker, files>>
        /\ fs' = Link(fs, job[o].at, job[o].entry)
        /\ (Sane' => Sane)
    BY <1>3, <1>a DEF SetPersonEnds, Crossed, Running, Writing, Sane
  <2> DEFINE f == job[o].at
             e == job[o].entry
             j == [job[o] EXCEPT !.todo = job[o].todo \ {job[o].at}, !.at = None,
                                 !.entry = None, !.half = FALSE]
  <2>2. job[o] # None /\ f # None /\ f \in Face /\ e \in FaceType
    BY <1>0, <2>1 DEF JobsSound, Writing, JobType
  <2>3. job' = [job EXCEPT ![o] = j] /\ j.at = None
    BY <1>3, <2>1 DEF SetPersonEnds, JobType
  <2>4. fs'.entry = [fs.entry EXCEPT ![f] = e]
    BY <1>0, <2>1, <2>2, LinkEntry
  <2> SUFFICES ASSUME Sane PROVE Derived(fs.entry, fs'.entry) /\ Copied'
    BY <2>1 DEF Mild
  <2>5. Copied
    BY <1>0
  <2>6. fs.entry[f] # None /\ e.item = fs.entry[f].item /\ e.look = fs.entry[f].look
    BY <2>2, <2>5 DEF Copied
  <2>7. fs.entry \in Entered
    BY <1>0 DEF StoreType
  <2> HIDE DEF f, e, j
  <2>8. Derived(fs.entry, fs'.entry)
    BY <2>2, <2>4, <2>6, <2>7, ToDerives
  <2>9. job'[o] = j /\ \A r \in Owner \ {o} : job'[r] = job[r]
    BY <1>0, <2>3 DEF JobsShape
  <2>10. \A g \in Face : fs.entry[g] # None =>
           fs'.entry[g] # None /\ fs'.entry[g].item = fs.entry[g].item
                               /\ fs'.entry[g].look = fs.entry[g].look
    BY <2>2, <2>4, <2>6, <2>7, NoneAssumption DEF Entered
  <2>11. \A r \in Owner : (job[r] # None /\ job[r].at # None) => job[r].at \in Face
    BY <1>0 DEF JobsShape, JobsSound, JobType
  <2> QED BY <2>3, <2>5, <2>8, <2>9, <2>10, <2>11 DEF Copied
<1>4. CASE Replace(o)
  <2> DEFINE j == [NoJob EXCEPT !.pc = "done", !.calm = job[o].calm]
  <2>1. job' = [job EXCEPT ![o] = j] /\ j.at = None /\ UNCHANGED <<fs, worker, files>>
        /\ (Sane' => Sane)
    BY <1>4 DEF Replace, NoJob, Spoilt, Sane
  <2> HIDE DEF j
  <2>2. Copied => Copied'
    BY <1>b, <2>1
  <2> QED BY <1>0, <2>1, <2>2, DerivedSame DEF Mild
<1>5. CASE ReclusterReturns(o)
  <2>1. fs' = fs /\ (worker' = worker \/ worker'.pc \notin {"read", "found", "assign"})
    BY <1>0, <1>5 DEF ReclusterReturns, WorkerType
  <2>2. files'.entries = files.entries \/ files'.entries = fs'.entry
    BY <1>5, SaveSomeEntries DEF ReclusterReturns, SaveState
  <2>3. health' = health \/ (health = "skewed" /\ health' = "good")
    BY <1>5 DEF ReclusterReturns
  <2>4. Copied => Copied'
    BY <1>b, <1>5, <2>1 DEF ReclusterReturns
  <2> QED BY <1>0, <2>1, <2>2, <2>3, <2>4, DerivedSame DEF Mild, Sane
<1> QED BY <1>1, <1>2, <1>3, <1>4, <1>5, <1>6 DEF JobStep

LEMMA CorrectedMild ==
  ASSUME FacesInv, SingleInv, Corrected, worker' = worker, Derived(fs.entry, fs'.entry)
  PROVE  Mild
<1>1. files'.entries = files.entries \/ files'.entries = fs'.entry
  BY SaveSomeEntries DEF Corrected, SaveState
<1>2. Sane' => Sane
  BY DEF Corrected, Disturb, Sane
<1>3. Sane' => Copied'
  <2>1. Kept(fs.entry, fs'.entry)
    BY DEF Derived, Kept
  <2> QED BY <1>2, <2>1, ShapeParts, CopiesDisturbed DEF FacesInv, SingleInv, Corrected
<1> QED BY <1>1, <1>2, <1>3 DEF Mild

LEMMA RequestMild == ASSUME FacesInv, SingleInv, Request PROVE Mild
<1>0. fs \in StoreType /\ JobsShape /\ JobsSound /\ (Sane => Copied)
  BY ShapeParts DEF FacesInv, SingleInv
<1>1. CASE Recluster
  <2>1. /\ StartJob("handler") /\ job["handler"] = None /\ "handler" \in Owner
        /\ UNCHANGED <<fs, worker, files, health>>
    BY <1>1 DEF Recluster, Owner
  <2>2. SameCopies
    BY <1>0, <2>1, StartJobKeeps
  <2> QED BY <1>0, <2>1, <2>2, CopiesSame, DerivedSame DEF Mild, Sane
<1>2. ASSUME NEW p \in Person, DeletePerson(p) PROVE Mild
  BY <1>0, <1>2, ForgetDerives, CorrectedMild DEF DeletePerson
<1>3. ASSUME NEW p \in Person, NEW q \in Person, Merge(p, q) PROVE Mild
  BY <1>0, <1>3, MoveDerives, CorrectedMild DEF Merge, Merged
<1>4. ASSUME NEW p \in Person, NEW n \in Name, NamePerson(p, n) PROVE Mild
  <2>1. Derived(fs.entry, fs'.entry)
    BY <1>0, <1>4, MoveDerives, DerivedSame DEF NamePerson, Merged
  <2> QED BY <1>4, <2>1, CorrectedMild DEF NamePerson
<1>5. ASSUME NEW f \in Face, Detach(f) PROVE Mild
  <2>1. Derived(fs.entry, fs'.entry)
    <3> DEFINE q == CHOOSE r \in FreshPeople : TRUE
    <3>1. q \in Person /\ fs.entry[f] # None
      BY <1>5 DEF Detach, FreshPeople
    <3>2. fs' = Put(fs, f, [fs.entry[f] EXCEPT !.person = q])
      BY <1>5 DEF Detach
    <3> HIDE DEF q
    <3> QED BY <1>0, <3>1, <3>2, PutDerives
  <2> QED BY <1>5, <2>1, CorrectedMild DEF Detach
<1>6. ASSUME NEW f \in Face, NEW q \in Person, Reassign(f, q) PROVE Mild
  <2>1. Derived(fs.entry, fs'.entry)
    BY <1>0, <1>6, PutDerives DEF Reassign
  <2> QED BY <1>6, <2>1, CorrectedMild DEF Reassign
<1>7. ASSUME NEW i \in Item, Purge(i) \/ \E t \in BOOLEAN : SetTrashed(i, t) PROVE Mild
  <2>1. UNCHANGED <<fs, worker, job, health>> /\ SaveSome({"index"})
    BY <1>7 DEF Purge, SetTrashed, SaveIndex
  <2> QED BY <1>0, <2>1, SaveSomeEntries, DerivedSame DEF Mild, Sane, Copied
<1> QED BY <1>1, <1>2, <1>3, <1>4, <1>5, <1>6, <1>7 DEF Request

(* Every step, sorted.                                                      *)
LEMMA StepMild ==
  ASSUME FacesInv, SingleInv, [FacesNext]_facesVars
  PROVE  Mild \/ Finds \/ \E bump \in BOOLEAN : Restart(bump)
<1>0. worker \in WorkerType /\ JobsShape /\ JobsSound /\ (Sane => Copied)
  BY ShapeParts DEF FacesInv, FacesShape, SingleInv
<1>1. ASSUME NEW o \in Owner, ReclusterRaises(o) PROVE Mild
  <2>1. UNCHANGED <<fs, files, health>>
        /\ (worker' = worker \/ worker'.pc \notin {"read", "found", "assign"})
    BY <1>0, <1>1 DEF ReclusterRaises, WorkerType
  <2>2. SameCopies
    <3>1. job[o] # None /\ job[o].pc = "clustering" /\ job' = [job EXCEPT ![o] = None]
      BY <1>1 DEF ReclusterRaises, Running
    <3>2. job[o].at = None
      BY <1>0, <3>1 DEF JobsSound
    <3> QED BY <1>0, <3>1, <3>2, JobChanges
  <2> QED BY <1>0, <2>1, <2>2, CopiesSame, DerivedSame DEF Mild, Sane
<1>2. ASSUME NEW i \in Item, Upload(i) PROVE Mild
  <2>1. UNCHANGED <<fs, worker, job, health>> /\ SaveSome({"index"})
    BY <1>2 DEF Upload, SaveIndex
  <2> QED BY <1>0, <2>1, SaveSomeEntries, DerivedSame DEF Mild, Sane, Copied
<1>3. CASE UNCHANGED facesVars
  BY <1>0, <1>3, DerivedSame DEF facesVars, Mild, Sane, Copied
<1> QED BY <1>1, <1>2, <1>3, WorkerMild, JobMild, RequestMild DEF FacesNext

LEMMA MildSingle == ASSUME SingleInv, Mild PROVE SingleInv'
<1> SUFFICES ASSUME Sane' PROVE SingleInv'
  BY DEF SingleInv
<1>1. /\ worker.pc \in {"read", "found"} =>
            \A f \in Stored(fs) : fs.entry[f].item # worker.item
      /\ NoTwins(fs.entry) /\ NoTwins(files.entries)
      /\ worker.pc \in {"found", "assign"} =>
            \A f \in Stored(fs) : fs.entry[f].item = worker.item =>
                                      fs.entry[f].look \notin worker.found
      /\ Derived(fs.entry, fs'.entry) /\ Copied'
  BY DEF SingleInv, Mild
<1>2. NoTwins(fs'.entry)
  BY <1>1, DerivedNoTwins
<1>3. /\ worker'.pc \in {"read", "found"} =>
            \A f \in Stored(fs') : fs'.entry[f].item # worker'.item
      /\ worker'.pc \in {"found", "assign"} =>
            \A f \in Stored(fs') : fs'.entry[f].item = worker'.item =>
                                       fs'.entry[f].look \notin worker'.found
  BY <1>1 DEF Mild, Derived, Stored
<1> QED BY <1>1, <1>2, <1>3 DEF SingleInv, Mild

(* The item's old faces are gone before its photo is looked at.             *)
LEMMA NextItemSingle ==
  ASSUME FacesInv, SingleInv, NEW i \in Item, NextItem(i) PROVE SingleInv'
<1>0. fs \in StoreType /\ JobsShape /\ JobsSound /\ IndexesSound /\ worker \in WorkerType
  BY ShapeParts DEF FacesInv, WorkerShape
<1>1. /\ Derived(fs.entry, fs'.entry) /\ files' = files
      /\ Sane' => Sane
  BY <1>0, ForgetDerives, DerivedSame DEF NextItem, Disturb, Sane
<1>2. Sane' => Copied'
  <2>1. Kept(fs.entry, fs'.entry)
    BY <1>1 DEF Derived, Kept
  <2>2. Disturb \/ UNCHANGED <<fs, job>>
    BY DEF NextItem
  <2> QED BY <1>0, <1>1, <2>1, <2>2, CopiesDisturbed DEF SingleInv, Copied
<1>3. CASE ~Live(i)
  <2>1. worker'.pc = "next"
    BY <1>0, <1>3 DEF NextItem, WorkerType
  <2> QED BY <1>1, <1>2, <2>1, MildSingle DEF Mild
<1>4. CASE Live(i)
  <2>1. worker'.pc = "read" /\ worker'.item = i
    BY <1>0, <1>4 DEF NextItem, WorkerType
  <2>2. ASSUME Sane' PROVE \A f \in Stored(fs') : fs'.entry[f].item # i
    <3>1. fs' = Forget(fs, Entries(fs, fs.byItem[i])) /\ Disturb
      BY <1>4 DEF NextItem, Live
    <3>2. fs = Loaded(fs.entry)
      BY <1>0, <2>2, <3>1, DisturbClean
    <3>3. fs.byItem[i] = {f \in Face : fs.entry[f] # None /\ fs.entry[f].item = i}
      BY <3>2 DEF Loaded
    <3> QED BY <3>1, <3>3 DEF Forget, Entries, Stored
  <2> QED BY <1>1, <1>2, <2>1, <2>2, DerivedNoTwins DEF SingleInv
<1> QED BY <1>3, <1>4

LEMMA DetectSingle == ASSUME FacesInv, SingleInv, Detect PROVE SingleInv'
<1>0. worker \in WorkerType
  BY ShapeParts DEF FacesInv, WorkerShape
<1>1. worker.pc = "read" /\ UNCHANGED <<fs, files, job, health>>
  BY DEF Detect
<1>2. worker'.pc = "found" /\ worker'.item = worker.item
  BY <1>0 DEF Detect, WorkerType
<1>3. ASSUME Sane' PROVE Sane /\ \A f \in Stored(fs) : fs.entry[f].item # worker.item
  BY <1>1, <1>3 DEF SingleInv, Sane
<1> QED BY <1>1, <1>2, <1>3 DEF SingleInv, Copied

(* What a found face adds: one entry, of a person known before or new.      *)
Placed(f, p, l) ==
    /\ f \in Face /\ p \in Person
    /\ fs.entry[f] = None
    /\ people[p] # None \/ (p \in FreshPeople /\ people[p] = None)
    /\ fs'.entry = [fs.entry EXCEPT ![f] = FaceEntry(worker.item, p, l)]
    /\ FaceEntry(worker.item, p, l) \in FaceType
    /\ people' = Recomputed(IF people[p] = None THEN [people EXCEPT ![p] = NewPerson]
                            ELSE people, p, fs')
    /\ worker' = [worker EXCEPT !.pc = "assign", !.found = @ \ {l}, !.pids = @ \cup {p}]

LEMMA FacePlaced ==
  ASSUME FacesInv, NEW l \in Look, AssignFace(l) PROVE \E f, p : Placed(f, p, l)
<1>0. fs \in StoreType /\ WorkerShape
  BY ShapeParts DEF FacesInv
<1> DEFINE f == CHOOSE g \in FreshFaces : TRUE
<1>1. f \in FreshFaces
  BY DEF AssignFace
<1>2. f \in Face /\ fs.entry[f] = None
  BY <1>1 DEF FreshFaces, Stored
<1>3. PICK p \in (IF Matching(l) # {} THEN Matching(l)
                 ELSE {q \in FreshPeople : q = CHOOSE r \in FreshPeople : TRUE}) :
         LET s    == Put(fs, f, FaceEntry(worker.item, p, l))
             base == IF people[p] = None THEN [people EXCEPT ![p] = NewPerson] ELSE people
         IN  /\ fs' = s
             /\ people' = Recomputed(base, p, s)
             /\ worker' = [worker EXCEPT !.pc = "assign", !.found = @ \ {l},
                                         !.pids = @ \cup {p}]
  BY DEF AssignFace
<1>4. p \in Person /\ (people[p] # None \/ (p \in FreshPeople /\ people[p] = None))
  BY <1>3 DEF Matching, Known, FreshPeople
<1> DEFINE e == FaceEntry(worker.item, p, l)
<1>5. e \in FaceType
  BY <1>0, <1>4 DEF FaceEntry, FaceType, WorkerShape, AssignFace
<1> HIDE DEF e, f
<1>6. fs' = Put(fs, f, e) /\ fs'.entry = [fs.entry EXCEPT ![f] = e]
  BY <1>0, <1>2, <1>3, <1>5, PutEntry DEF e
<1>7. people' = Recomputed(IF people[p] = None THEN [people EXCEPT ![p] = NewPerson]
                           ELSE people, p, fs')
      /\ worker' = [worker EXCEPT !.pc = "assign", !.found = @ \ {l}, !.pids = @ \cup {p}]
  BY <1>3, <1>6 DEF e
<1> QED BY <1>2, <1>4, <1>5, <1>6, <1>7 DEF Placed, e

LEMMA AssignSingle == ASSUME FacesInv, SingleInv, NEW l \in Look, AssignFace(l) PROVE SingleInv'
<1>0. fs.entry \in Entered /\ worker \in WorkerType /\ JobsShape /\ JobsSound
  BY ShapeParts DEF FacesInv, WorkerShape, StoreType
<1>1. PICK f, p : Placed(f, p, l)
  BY FacePlaced
<1>2. worker.pc \in {"found", "assign"} /\ l \in worker.found /\ files' = files
      /\ (Sane' => Sane) /\ Disturb
  BY DEF AssignFace, Disturb, Sane
<1> DEFINE e == FaceEntry(worker.item, p, l)
<1>3. e \in FaceType /\ e.item = worker.item /\ e.look = l
  BY <1>1 DEF Placed, FaceEntry
<1>4. e # None
  BY <1>3, NoneAssumption
<1> HIDE DEF e
<1>5. f \in Face /\ fs.entry[f] = None /\ fs'.entry = [fs.entry EXCEPT ![f] = e]
  BY <1>1 DEF Placed, e
<1>6. fs'.entry[f] = e /\ \A g \in Face \ {f} : fs'.entry[g] = fs.entry[g]
  BY <1>0, <1>5 DEF Entered
<1>7. worker'.pc = "assign" /\ worker'.found = worker.found \ {l} /\ worker'.item = worker.item
  BY <1>0, <1>1 DEF Placed, WorkerType
<1>8. ASSUME Sane'
      PROVE  /\ NoTwins(fs'.entry)
             /\ \A g \in Stored(fs') : fs'.entry[g].item = worker.item =>
                                              fs'.entry[g].look \notin worker'.found
  <2>1. NoTwins(fs.entry) /\ \A g \in Stored(fs) : fs.entry[g].item = worker.item =>
                                        fs.entry[g].look \notin worker.found
    BY <1>2, <1>8 DEF SingleInv
  <2>2. NoTwins(fs'.entry)
    BY <1>2, <1>3, <1>5, <1>6, <2>1 DEF NoTwins, In, Stored
  <2> QED BY <1>3, <1>6, <1>7, <2>1, <2>2 DEF Stored
<1>9. Sane' => Copied'
  <2>1. Kept(fs.entry, fs'.entry)
    BY <1>5, <1>6 DEF Kept
  <2> QED BY <1>0, <1>2, <2>1, CopiesDisturbed DEF SingleInv
<1> QED BY <1>2, <1>7, <1>8, <1>9 DEF SingleInv

LEMMA RestartSingle ==
  ASSUME FacesInv, SingleInv, NEW bump \in BOOLEAN, Restart(bump) PROVE SingleInv'
<1>1. fs'.entry = files.entries /\ files' = files /\ worker'.pc = "asleep"
      /\ (Sane' => Sane) /\ job' = [o \in Owner |-> None]
  BY DEF Restart, Loaded, Asleep, Sane
<1>2. Copied'
  BY <1>1 DEF Copied
<1>3. NoTwins(files.entries) => NoTwins(fs'.entry)
  BY <1>1
<1> QED BY <1>1, <1>2, <1>3 DEF SingleInv

LEMMA SingleKept == ASSUME FacesInv, SingleInv, [FacesNext]_facesVars PROVE SingleInv'
  BY StepMild, MildSingle, NextItemSingle, DetectSingle, AssignSingle, RestartSingle DEF Finds

LEMMA SingleInitially == FacesInit => SingleInv
  BY DEF FacesInit, EmptyStore, Asleep, SingleInv, Copied, NoTwins, In

(* No face is recorded twice: a photo that is looked at again has lost its  *)
(* old faces first, and what is found is stored once, through crashes and   *)
(* older files (faces/worker.py:105-120), unless an index was torn or a     *)
(* recluster wrote back a face dropped meanwhile.                           *)
THEOREM FacesNoDuplicates == FacesSpec => []NoDuplicateFaces
<1>1. FacesInv /\ SingleInv /\ [FacesNext]_facesVars => (FacesInv /\ SingleInv)'
  BY FacesKept, SingleKept
<1>2. SingleInv => NoDuplicateFaces
  BY DEF SingleInv, Sane, NoDuplicateFaces, NoTwins, In, Stored
<1> QED BY <1>1, <1>2, FacesInitially, SingleInitially, PTL DEF FacesSpec

-----------------------------------------------------------------------------
(* The people ps and the entries E: nobody's face is missing its person,    *)
(* no face is missing from its person's record, the records are exact.      *)
Owned(E, ps)  == \A f \in In(E) : ps[E[f].person] # None
Covers(E, ps) == \A p \in Person : ps[p] # None => FacesOf(p, E) \subseteq ps[p].made
Exact(E, ps)  == \A p \in Person : ps[p] # None => ps[p].made = FacesOf(p, E)

(* What a recluster has planned, for the entries it read and people ps.     *)
Planned(j, ps) ==
    \E fresh \in SUBSET Person : \E g \in Regroupings(j.old, fresh) :
        /\ fresh \cap InUse(j.old) = {}
        /\ j.plan = PlanOf(g, j.old) /\ j.next = NewPeople(g, ps)

(* How far it has come.                                                     *)
Reached(j) ==
    [f \in Face |-> IF f \in In(j.old) \ j.todo THEN [j.old[f] EXCEPT !.person = j.plan[f]]
                    ELSE j.old[f]]
Progress(j) ==
    /\ j.todo \subseteq In(j.old) /\ fs.entry = Reached(j)
    /\ j.at # None => j.entry = [j.old[j.at] EXCEPT !.person = j.plan[j.at]]
    /\ Planned(j, people)

(* A recluster nothing has disturbed.                                       *)
Calm(o) == job[o] # None /\ job[o].calm
CalmSound(o) ==
    /\ \A r \in Owner \ {o} : job[r] = None
    /\ worker.pc # "assign"
    /\ job[o].pc = "clustering" => fs.entry = job[o].old
    /\ job[o].pc = "applying" => Progress(job[o])
    /\ job[o].pc = "done" => Owned(fs.entry, people) /\ Exact(fs.entry, people)
CalmInv == \A o \in Owner : Calm(o) => CalmSound(o)

LEMMA ComponentsApart ==
  ASSUME NEW old, NEW B \in Components(old), NEW C \in Components(old), NEW f \in B, f \in C
  PROVE  B = C
<1>1. B \cap C \in SUBSET B /\ B \cap C \in SUBSET C /\ B \cap C # {}
  OBVIOUS
<1>2. Closed(B, old) /\ Closed(C, old)
  BY DEF Components
<1>3. Closed(B \cap C, old)
  BY <1>2 DEF Closed
<1> HIDE DEF Closed
<1>4. B \cap C = B /\ B \cap C = C
  BY <1>1, <1>3 DEF Components
<1> QED BY <1>4

(* Whom the plan gives a face to, and what the new people are.              *)
LEMMA PlanFacts ==
  ASSUME NEW old \in Entered, NEW fresh \in SUBSET Person, NEW g \in Regroupings(old, fresh)
  PROVE  /\ DOMAIN g = Components(old) /\ \A C \in DOMAIN g : g[C] \in Person
         /\ \A C \in DOMAIN g : C \subseteq In(old) /\ \A f \in C : PlanOf(g, old)[f] = g[C]
         /\ \A f \in In(old) : \E C \in DOMAIN g : f \in C
         /\ \A B, C \in DOMAIN g : g[B] = g[C] => B = C
<1>1. g \in [Components(old) -> InUse(old) \cup fresh]
      /\ \A B, C \in Components(old) : B # C => g[B] # g[C]
  BY DEF Regroupings
<1>2. InUse(old) \subseteq Person
  <2>1. \A e \in Present(old) : e \in FaceType
    BY DEF Present, Entered
  <2> QED BY <2>1 DEF InUse, FaceType
<1>3. ASSUME NEW C \in Components(old) PROVE C \subseteq In(old)
  BY DEF Components
<1>4. ASSUME NEW C \in Components(old), NEW f \in C PROVE PlanOf(g, old)[f] = g[C]
  <2>1. f \in In(old) /\ f \in Face
    BY <1>3 DEF In
  <2>2. (CHOOSE B \in DOMAIN g : f \in B) = C
    BY <1>1, ComponentsApart
  <2> QED BY <2>1, <2>2 DEF PlanOf
<1> QED BY <1>1, <1>2, <1>3, <1>4, FaceHasComponent

LEMMA NewPeopleFacts ==
  ASSUME NEW old \in Entered, NEW fresh \in SUBSET Person, NEW g \in Regroupings(old, fresh),
         NEW ps \in Folk
  PROVE  LET next == NewPeople(g, ps)
         IN  /\ \A C \in DOMAIN g : /\ next[g[C]] # None /\ next[g[C]].made = C
                                    /\ next[g[C]].name = IF ps[g[C]] = None THEN None
                                                         ELSE ps[g[C]].name
             /\ \A p \in Person : next[p] # None => \E C \in DOMAIN g : g[C] = p
<1> DEFINE next == NewPeople(g, ps)
<1>1. DOMAIN g = Components(old) /\ (\A C \in DOMAIN g : g[C] \in Person)
      /\ \A B, C \in DOMAIN g : g[B] = g[C] => B = C
  BY PlanFacts
<1>2. next \in Folk
  <2>1. DOMAIN g \subseteq SUBSET Face
    BY <1>1 DEF Components, In
  <2> QED BY <2>1, NewPeopleType
<1>3. ASSUME NEW C \in DOMAIN g
      PROVE  /\ next[g[C]] # None /\ next[g[C]].made = C
             /\ next[g[C]].name = IF ps[g[C]] = None THEN None ELSE ps[g[C]].name
  <2>1. (CHOOSE B \in DOMAIN g : g[B] = g[C]) = C
    BY <1>1
  <2>2. next[g[C]] = [name |-> IF ps[g[C]] = None THEN None ELSE ps[g[C]].name, made |-> C]
    BY <1>1, <2>1 DEF NewPeople
  <2>3. next[g[C]] \in PersonType
    <3>1. C \in SUBSET Face
      BY <1>1 DEF Components, In
    <3>2. (IF ps[g[C]] = None THEN None ELSE ps[g[C]].name) \in Name \cup {None}
      BY <1>1 DEF Folk, PersonType
    <3> QED BY <2>2, <3>1, <3>2 DEF PersonType
  <2> QED BY <2>2, <2>3, NoneAssumption
<1>4. \A p \in Person : next[p] # None => \E C \in DOMAIN g : g[C] = p
  BY DEF NewPeople
<1> QED BY <1>3, <1>4

(* Once every face is set, the new people's records are exact.              *)
LEMMA PlanExact ==
  ASSUME NEW j, j.old \in Entered, j.todo = {}, NEW ps \in Folk, Planned(j, ps)
  PROVE  Owned(Reached(j), j.next) /\ Exact(Reached(j), j.next)
<1> DEFINE old == j.old
           E == Reached(j)
<1>1. PICK fresh \in SUBSET Person : \E g \in Regroupings(old, fresh) :
        j.plan = PlanOf(g, old) /\ j.next = NewPeople(g, ps)
  BY DEF Planned
<1>2. PICK g \in Regroupings(old, fresh) : j.plan = PlanOf(g, old) /\ j.next = NewPeople(g, ps)
  BY <1>1
<1>3. /\ \A C \in DOMAIN g : C \subseteq In(old) /\ \A f \in C : j.plan[f] = g[C]
      /\ \A C \in DOMAIN g : g[C] \in Person
      /\ \A f \in In(old) : \E C \in DOMAIN g : f \in C
      /\ \A B, C \in DOMAIN g : g[B] = g[C] => B = C
  BY <1>2, PlanFacts
<1>4. /\ \A C \in DOMAIN g : j.next[g[C]] # None /\ j.next[g[C]].made = C
      /\ \A p \in Person : j.next[p] # None => \E C \in DOMAIN g : g[C] = p
  BY <1>2, NewPeopleFacts
<1>5. ASSUME NEW f \in In(old)
      PROVE  E[f] # None /\ \A C \in DOMAIN g : f \in C => E[f].person = g[C]
  <2>1. f \in Face /\ old[f] \in FaceType
    BY DEF In, Entered
  <2>2. E[f] = [old[f] EXCEPT !.person = j.plan[f]]
    BY <2>1 DEF Reached
  <2>3. PICK C \in DOMAIN g : f \in C
    BY <1>3
  <2>4. j.plan[f] \in Person
    BY <1>3, <2>3
  <2>5. E[f] \in FaceType /\ E[f].person = j.plan[f]
    BY <2>1, <2>2, <2>4, FaceTo
  <2> QED BY <1>3, <2>5, NoneAssumption
<1>6. In(E) = In(old)
  <2>1. \A f \in Face \ In(old) : E[f] = None
    BY DEF Reached, In
  <2> QED BY <1>5, <2>1 DEF In
<1> HIDE DEF E, old
<1>7. Owned(E, j.next)
  BY <1>3, <1>4, <1>5, <1>6 DEF Owned
<1>8. Exact(E, j.next)
  <2> SUFFICES ASSUME NEW C \in DOMAIN g PROVE C = FacesOf(g[C], E)
    BY <1>4 DEF Exact
  <2>1. \A f \in C : f \in FacesOf(g[C], E)
    BY <1>3, <1>5, <1>6 DEF FacesOf
  <2>2. ASSUME NEW f \in FacesOf(g[C], E) PROVE f \in C
    <3>1. f \in In(old) /\ E[f].person = g[C]
      BY <1>6 DEF FacesOf
    <3>2. PICK B \in DOMAIN g : f \in B
      BY <1>3, <3>1
    <3>3. g[B] = g[C]
      BY <1>5, <3>1, <3>2
    <3> QED BY <1>3, <3>2, <3>3
  <2> QED BY <2>1, <2>2
<1> QED BY <1>7, <1>8 DEF E

-----------------------------------------------------------------------------
LEMMA DisturbCalm == ASSUME JobsShape, Disturb PROVE \A o \in Owner : ~Calm(o)'
<1> SUFFICES ASSUME NEW o \in Owner, job[o] # None PROVE job'[o].calm = FALSE
  BY DEF Disturb, Calm
<1>1. job[o] \in JobType
  BY DEF JobsShape
<1>2. job'[o] = [job[o] EXCEPT !.calm = FALSE]
  BY DEF Disturb
<1> QED BY <1>1, <1>2 DEF JobType

LEMMA QuietCalm ==
  ASSUME CalmInv, UNCHANGED <<people, job>>, fs'.entry = fs.entry,
         worker' = worker \/ worker'.pc # "assign"
  PROVE  CalmInv'
  BY DEF CalmInv, Calm, CalmSound, Progress

LEMMA EndedCalm ==
  ASSUME JobsShape, CalmInv, UNCHANGED <<people, fs>>, NEW o \in Owner,
         job' = [job EXCEPT ![o] = None], worker' = worker \/ worker'.pc # "assign"
  PROVE  CalmInv'
<1>1. job'[o] = None /\ \A r \in Owner \ {o} : job'[r] = job[r]
  BY DEF JobsShape
<1> QED BY <1>1 DEF CalmInv, Calm, CalmSound, Progress

(* A recluster that has not read yet is not counted as undisturbed.         *)
LEMMA StartCalm ==
  ASSUME JobsShape, NEW o \in Owner, StartJob(o) PROVE \A r \in Owner : ~Calm(r)'
<1> DEFINE new == [NoJob EXCEPT !.pc = "called", !.calm = FALSE]
<1>1. job' = [r \in Owner |-> IF r = o THEN new ELSE IF job[r] = None THEN None
                              ELSE [job[r] EXCEPT !.calm = FALSE]]
  BY DEF StartJob
<1>2. ASSUME NEW r \in Owner \ {o} PROVE ~Calm(r)'
  <2>1. CASE job[r] = None
    BY <1>1, <2>1 DEF Calm
  <2>2. CASE job[r] # None
    <3>1. job[r] \in JobType /\ job'[r] = [job[r] EXCEPT !.calm = FALSE]
      BY <1>1, <2>2 DEF JobsShape
    <3> QED BY <3>1 DEF Calm, JobType
  <2> QED BY <2>1, <2>2
<1>3. ~Calm(o)'
  BY <1>1 DEF Calm, NoJob
<1> QED BY <1>2, <1>3

LEMMA WorkerCalm == ASSUME FacesInv, CalmInv, WorkerStep PROVE CalmInv'
<1>0. fs \in StoreType /\ worker \in WorkerType /\ JobsShape
  BY ShapeParts DEF FacesInv, WorkerShape
<1>1. CASE Wake \/ StartSweep \/ Detect \/ FinishItem
  <2>1. UNCHANGED <<people, job, fs>> /\ worker'.pc # "assign"
    BY <1>0, <1>1 DEF Wake, StartSweep, Detect, FinishItem, WorkerType
  <2> QED BY <2>1, QuietCalm
<1>2. CASE FinishSweeps
  <2>1. fs' = fs /\ worker'.pc # "assign"
    BY <1>0, <1>2 DEF FinishSweeps, WorkerType
  <2>2. CASE worker.dirty
    BY <1>0, <1>2, <2>2, StartCalm DEF FinishSweeps, Owner, CalmInv
  <2>3. CASE ~worker.dirty
    BY <1>2, <2>1, <2>3, QuietCalm DEF FinishSweeps
  <2> QED BY <2>2, <2>3
<1>3. CASE EndSweep
  <2>1. fs' = fs /\ worker'.pc # "assign" /\ (Disturb \/ UNCHANGED <<people, job>>)
    BY <1>0, <1>3 DEF EndSweep, WorkerType
  <2> QED BY <1>0, <2>1, QuietCalm, DisturbCalm DEF CalmInv
<1>4. ASSUME NEW i \in Item, NextItem(i) PROVE CalmInv'
  <2>1. CASE lib[i] = None
    <3>1. UNCHANGED <<people, job, fs>> /\ worker'.pc # "assign"
      BY <1>0, <1>4, <2>1 DEF NextItem, Live, WorkerType
    <3> QED BY <3>1, QuietCalm
  <2>2. CASE lib[i] # None
    BY <1>0, <1>4, <2>2, DisturbCalm DEF NextItem, CalmInv
  <2> QED BY <2>1, <2>2
<1>5. ASSUME NEW l \in Look, AssignFace(l) PROVE CalmInv'
  BY <1>0, <1>5, DisturbCalm DEF AssignFace, CalmInv
<1> QED BY <1>1, <1>2, <1>3, <1>4, <1>5 DEF WorkerStep

LEMMA RequestCalm == ASSUME FacesInv, CalmInv, Request PROVE CalmInv'
<1>0. JobsShape
  BY ShapeParts DEF FacesInv
<1>1. CASE Recluster
  BY <1>0, <1>1, StartCalm DEF Recluster, Owner, CalmInv
<1>2. CASE Corrected
  BY <1>0, <1>2, DisturbCalm DEF Corrected, CalmInv
<1>3. ASSUME NEW i \in Item, Purge(i) \/ \E t \in BOOLEAN : SetTrashed(i, t) PROVE CalmInv'
  BY <1>3, QuietCalm DEF Purge, SetTrashed
<1> QED BY <1>1, <1>2, <1>3 DEF Request, DeletePerson, Merge, NamePerson, Detach, Reassign

(* A step of a recluster concerns no other that is undisturbed.             *)
LEMMA OwnCalm ==
  ASSUME JobsShape, CalmInv, NEW o \in Owner, job[o] # None, NEW j \in JobType,
         job' = [job EXCEPT ![o] = j], j.calm => job[o].calm,
         (Calm(o) /\ CalmSound(o)) => CalmSound(o)'
  PROVE  CalmInv'
<1>1. job'[o] = j /\ \A r \in Owner \ {o} : job'[r] = job[r]
  BY DEF JobsShape
<1>2. ASSUME NEW r \in Owner \ {o} PROVE ~Calm(r)'
  BY <1>1 DEF CalmInv, Calm, CalmSound
<1>3. Calm(o)' => Calm(o)
  BY <1>1 DEF Calm
<1> QED BY <1>2, <1>3 DEF CalmInv

(* The job of a recluster that has made its plan.                           *)
RegroupTo(o, g, j) ==
    /\ g \in Regroupings(job[o].old, FreshPeople)
    /\ j \in JobType /\ job' = [job EXCEPT ![o] = j] /\ job'[o] = j
    /\ j.pc = "applying" /\ j.todo = In(job[o].old) /\ j.next = NewPeople(g, people)
    /\ j.plan = PlanOf(g, job[o].old) /\ j.old = job[o].old
    /\ j.calm = job[o].calm /\ j.at = job[o].at

LEMMA RegroupJob ==
  ASSUME FacesShape, NEW o \in Owner, Regroup(o)
  PROVE  /\ job[o] \in JobType /\ job[o].old \in Entered /\ job[o] # None
         /\ \E g, j : RegroupTo(o, g, j)
<1>0. people \in Folk /\ JobsShape
  BY ShapeParts
<1>1. job[o] # None /\ job[o] \in JobType /\ job[o].old \in Entered
  BY <1>0 DEF Regroup, Running, JobsShape, JobType, Entered
<1>2. PICK g \in Regroupings(job[o].old, FreshPeople) :
        job' = [job EXCEPT ![o] =
          [@ EXCEPT !.pc = "applying", !.todo = In(job[o].old), !.next = NewPeople(g, people),
             !.plan = PlanOf(g, job[o].old)]]
  BY DEF Regroup
<1> DEFINE old == job[o].old
           next == NewPeople(g, people)
           plan == PlanOf(g, old)
           j == [job[o] EXCEPT !.pc = "applying", !.todo = In(old), !.next = next, !.plan = plan]
<1>3. j.pc = "applying" /\ j.todo = In(old) /\ j.next = next /\ j.plan = plan
      /\ j.old = old /\ j.calm = job[o].calm /\ j.at = job[o].at
  BY <1>1 DEF JobType
<1>4. job' = [job EXCEPT ![o] = j]
  BY <1>2
<1> HIDE DEF j
<1>5. job'[o] = j
  BY <1>0, <1>4 DEF JobsShape
<1>6. FreshPeople \in SUBSET Person
  BY DEF FreshPeople
<1>7. plan \in [Face -> Person \cup {None}]
  <2>1. \A f \in In(old) : plan[f] \in Person
    BY <1>1, <1>6, PlanFacts
  <2> QED BY <2>1 DEF PlanOf
<1>8. next \in Folk
  <2>1. DOMAIN g \subseteq SUBSET Face
    BY DEF Regroupings, Components, In
  <2> QED BY <1>0, <2>1, NewPeopleType
<1>9. In(old) \in SUBSET Face
  BY DEF In
<1>10. j \in JobType
  <2> HIDE DEF plan, next, old
  <2> QED BY <1>1, <1>7, <1>8, <1>9 DEF j, JobType, Folk
<1>11. RegroupTo(o, g, j)
  BY <1>3, <1>4, <1>5, <1>10 DEF RegroupTo
<1> QED BY <1>1, <1>11

LEMMA JobCalm == ASSUME FacesInv, CalmInv, NEW o \in Owner, JobStep(o) PROVE CalmInv'
<1> USE DEF FacesInv
<1>0. fs \in StoreType /\ fs.entry \in Entered /\ people \in Folk /\ JobsShape /\ worker \in WorkerType
  BY ShapeParts DEF WorkerShape, StoreType
<1>a. FacesInv'
  BY JobStepKeeps
<1>b. JobsShape'
  BY <1>a, ShapePartsNext
<1>c. ASSUME job[o] # None
      PROVE  /\ job[o] \in JobType /\ job[o].old \in Entered /\ job[o].todo \in SUBSET Face
             /\ job[o].plan \in [Face -> Person \cup {None}]
  BY <1>0, <1>c DEF JobsShape, JobType, Entered
<1>6. CASE ReadFaces(o)
  <2> DEFINE calm == worker.pc # "assign" /\ \A r \in Owner \ {o} : job[r] = None
             j == [job[o] EXCEPT !.pc = "clustering", !.old = fs.entry, !.calm = calm]
  <2>1. /\ job[o] # None /\ job[o] \in JobType /\ job' = [job EXCEPT ![o] = j]
        /\ UNCHANGED <<fs, people, worker>>
    BY <1>6, <1>c DEF ReadFaces, Running
  <2>2. calm \in BOOLEAN
    OBVIOUS
  <2> HIDE DEF calm
  <2>3. j.pc = "clustering" /\ j.old = fs.entry /\ j.calm = calm
    BY <2>1 DEF JobType
  <2> HIDE DEF j
  <2>4. job'[o] = j /\ \A r \in Owner \ {o} : job'[r] = job[r]
    BY <1>0, <2>1 DEF JobsShape
  <2>5. ASSUME NEW r \in Owner \ {o} PROVE ~Calm(r)'
    BY <2>1, <2>4 DEF CalmInv, Calm, CalmSound
  <2>6. Calm(o)' => CalmSound(o)'
    BY <2>1, <2>3, <2>4 DEF calm, Calm, CalmSound
  <2> QED BY <2>5, <2>6 DEF CalmInv
<1>1. CASE Regroup(o)
  <2>1. /\ job[o] # None /\ job[o].pc = "clustering" /\ UNCHANGED <<fs, people, worker>>
    BY <1>1 DEF Regroup, Running
  <2>2. PICK g, j : RegroupTo(o, g, j)
    BY <1>1, RegroupJob
  <2> DEFINE old == job[o].old
  <2>3. j.pc = "applying" /\ j.todo = In(old) /\ j.next = NewPeople(g, people)
        /\ j.plan = PlanOf(g, old) /\ j.old = old /\ j.calm = job[o].calm /\ j.at = job[o].at
        /\ g \in Regroupings(old, FreshPeople)
    BY <2>2 DEF RegroupTo
  <2>4. job' = [job EXCEPT ![o] = j]
    BY <2>2 DEF RegroupTo
  <2>5. job'[o] = j /\ j \in JobType
    BY <2>2 DEF RegroupTo
  <2>6. job[o].at = None
    BY <2>1, <1>c DEF JobsSound
  <2>7. ASSUME Calm(o), CalmSound(o) PROVE CalmSound(o)'
    <3>1. fs.entry = old /\ \A r \in Owner \ {o} : job'[r] = None
      BY <1>0, <2>1, <2>4, <2>7 DEF CalmSound, JobsShape
    <3>2. Reached(j) = old
      <4>1. old \in Entered
        BY <1>c, <2>1
      <4> QED BY <2>3, <4>1 DEF Reached, Entered
    <3>3. Planned(j, people)
      <4>1. FreshPeople \in SUBSET Person /\ FreshPeople \cap InUse(old) = {}
        <5>1. job[o] \in Jobs
          BY <1>0, <2>1 DEF Jobs, Present, JobsShape
        <5> DEFINE Used(k) == InUse(k.old) \cup {p \in Person : k.next[p] # None}
        <5>2. Used(job[o]) \in {Used(k) : k \in Jobs} /\ InUse(old) \subseteq Used(job[o])
          BY <5>1
        <5>3. FreshPeople \subseteq Person \ UNION {Used(k) : k \in Jobs}
          BY DEF FreshPeople
        <5> HIDE DEF Used, old
        <5> QED BY <5>2, <5>3
      <4> QED BY <2>3, <4>1 DEF Planned
    <3>4. Progress(job[o])'
      BY <2>1, <2>3, <2>5, <2>6, <3>1, <3>2, <3>3 DEF Progress
    <3> QED BY <2>1, <2>3, <2>5, <2>7, <3>1, <3>4 DEF CalmSound
  <2> QED BY <1>0, <2>1, <2>3, <2>4, <2>5, <2>7, OwnCalm
<1>2. ASSUME NEW f \in Face, SetPersonReads(o, f) PROVE CalmInv'
  <2>1. /\ job[o] # None /\ job[o].at = None /\ f \in job[o].todo /\ job[o].pc = "applying"
        /\ UNCHANGED <<fs, people, worker>>
    BY <1>2 DEF SetPersonReads, Running, JobsSound
  <2> DEFINE e == [fs.entry[f] EXCEPT !.person = job[o].plan[f]]
             j == IF fs.entry[f] = None THEN [job[o] EXCEPT !.todo = @ \ {f}]
                  ELSE [job[o] EXCEPT !.at = f, !.entry = e]
  <2>2. job' = [job EXCEPT ![o] = j]
    BY <1>2 DEF SetPersonReads
  <2>3. /\ j.pc = "applying" /\ j.old = job[o].old /\ j.plan = job[o].plan /\ j.next = job[o].next
        /\ j.calm = job[o].calm
        /\ fs.entry[f] # None => j.todo = job[o].todo /\ j.at = f /\ j.entry = e
    BY <1>c, <2>1 DEF JobType
  <2> HIDE DEF j, e
  <2>4. fs'.entry = fs.entry
    BY <2>1
  <2>5. job'[o] = j /\ j \in JobType
    <3>1. job'[o] = j
      BY <1>0, <2>2 DEF JobsShape
    <3>2. fs.entry[f] # None => e \in FaceType
      <4>1. job[o].plan[f] \in Person
        BY <2>1 DEF JobsSound
      <4> QED BY <1>0, <4>1, FaceTo DEF Entered, e
    <3> QED BY <1>c, <2>1, <3>1, <3>2 DEF j, JobType
  <2>6. ASSUME Calm(o), CalmSound(o) PROVE CalmSound(o)'
    <3>1. /\ Progress(job[o]) /\ \A r \in Owner \ {o} : job'[r] = None
      BY <1>0, <2>1, <2>2, <2>6 DEF CalmSound, JobsShape
    <3>2. f \in In(job[o].old) /\ fs.entry[f] = job[o].old[f]
      BY <2>1, <3>1 DEF Progress, Reached, In
    <3>3. fs.entry[f] # None
      BY <3>2 DEF In
    <3>4. Reached(j) = Reached(job[o]) /\ Planned(j, people)
      BY <2>3, <3>1, <3>3 DEF Reached, Progress, Planned
    <3>5. Progress(job[o])'
      BY <2>1, <2>3, <2>4, <2>5, <3>1, <3>2, <3>3, <3>4 DEF Progress, e
    <3> QED BY <2>1, <2>3, <2>5, <2>6, <3>1, <3>5 DEF CalmSound
  <2> QED BY <1>0, <2>1, <2>2, <2>3, <2>5, <2>6, OwnCalm
<1>7. CASE SetPersonUnlinks(o)
  <2> DEFINE f == job[o].at
             j == [job[o] EXCEPT !.half = TRUE]
  <2>1. /\ job[o] # None /\ f # None /\ UNCHANGED <<people, worker>>
        /\ fs' = IF fs.entry[f] = None THEN fs ELSE Unlink(fs, f, fs.entry[f])
        /\ job' = [job EXCEPT ![o] = j]
    BY <1>7 DEF SetPersonUnlinks, Running
  <2>2. /\ j.pc = job[o].pc /\ j.old = job[o].old /\ j.plan = job[o].plan /\ j.next = job[o].next
        /\ j.calm = job[o].calm /\ j.todo = job[o].todo /\ j.at = f /\ j.entry = job[o].entry
        /\ j \in JobType
    BY <1>c, <2>1 DEF JobType
  <2>3. f \in Face /\ job[o].pc = "applying"
    BY <1>c, <2>1 DEF JobsSound
  <2> HIDE DEF f, j
  <2>4. fs'.entry = fs.entry
    <3>1. CASE fs.entry[f] # None
      BY <1>0, <2>1, <2>3, <3>1, UnlinkType DEF Entered
    <3> QED BY <2>1, <3>1
  <2>5. job'[o] = j /\ \A r \in Owner \ {o} : job'[r] = job[r]
    BY <1>0, <2>1 DEF JobsShape
  <2>6. ASSUME Calm(o), CalmSound(o) PROVE CalmSound(o)'
    <3>1. Progress(job[o]) /\ \A r \in Owner \ {o} : job'[r] = None
      BY <2>3, <2>5, <2>6 DEF CalmSound
    <3>2. Reached(j) = Reached(job[o]) /\ Planned(j, people)
      BY <2>2, <3>1 DEF Reached, Progress, Planned
    <3>3. Progress(job[o])'
      BY <2>1, <2>2, <2>4, <2>5, <3>1, <3>2 DEF Progress, f
    <3> QED BY <2>1, <2>2, <2>3, <2>5, <2>6, <3>1, <3>3 DEF CalmSound
  <2> QED BY <1>0, <2>1, <2>2, <2>6, OwnCalm
<1>3. CASE SetPersonEnds(o)
  <2>1. /\ job[o] # None /\ job[o].at # None /\ UNCHANGED <<people, worker>>
        /\ fs' = Link(fs, job[o].at, job[o].entry)
    BY <1>3 DEF SetPersonEnds, Running, JobsSound
  <2> DEFINE f == job[o].at
             e == job[o].entry
             j == [job[o] EXCEPT !.todo = job[o].todo \ {job[o].at}, !.at = None,
                                 !.entry = None, !.half = FALSE]
  <2>2. f \in Face /\ e \in FaceType /\ f \in job[o].todo /\ job[o].pc = "applying"
    BY <1>c, <2>1 DEF JobsSound
  <2>3. job' = [job EXCEPT ![o] = j]
    BY <1>3 DEF SetPersonEnds
  <2>4. /\ j.pc = "applying" /\ j.old = job[o].old /\ j.plan = job[o].plan /\ j.next = job[o].next
        /\ j.calm = job[o].calm /\ j.todo = job[o].todo \ {f} /\ j.at = None /\ j \in JobType
    BY <1>c, <2>1, <2>2 DEF JobType
  <2> HIDE DEF j, f, e
  <2>5. fs'.entry = [fs.entry EXCEPT ![f] = e]
    BY <1>0, <2>1, <2>2, LinkEntry DEF f, e
  <2>6. job'[o] = j
    BY <1>0, <2>3 DEF JobsShape
  <2>7. ASSUME Calm(o), CalmSound(o) PROVE CalmSound(o)'
    <3>1. /\ Progress(job[o]) /\ \A r \in Owner \ {o} : job'[r] = None
      BY <1>0, <2>1, <2>2, <2>3, <2>7 DEF CalmSound, JobsShape
    <3>2. /\ e = [job[o].old[f] EXCEPT !.person = job[o].plan[f]] /\ f \in In(job[o].old)
          /\ fs.entry = Reached(job[o]) /\ job[o].todo \subseteq In(job[o].old)
      BY <2>1, <2>2, <3>1 DEF Progress, e, f
    <3>3. fs'.entry = Reached(j)
      <4>1. \A h \in Face : fs'.entry[h] = Reached(j)[h]
        BY <1>0, <2>2, <2>4, <2>5, <3>2 DEF Reached, Entered
      <4>2. fs'.entry = [h \in Face |-> fs'.entry[h]]
        BY <1>0, <2>5 DEF Entered
      <4>3. Reached(j) = [h \in Face |-> Reached(j)[h]]
        BY DEF Reached
      <4> QED BY <4>1, <4>2, <4>3
    <3>4. Planned(j, people)
      BY <2>4, <3>1 DEF Progress, Planned
    <3>5. Progress(job[o])'
      BY <2>1, <2>4, <2>6, <3>2, <3>3, <3>4 DEF Progress
    <3> QED BY <2>1, <2>4, <2>6, <2>7, <3>1, <3>5 DEF CalmSound
  <2> QED BY <1>0, <2>1, <2>3, <2>4, <2>7, OwnCalm
<1>4. CASE Replace(o)
  <2>1. /\ job[o] # None /\ job[o].pc = "applying" /\ job[o].todo = {}
        /\ people' = job[o].next /\ UNCHANGED <<fs, worker>>
    BY <1>4 DEF Replace, Running
  <2> DEFINE j == [NoJob EXCEPT !.pc = "done", !.calm = job[o].calm]
  <2>2. job' = [job EXCEPT ![o] = j]
    BY <1>4 DEF Replace
  <2>3. j.pc = "done" /\ j.calm = job[o].calm
    BY DEF NoJob
  <2>4. j \in JobType
    <3>1. [p \in Person |-> None] \in Folk /\ [f \in Face |-> None] \in Entered
          /\ [f \in Face |-> None] \in [Face -> Person \cup {None}]
      BY DEF Folk, Entered
    <3> QED BY <1>c, <2>1, <3>1 DEF NoJob, JobType, Folk, Entered
  <2> HIDE DEF j
  <2>5. job'[o] = j
    BY <1>0, <2>2 DEF JobsShape
  <2>6. ASSUME Calm(o), CalmSound(o) PROVE CalmSound(o)'
    <3>1. /\ Progress(job[o]) /\ \A r \in Owner \ {o} : job'[r] = None
      BY <1>0, <2>1, <2>2, <2>6 DEF CalmSound, JobsShape
    <3>2. fs.entry = Reached(job[o]) /\ Planned(job[o], people)
      BY <3>1 DEF Progress
    <3>3. Owned(Reached(job[o]), job[o].next) /\ Exact(Reached(job[o]), job[o].next)
      BY <1>0, <1>c, <2>1, <3>2, PlanExact
    <3> QED BY <2>1, <2>3, <2>5, <2>6, <3>1, <3>2, <3>3 DEF CalmSound
  <2> QED BY <1>0, <2>1, <2>2, <2>3, <2>4, <2>6, OwnCalm
<1>5. CASE ReclusterReturns(o)
  <2>1. job' = [job EXCEPT ![o] = None] /\ UNCHANGED <<fs, people>>
        /\ (worker' = worker \/ worker'.pc # "assign")
    BY <1>0, <1>5 DEF ReclusterReturns, WorkerType
  <2> QED BY <1>0, <2>1, EndedCalm
<1> QED BY <1>1, <1>2, <1>3, <1>4, <1>5, <1>6, <1>7 DEF JobStep

LEMMA CalmKept == ASSUME FacesInv, CalmInv, [FacesNext]_facesVars PROVE CalmInv'
<1>0. JobsShape /\ worker \in WorkerType
  BY ShapeParts DEF FacesInv, WorkerShape
<1>1. ASSUME NEW o \in Owner, ReclusterRaises(o) PROVE CalmInv'
  <2>1. job' = [job EXCEPT ![o] = None] /\ UNCHANGED <<fs, people>>
        /\ (worker' = worker \/ worker'.pc # "assign")
    BY <1>0, <1>1 DEF ReclusterRaises, WorkerType
  <2> QED BY <1>0, <2>1, EndedCalm
<1>2. ASSUME NEW i \in Item, Upload(i) PROVE CalmInv'
  BY <1>2, QuietCalm DEF Upload
<1>3. ASSUME NEW bump \in BOOLEAN, Restart(bump) PROVE CalmInv'
  BY <1>3 DEF Restart, CalmInv, Calm
<1>4. CASE UNCHANGED facesVars
  BY <1>4, QuietCalm DEF facesVars
<1> QED BY <1>1, <1>2, <1>3, <1>4, WorkerCalm, JobCalm, RequestCalm DEF FacesNext

LEMMA CalmInitially == FacesInit => CalmInv
  BY DEF FacesInit, CalmInv, Calm

-----------------------------------------------------------------------------
(* What an operation makes of entries and people whose records agree.       *)
RecordsStay(E, ps, D, qs) ==
    /\ Owned(D, qs) /\ Covers(D, qs)
    /\ Exact(E, ps) => Exact(D, qs)

LEMMA LoadedFaces ==
  ASSUME NEW E, NEW p \in Person
  PROVE  Entries(Loaded(E), Loaded(E).byPerson[p]) = FacesOf(p, E)
  BY DEF Entries, Loaded, FacesOf, In

LEMMA LoadedItems ==
  ASSUME NEW E, NEW i \in Item
  PROVE  Entries(Loaded(E), Loaded(E).byItem[i]) = {f \in In(E) : E[f].item = i}
  BY DEF Entries, Loaded, In

LEMMA RecomputedIs ==
  ASSUME NEW ps \in Folk, NEW p \in Person, NEW E \in Entered
  PROVE  LET qs == Recomputed(ps, p, Loaded(E))
         IN  /\ qs \in Folk
             /\ \A q \in Person : /\ qs[q] = None <=> ps[q] = None
                                  /\ (q = p /\ qs[q] # None) => qs[q].made = FacesOf(p, E)
                                  /\ q # p => qs[q] = ps[q]
<1> DEFINE M == FacesOf(p, E)
           qs == Recomputed(ps, p, Loaded(E))
<1>1. qs = IF ps[p] = None THEN ps ELSE [ps EXCEPT ![p].made = M]
  BY LoadedFaces DEF Recomputed
<1>2. qs \in Folk
  BY LoadedType, RecomputedType
<1>3. CASE ps[p] = None
  BY <1>1, <1>2, <1>3
<1>4. CASE ps[p] # None
  <2>1. ps[p] \in PersonType
    BY <1>4 DEF Folk
  <2> DEFINE r == [ps[p] EXCEPT !.made = M]
  <2>2. r.made = M
    BY <2>1 DEF PersonType
  <2>3. r \in PersonType
    <3>1. M \in SUBSET Face
      BY DEF FacesOf, In
    <3> QED BY <2>1, <3>1 DEF PersonType
  <2> HIDE DEF r, M
  <2>4. qs = [ps EXCEPT ![p] = r]
    BY <1>1, <1>4 DEF r
  <2>5. qs[p] = r /\ \A q \in Person \ {p} : qs[q] = ps[q]
    BY <2>4 DEF Folk
  <2>6. r # None
    BY <2>3, NoneAssumption
  <2> HIDE DEF qs
  <2>7. \A q \in Person : /\ qs[q] = None <=> ps[q] = None
                          /\ (q = p /\ qs[q] # None) => qs[q].made = M
                          /\ q # p => qs[q] = ps[q]
    BY <1>4, <2>2, <2>5, <2>6
  <2> QED BY <1>2, <2>7 DEF M, qs
<1> QED BY <1>3, <1>4

LEMMA PrunedRecords ==
  ASSUME NEW E, NEW ps, NEW D, NEW qs, RecordsStay(E, ps, D, qs),
         \A f \in In(D) : D[f].person \in Person
  PROVE  RecordsStay(E, ps, D, Pruned(qs))
<1>1. \A p \in Person : /\ Pruned(qs)[p] # None => qs[p] # None /\ Pruned(qs)[p] = qs[p]
                        /\ (qs[p] # None /\ qs[p].made # {}) => Pruned(qs)[p] # None
  BY DEF Pruned
<1>2. Owned(D, Pruned(qs))
  <2> SUFFICES ASSUME NEW f \in In(D) PROVE Pruned(qs)[D[f].person] # None
    BY DEF Owned
  <2>1. qs[D[f].person] # None /\ f \in FacesOf(D[f].person, D)
    BY DEF RecordsStay, Owned, FacesOf
  <2> QED BY <1>1, <2>1 DEF RecordsStay, Covers
<1>3. Covers(D, Pruned(qs))
  BY <1>1 DEF RecordsStay, Covers
<1>4. Exact(E, ps) => Exact(D, Pruned(qs))
  BY <1>1 DEF RecordsStay, Exact
<1> QED BY <1>2, <1>3, <1>4 DEF RecordsStay

LEMMA KeepRecords ==
  ASSUME NEW E, NEW ps, NEW D, NEW qs, Covers(E, ps), Owned(D, qs),
         \A p \in Person : qs[p] # None =>
            \/ qs[p].made = FacesOf(p, D)
            \/ ps[p] # None /\ qs[p].made = ps[p].made /\ FacesOf(p, D) = FacesOf(p, E)
  PROVE  RecordsStay(E, ps, D, qs)
<1>1. Covers(D, qs)
  BY DEF Covers
<1>2. Exact(E, ps) => Exact(D, qs)
  BY DEF Exact
<1> QED BY <1>1, <1>2 DEF RecordsStay

LEMMA EnteredPeople ==
  ASSUME NEW E \in Entered
  PROVE  \A f \in In(E) : E[f] \in FaceType /\ E[f].person \in Person /\ E[f].item \in Item
  BY DEF In, Entered, FaceType

(* A person goes, with its faces. *)
LEMMA DeleteRecords ==
  ASSUME NEW E \in Entered, NEW ps \in Folk, Owned(E, ps), Covers(E, ps), NEW p \in Person,
         NEW D, D = Forget(Loaded(E), FacesOf(p, E)).entry
  PROVE  RecordsStay(E, ps, D, [ps EXCEPT ![p] = None])
<1> DEFINE qs == [ps EXCEPT ![p] = None]
<1>1. D = [f \in Face |-> IF f \in FacesOf(p, E) THEN None ELSE E[f]]
  BY DEF Forget, Loaded
<1>2. \A f \in Face : D[f] # None => E[f] # None /\ D[f] = E[f] /\ E[f].person # p
  BY <1>1 DEF FacesOf, In
<1>3. \A f \in Face : (E[f] # None /\ E[f].person # p) => D[f] = E[f]
  BY <1>1 DEF FacesOf
<1>4. \A q \in Person \ {p} : FacesOf(q, D) = FacesOf(q, E) /\ qs[q] = ps[q]
  BY <1>2, <1>3 DEF FacesOf, In, Folk
<1>5. qs[p] = None
  BY DEF Folk
<1>6. Owned(D, qs)
  BY <1>2, <1>4, EnteredPeople DEF Owned, In
<1> HIDE DEF qs
<1> QED BY <1>4, <1>5, <1>6, KeepRecords DEF qs

(* The faces of q go to p, and q goes. *)
LEMMA MergeRecords ==
  ASSUME NEW E \in Entered, NEW ps \in Folk, Owned(E, ps), Covers(E, ps),
         NEW p \in Person, NEW q \in Person, p # q, ps[p] # None,
         NEW D \in Entered, D = MoveAll(Loaded(E), q, p).entry
  PROVE  RecordsStay(E, ps, D, Recomputed([ps EXCEPT ![q] = None], p, Loaded(D)))
<1> DEFINE rs == [ps EXCEPT ![q] = None]
           qs == Recomputed(rs, p, Loaded(D))
<1>1. D = [f \in Face |-> IF f \in FacesOf(q, E) THEN [E[f] EXCEPT !.person = p] ELSE E[f]]
  <2>1. Loaded(E).entry = E
    BY DEF Loaded
  <2> QED BY <2>1, LoadedFaces DEF MoveAll
<1>2. \A f \in In(E) : D[f] # None /\ D[f].person = IF E[f].person = q THEN p ELSE E[f].person
  <2> SUFFICES ASSUME NEW f \in In(E)
               PROVE  D[f] # None /\ D[f].person = IF E[f].person = q THEN p ELSE E[f].person
    OBVIOUS
  <2>1. E[f] \in FaceType /\ f \in Face
    BY EnteredPeople DEF In
  <2>2. CASE E[f].person = q
    <3>1. D[f] = [E[f] EXCEPT !.person = p]
      BY <1>1, <2>1, <2>2 DEF FacesOf
    <3> QED BY <2>1, <2>2, <3>1, FaceTo, NoneAssumption
  <2>3. CASE E[f].person # q
    BY <1>1, <2>1, <2>3 DEF FacesOf, In
  <2> QED BY <2>2, <2>3
<1>3. In(D) = In(E)
  BY <1>1, <1>2 DEF In, FacesOf
<1>4. rs \in Folk /\ rs[q] = None /\ \A r \in Person \ {q} : rs[r] = ps[r]
  BY DEF Folk
<1> HIDE DEF rs
<1>5. \A r \in Person : /\ qs[r] = None <=> rs[r] = None
                        /\ (r = p /\ qs[r] # None) => qs[r].made = FacesOf(p, D)
                        /\ r # p => qs[r] = rs[r]
  BY <1>4, RecomputedIs
<1> HIDE DEF qs
<1>6. \A r \in Person \ {p, q} : FacesOf(r, D) = FacesOf(r, E)
  BY <1>2, <1>3 DEF FacesOf
<1>7. Owned(D, qs)
  <2> SUFFICES ASSUME NEW f \in In(D) PROVE qs[D[f].person] # None
    BY DEF Owned
  <2>1. ps[E[f].person] # None /\ E[f].person \in Person
    BY <1>3, EnteredPeople DEF Owned
  <2> QED BY <1>2, <1>3, <1>4, <1>5, <2>1
<1> QED BY <1>4, <1>5, <1>6, <1>7, KeepRecords DEF qs, rs

(* Face f goes to q, and both sides are counted anew. *)
LEMMA MoveRecords ==
  ASSUME NEW E \in Entered, NEW ps \in Folk, Owned(E, ps), Covers(E, ps),
         NEW f \in In(E), NEW q \in Person, NEW base \in Folk, base[q] # None,
         \A r \in Person \ {q} : base[r] = ps[r],
         NEW D \in Entered, D = [E EXCEPT ![f] = [E[f] EXCEPT !.person = q]]
  PROVE  RecordsStay(E, ps, D,
            Pruned(Recomputed(Recomputed(base, E[f].person, Loaded(D)), q, Loaded(D))))
<1> DEFINE p == E[f].person
           rs == Recomputed(base, p, Loaded(D))
           qs == Recomputed(rs, q, Loaded(D))
<1>1. p \in Person /\ E[f] \in FaceType /\ f \in Face
  BY EnteredPeople DEF In
<1>2. D[f] # None /\ D[f].person = q /\ \A g \in Face \ {f} : D[g] = E[g]
  <2>1. D[f] = [E[f] EXCEPT !.person = q] /\ \A g \in Face \ {f} : D[g] = E[g]
    BY <1>1 DEF Entered
  <2> QED BY <1>1, <2>1, FaceTo, NoneAssumption
<1>3. /\ rs \in Folk
      /\ \A r \in Person : /\ rs[r] = None <=> base[r] = None
                           /\ (r = p /\ rs[r] # None) => rs[r].made = FacesOf(p, D)
                           /\ r # p => rs[r] = base[r]
  BY <1>1, RecomputedIs
<1> HIDE DEF rs
<1>4. \A r \in Person : /\ qs[r] = None <=> rs[r] = None
                        /\ (r = q /\ qs[r] # None) => qs[r].made = FacesOf(q, D)
                        /\ r # q => qs[r] = rs[r]
  BY <1>3, RecomputedIs
<1> HIDE DEF qs
<1>5. \A r \in Person \ {p, q} : FacesOf(r, D) = FacesOf(r, E)
  BY <1>1, <1>2 DEF FacesOf, In
<1>6. Owned(D, qs)
  <2> SUFFICES ASSUME NEW g \in In(D) PROVE qs[D[g].person] # None
    BY DEF Owned
  <2>1. CASE g = f
    BY <1>2, <1>3, <1>4, <2>1
  <2>2. CASE g # f
    <3>1. g \in In(E) /\ D[g] = E[g]
      BY <1>2, <2>2 DEF In
    <3>2. E[g].person \in Person /\ ps[E[g].person] # None
      BY <3>1, EnteredPeople DEF Owned
    <3> QED BY <1>3, <1>4, <3>1, <3>2
  <2> QED BY <2>1, <2>2
<1>7. RecordsStay(E, ps, D, qs)
  <2> HIDE DEF p
  <2> QED BY <1>3, <1>4, <1>5, <1>6, KeepRecords
<1>8. \A g \in In(D) : D[g].person \in Person
  BY EnteredPeople
<1> QED BY <1>7, <1>8, PrunedRecords DEF qs, rs

(* A new face joins a person, or founds one. *)
LEMMA FoundRecords ==
  ASSUME NEW E \in Entered, NEW ps \in Folk, Owned(E, ps), Covers(E, ps),
         NEW f \in Face, E[f] = None, NEW e \in FaceType, NEW base \in Folk,
         base[e.person] # None, \A r \in Person \ {e.person} : base[r] = ps[r],
         NEW D \in Entered, D = [E EXCEPT ![f] = e]
  PROVE  RecordsStay(E, ps, D, Recomputed(base, e.person, Loaded(D)))
<1> DEFINE p == e.person
           qs == Recomputed(base, p, Loaded(D))
<1>1. p \in Person /\ D[f] = e /\ e # None /\ \A g \in Face \ {f} : D[g] = E[g]
  BY NoneAssumption DEF FaceType, Entered
<1>2. \A r \in Person : /\ qs[r] = None <=> base[r] = None
                        /\ (r = p /\ qs[r] # None) => qs[r].made = FacesOf(p, D)
                        /\ r # p => qs[r] = base[r]
  BY <1>1, RecomputedIs
<1> HIDE DEF qs
<1>3. \A r \in Person \ {p} : FacesOf(r, D) = FacesOf(r, E)
  BY <1>1 DEF FacesOf, In
<1>4. Owned(D, qs)
  <2> SUFFICES ASSUME NEW g \in In(D) PROVE qs[D[g].person] # None
    BY DEF Owned
  <2>1. CASE g = f
    BY <1>1, <1>2, <2>1
  <2>2. CASE g # f
    <3>1. g \in In(E) /\ D[g] = E[g]
      BY <1>1, <2>2 DEF In
    <3>2. E[g].person \in Person /\ ps[E[g].person] # None
      BY <3>1, EnteredPeople DEF Owned
    <3> QED BY <1>2, <3>1, <3>2
  <2> QED BY <2>1, <2>2
<1>5. \A r \in Person : qs[r] # None =>
            \/ qs[r].made = FacesOf(r, D)
            \/ ps[r] # None /\ qs[r].made = ps[r].made /\ FacesOf(r, D) = FacesOf(r, E)
  BY <1>2, <1>3
<1>6. RecordsStay(E, ps, D, qs)
  BY <1>4, <1>5, KeepRecords
<1> QED BY <1>6 DEF qs

(* Every record is counted anew. *)
LEMMA AllRecords ==
  ASSUME NEW E \in Entered, NEW ps \in Folk, Owned(E, ps)
  PROVE  /\ Owned(E, AllRecomputed(ps, Loaded(E))) /\ Covers(E, AllRecomputed(ps, Loaded(E)))
         /\ Exact(E, AllRecomputed(ps, Loaded(E)))
<1> DEFINE qs == [p \in Person |-> IF ps[p] = None THEN None
                                   ELSE [ps[p] EXCEPT !.made = FacesOf(p, E)]]
<1>1. AllRecomputed(ps, Loaded(E)) = Pruned(qs)
  <2>1. qs = [p \in Person |-> IF ps[p] = None THEN None
               ELSE [ps[p] EXCEPT !.made = Entries(Loaded(E), Loaded(E).byPerson[p])]]
    BY LoadedFaces
  <2> QED BY <2>1 DEF AllRecomputed
<1>2. \A p \in Person : /\ ps[p] = None => qs[p] = None
                        /\ ps[p] # None => qs[p] # None /\ qs[p].made = FacesOf(p, E)
  <2> SUFFICES ASSUME NEW p \in Person, ps[p] # None
               PROVE  qs[p] # None /\ qs[p].made = FacesOf(p, E)
    OBVIOUS
  <2>1. ps[p] \in PersonType /\ FacesOf(p, E) \in SUBSET Face
    BY DEF Folk, FacesOf, In
  <2>2. qs[p] = [ps[p] EXCEPT !.made = FacesOf(p, E)]
    OBVIOUS
  <2>3. qs[p] \in PersonType /\ qs[p].made = FacesOf(p, E)
    BY <2>1, <2>2 DEF PersonType
  <2> QED BY <2>3, NoneAssumption
<1> HIDE DEF qs
<1>3. Owned(E, qs) /\ Exact(E, qs) /\ Covers(E, qs)
  BY <1>2, EnteredPeople DEF Owned, Exact, Covers
<1>4. RecordsStay(E, qs, E, Pruned(qs))
  BY <1>3, PrunedRecords, EnteredPeople DEF RecordsStay
<1> QED BY <1>1, <1>3, <1>4 DEF RecordsStay

-----------------------------------------------------------------------------
Items == [Item -> ItemType \cup {None}]
LibShape ==
    /\ lib \in Items /\ files.lib \in Items
    /\ worker.pc \notin {"read", "found", "assign"} => worker.item = None
    /\ worker.pc = "found" => worker.pids = {}

(* All is as it should be, and no recluster is writing.                     *)
Applying == {o \in Owner : job[o] # None /\ job[o].pc = "applying"}
GoodNow  == health = "good" /\ Applying = {}
MidSweep == worker.pc \in {"read", "found", "assign"} \/ (worker.pc = "next" /\ worker.changed)
GoodInv ==
    GoodNow =>
        /\ Owned(fs.entry, people) /\ Covers(fs.entry, people)
        /\ MidSweep \/ Exact(fs.entry, people)
        /\ worker.pc \in {"found", "assign"} => worker.pids = PersonsIn(fs, worker.item)

-----------------------------------------------------------------------------
LEMMA LibNotNone == ASSUME NEW i \in Item, lib \in Items, lib[i] # None PROVE lib[i] \in ItemType
  BY DEF Items

LEMMA ItemKinds ==
  ASSUME NEW x \in ItemType, NEW t \in BOOLEAN, NEW d \in BOOLEAN, NEW p \in SUBSET Person
  PROVE  /\ [x EXCEPT !.trashed = t] \in ItemType /\ [x EXCEPT !.pids = p] \in ItemType
         /\ [x EXCEPT !.done = d] \in ItemType
         /\ [x EXCEPT !.done = d, !.pids = p] \in ItemType
         /\ [x EXCEPT !.trashed = t].pids = x.pids /\ [x EXCEPT !.pids = p].pids = p
         /\ [x EXCEPT !.done = d, !.pids = p].pids = p
  BY DEF ItemType

LEMMA PersonsInType ==
  ASSUME NEW s \in StoreType, NEW i PROVE PersonsIn(s, i) \in SUBSET Person
  BY DEF PersonsIn, Stored, StoreType, Entered, FaceType

LEMMA SyncedIs ==
  ASSUME NEW its \in Items, NEW s \in StoreType
  PROVE  /\ Synced(its, s) \in Items
         /\ \A i \in Item : Synced(its, s)[i] # None =>
                              its[i] # None /\ Synced(its, s)[i].pids = PersonsIn(s, i)
<1>1. ASSUME NEW i \in Item, its[i] # None
      PROVE  [its[i] EXCEPT !.pids = PersonsIn(s, i)] \in ItemType
             /\ [its[i] EXCEPT !.pids = PersonsIn(s, i)].pids = PersonsIn(s, i)
  <2>1. its[i] \in ItemType /\ PersonsIn(s, i) \in SUBSET Person
    BY <1>1, PersonsInType DEF Items
  <2> QED BY <2>1, ItemKinds
<1>2. \A i \in Item : Synced(its, s)[i] = IF its[i] = None THEN None
                                          ELSE [its[i] EXCEPT !.pids = PersonsIn(s, i)]
  BY DEF Synced
<1>3. Synced(its, s) = [i \in Item |-> Synced(its, s)[i]]
  BY DEF Synced
<1> QED BY <1>1, <1>2, <1>3 DEF Items

WorkerLib ==
    /\ worker.pc \notin {"read", "found", "assign"} => worker.item = None
    /\ worker.pc = "found" => worker.pids = {}

LEMMA SaveLib ==
  ASSUME lib' \in Items, files.lib \in Items, NEW which, SaveSome(which) PROVE files'.lib \in Items
  BY SaveSomeEntries

LEMMA ItemTo ==
  ASSUME lib \in Items, NEW i \in Item, NEW x \in ItemType \cup {None}, lib' = [lib EXCEPT ![i] = x]
  PROVE  lib' \in Items /\ lib'[i] = x /\ \A k \in Item \ {i} : lib'[k] = lib[k]
  BY DEF Items

LEMMA LibKept == ASSUME FacesInv, LibShape, [FacesNext]_facesVars PROVE LibShape'
<1> USE DEF FacesInv
<1>0. fs \in StoreType /\ worker \in WorkerType /\ lib \in Items /\ files.lib \in Items /\ WorkerLib
      /\ fs' \in StoreType /\ worker' \in WorkerType
  <2>1. FacesInv'
    BY FacesKept
  <2> QED BY <2>1 DEF LibShape, WorkerLib, FacesShape
<1> SUFFICES lib' \in Items /\ files'.lib \in Items /\ WorkerLib'
  BY DEF LibShape, WorkerLib
<1>1. CASE Wake \/ StartSweep \/ FinishSweeps \/ Detect
  <2>1. UNCHANGED <<lib, files>>
    BY <1>1 DEF Wake, StartSweep, FinishSweeps, Detect
  <2>2. WorkerLib'
    BY <1>0, <1>1 DEF Wake, StartSweep, FinishSweeps, Detect, WorkerLib, WorkerType
  <2> QED BY <1>0, <2>1, <2>2
<1>2. CASE FinishItem
  <2>1. worker.item \in Item /\ worker.pids \in SUBSET Person /\ files' = files
    BY <1>2 DEF FinishItem, FacesShape, WorkerType
  <2> DEFINE x == [lib[worker.item] EXCEPT !.done = TRUE, !.pids = worker.pids]
  <2>2. lib' = lib \/ (lib[worker.item] # None /\ lib' = [lib EXCEPT ![worker.item] = x])
    BY <1>2 DEF FinishItem
  <2>3. lib[worker.item] # None => x \in ItemType
    BY <1>0, <2>1, LibNotNone, ItemKinds
  <2> HIDE DEF x
  <2>4. lib' \in Items
    BY <1>0, <2>1, <2>2, <2>3, ItemTo
  <2>5. WorkerLib'
    BY <1>0, <1>2 DEF FinishItem, WorkerLib, WorkerType
  <2> QED BY <1>0, <2>1, <2>4, <2>5
<1>3. CASE EndSweep
  <2>1. lib' = lib /\ WorkerLib'
    BY <1>0, <1>3 DEF EndSweep, WorkerLib, WorkerType
  <2> QED BY <1>0, <1>3, <2>1, SaveLib DEF EndSweep, SaveState
<1>4. ASSUME NEW i \in Item, NextItem(i) PROVE lib' \in Items /\ files'.lib \in Items /\ WorkerLib'
  <2> DEFINE x == [lib[i] EXCEPT !.done = TRUE, !.pids = {}]
  <2>1. files' = files /\ (lib' = lib \/ (lib[i] # None /\ lib' = [lib EXCEPT ![i] = x]))
    BY <1>4 DEF NextItem
  <2>2. lib[i] # None => x \in ItemType
    BY <1>0, LibNotNone, ItemKinds
  <2> HIDE DEF x
  <2>3. lib' \in Items
    BY <1>0, <2>1, <2>2, ItemTo
  <2>4. WorkerLib'
    BY <1>0, <1>4 DEF NextItem, WorkerLib, WorkerType
  <2> QED BY <1>0, <2>1, <2>3, <2>4
<1>5. ASSUME NEW l \in Look, AssignFace(l) PROVE lib' \in Items /\ files'.lib \in Items /\ WorkerLib'
  <2>1. UNCHANGED <<lib, files>>
    BY <1>5 DEF AssignFace
  <2>2. PICK f, p : Placed(f, p, l)
    BY <1>5, FacePlaced
  <2>3. worker'.pc = "assign"
    BY <1>0, <2>2 DEF Placed, WorkerType
  <2> QED BY <1>0, <2>1, <2>3 DEF WorkerLib
<1>6. ASSUME NEW o \in Owner, ReclusterRaises(o) \/ ReadFaces(o) \/ Regroup(o)
                               \/ SetPersonUnlinks(o) \/ SetPersonEnds(o) \/ Replace(o)
                               \/ \E f \in Face : SetPersonReads(o, f)
      PROVE  lib' \in Items /\ files'.lib \in Items /\ WorkerLib'
  <2>1. UNCHANGED <<lib, files>> /\ (worker' = worker \/ (worker.pc = "recluster" /\
              worker' = [worker EXCEPT !.pc = "asleep"]))
    BY <1>6 DEF ReclusterRaises, ReadFaces, Regroup, SetPersonUnlinks, SetPersonEnds, Replace,
                SetPersonReads, WorkerWaits, Running
  <2> QED BY <1>0, <2>1 DEF WorkerLib, WorkerType
<1>7. ASSUME NEW o \in Owner, ReclusterReturns(o)
      PROVE  lib' \in Items /\ files'.lib \in Items /\ WorkerLib'
  <2>1. lib' = Synced(lib, fs) /\ SaveState
    BY <1>7 DEF ReclusterReturns
  <2>2. lib' \in Items
    BY <1>0, <2>1, SyncedIs
  <2>3. worker' = worker \/ (worker.pc = "recluster" /\
              worker' = [worker EXCEPT !.pc = "asleep", !.dirty = FALSE])
    BY <1>7 DEF ReclusterReturns, WorkerWaits
  <2>4. WorkerLib'
    BY <1>0, <2>3 DEF WorkerLib, WorkerType
  <2> QED BY <1>0, <2>1, <2>2, <2>4, SaveLib DEF SaveState
<1>8. CASE Corrected /\ worker' = worker
  <2>1. lib' = Synced(lib, fs') /\ SaveState
    BY <1>8 DEF Corrected
  <2>2. lib' \in Items
    BY <1>0, <2>1, SyncedIs
  <2> QED BY <1>0, <1>8, <2>1, <2>2, SaveLib DEF SaveState, WorkerLib
<1>9. CASE Recluster
  BY <1>0, <1>9 DEF Recluster, WorkerLib
<1>10. ASSUME NEW i \in Item, NEW t \in BOOLEAN, Purge(i) \/ Upload(i) \/ SetTrashed(i, t)
       PROVE  lib' \in Items /\ files'.lib \in Items /\ WorkerLib'
  <2>1. worker' = worker /\ SaveSome({"index"})
    BY <1>10 DEF Purge, Upload, SetTrashed, SaveIndex
  <2>2. lib' \in Items
    <3>1. CASE Purge(i)
      BY <1>0, <3>1, ItemTo DEF Purge
    <3>2. CASE Upload(i)
      <4>1. NewItem \in ItemType
        BY DEF NewItem, ItemType
      <4> QED BY <1>0, <3>2, <4>1, ItemTo DEF Upload
    <3>3. CASE SetTrashed(i, t)
      <4> DEFINE x == [lib[i] EXCEPT !.trashed = t]
      <4>1. x \in ItemType
        BY <1>0, <3>3, LibNotNone, ItemKinds DEF SetTrashed
      <4>2. lib' = [lib EXCEPT ![i] = x]
        BY <3>3 DEF SetTrashed
      <4> HIDE DEF x
      <4> QED BY <1>0, <4>1, <4>2, ItemTo
    <3> QED BY <1>10, <3>1, <3>2, <3>3
  <2> QED BY <1>0, <2>1, <2>2, SaveLib DEF WorkerLib
<1>11. ASSUME NEW bump \in BOOLEAN, Restart(bump)
       PROVE  lib' \in Items /\ files'.lib \in Items /\ WorkerLib'
  <2>1. /\ files' = files /\ worker' = Asleep
        /\ lib' = [i \in Item |-> IF files.lib[i] = None \/ ~bump THEN files.lib[i]
                                  ELSE [files.lib[i] EXCEPT !.done = FALSE]]
    BY <1>11 DEF Restart
  <2>2. ASSUME NEW i \in Item, files.lib[i] # None
        PROVE  [files.lib[i] EXCEPT !.done = FALSE] \in ItemType
    <3>1. files.lib[i] \in ItemType
      BY <1>0, <2>2 DEF Items
    <3> QED BY <3>1, ItemKinds
  <2>3. lib' \in Items
    BY <1>0, <2>1, <2>2 DEF Items
  <2> QED BY <1>0, <2>1, <2>3 DEF WorkerLib, Asleep
<1>12. CASE UNCHANGED facesVars
  BY <1>0, <1>12 DEF facesVars, WorkerLib
<1>13. CASE WorkerStep
  BY <1>1, <1>2, <1>3, <1>4, <1>5, <1>13 DEF WorkerStep
<1>14. CASE \E o \in Owner : JobStep(o) \/ ReclusterRaises(o)
  BY <1>6, <1>7, <1>14 DEF JobStep
<1>15. CASE Request
  BY <1>8, <1>9, <1>10, <1>15 DEF Request, DeletePerson, Merge, NamePerson, Detach, Reassign
<1> QED BY <1>10, <1>11, <1>12, <1>13, <1>14, <1>15 DEF FacesNext

LEMMA LibInitially == FacesInit => LibShape
  BY DEF FacesInit, LibShape, Items, Asleep

-----------------------------------------------------------------------------
LEMMA GoodLoaded == ASSUME FacesInv, GoodNow PROVE fs = Loaded(fs.entry)
<1>1. Writing \subseteq Applying
  BY DEF FacesInv, JobsSound, Writing, Applying
<1> QED BY <1>1 DEF GoodNow, FacesInv, IndexesSound

LEMMA GoodLoadedNext == ASSUME FacesInv', GoodNow' PROVE fs' = Loaded(fs'.entry)
<1>1. Writing' \subseteq Applying'
  BY DEF FacesInv, JobsSound, Writing, Applying
<1> QED BY <1>1 DEF GoodNow, FacesInv, IndexesSound

LEMMA DisturbApplying == ASSUME JobsShape, Disturb PROVE Applying' = Applying
<1>1. ASSUME NEW o \in Owner, job[o] # None PROVE job'[o] # None /\ job'[o].pc = job[o].pc
  <2>1. job[o] \in JobType
    BY <1>1 DEF JobsShape
  <2>2. job'[o] = [job[o] EXCEPT !.calm = FALSE]
    BY <1>1 DEF Disturb
  <2>3. job'[o] \in JobType /\ job'[o].pc = job[o].pc
    BY <2>1, <2>2 DEF JobType
  <2> QED BY <2>3, NoneAssumption
<1>2. ASSUME NEW o \in Owner, job[o] = None PROVE job'[o] = None
  BY <1>2 DEF Disturb
<1> QED BY <1>1, <1>2 DEF Applying

(* One recluster's change to itself.                                        *)
LEMMA OwnApplying ==
  ASSUME JobsShape, NEW o \in Owner, NEW j, job' = [job EXCEPT ![o] = j],
         o \in Applying => j # None /\ j.pc = "applying"
  PROVE  Applying \subseteq Applying'
<1>1. job'[o] = j /\ \A r \in Owner \ {o} : job'[r] = job[r]
  BY DEF JobsShape
<1> QED BY <1>1 DEF Applying

LEMMA StartApplying ==
  ASSUME JobsShape, NEW o \in Owner, job[o] = None, StartJob(o) PROVE Applying \subseteq Applying'
<1>1. ASSUME NEW r \in Applying PROVE r \in Applying'
  <2>1. r # o /\ r \in Owner /\ job[r] # None /\ job[r].pc = "applying" /\ job[r] \in JobType
    BY DEF Applying, JobsShape
  <2>2. job'[r] = [job[r] EXCEPT !.calm = FALSE]
    BY <2>1 DEF StartJob
  <2>3. job'[r] \in JobType /\ job'[r].pc = "applying"
    BY <2>1, <2>2 DEF JobType
  <2> QED BY <2>1, <2>3, NoneAssumption DEF Applying
<1> QED BY <1>1

(* Only a recluster that ends makes things good that were not.              *)
Ends(o) == Replace(o) \/ (ReclusterReturns(o) /\ health = "skewed")

(* A face's write leaves the recluster applying its plan.                   *)
LEMMA SetPersonJob ==
  ASSUME FacesInv, NEW o \in Owner,
         SetPersonUnlinks(o) \/ SetPersonEnds(o) \/ \E f \in Face : SetPersonReads(o, f)
  PROVE  \E j \in JobType : job' = [job EXCEPT ![o] = j] /\ j.pc = "applying"
<1> USE DEF FacesInv
<1>1. /\ job[o] \in JobType /\ job[o].pc = "applying" /\ fs.entry \in Entered
  BY DEF SetPersonUnlinks, SetPersonEnds, SetPersonReads, Running, JobsSound, FacesShape, StoreType
<1>2. CASE SetPersonEnds(o)
  <2> DEFINE j == [job[o] EXCEPT !.todo = job[o].todo \ {job[o].at}, !.at = None,
                                 !.entry = None, !.half = FALSE]
  <2>1. job' = [job EXCEPT ![o] = j] /\ j \in JobType /\ j.pc = "applying"
    BY <1>1, <1>2 DEF SetPersonEnds, JobType
  <2> QED BY <2>1
<1>4. CASE SetPersonUnlinks(o)
  <2> DEFINE j == [job[o] EXCEPT !.half = TRUE]
  <2>1. job' = [job EXCEPT ![o] = j] /\ j \in JobType /\ j.pc = "applying"
    BY <1>1, <1>4 DEF SetPersonUnlinks, JobType
  <2> QED BY <2>1
<1>3. ASSUME NEW f \in Face, SetPersonReads(o, f)
      PROVE  \E j \in JobType : job' = [job EXCEPT ![o] = j] /\ j.pc = "applying"
  <2>1. CASE fs.entry[f] = None
    <3> DEFINE j == [job[o] EXCEPT !.todo = @ \ {f}]
    <3>1. job' = [job EXCEPT ![o] = j] /\ j \in JobType /\ j.pc = "applying"
      BY <1>1, <1>3, <2>1 DEF SetPersonReads, JobType
    <3> QED BY <3>1
  <2>2. CASE fs.entry[f] # None
    <3> DEFINE e == [fs.entry[f] EXCEPT !.person = job[o].plan[f]]
               j == [job[o] EXCEPT !.at = f, !.entry = e]
    <3>1. fs.entry[f] \in FaceType /\ job[o].plan[f] \in Person
      BY <1>1, <1>3, <2>2 DEF Entered, JobsSound, SetPersonReads, Running
    <3>2. e \in FaceType
      BY <3>1, FaceTo
    <3>3. job' = [job EXCEPT ![o] = j]
      BY <1>3, <2>2 DEF SetPersonReads
    <3> HIDE DEF e
    <3>4. j \in JobType /\ j.pc = "applying"
      BY <1>1, <3>2 DEF JobType
    <3> QED BY <3>3, <3>4
  <2> QED BY <2>1, <2>2
<1> QED BY <1>2, <1>3, <1>4

LEMMA GoodBefore ==
  ASSUME FacesInv, [FacesNext]_facesVars, GoodNow'
  PROVE  GoodNow \/ \E o \in Owner : Calm(o) /\ Ends(o) /\ health # "torn"
<1> USE DEF FacesInv
<1>0. JobsShape
  BY ShapeParts
<1> DEFINE Goal == GoodNow \/ \E o \in Owner : Calm(o) /\ Ends(o) /\ health # "torn"
<1>a. ASSUME Applying \subseteq Applying', health' = "good" => health = "good" PROVE GoodNow
  BY <1>a DEF GoodNow
<1>b. ASSUME Disturb PROVE GoodNow
  <2>1. Applying' = Applying /\ (health' = health \/ health' \in {"torn", "revived"})
    BY <1>0, <1>b, DisturbApplying DEF Disturb
  <2> QED BY <2>1 DEF GoodNow
<1>c. ASSUME job' = job, health' = health PROVE GoodNow
  BY <1>c DEF GoodNow, Applying
<1>1. CASE WorkerStep
  <2>1. CASE FinishSweeps /\ worker.dirty
    <3>1. StartJob("worker") /\ job["worker"] = None /\ health' = health /\ "worker" \in Owner
      BY <2>1 DEF FinishSweeps, WorkerWaits, Owner
    <3> QED BY <1>0, <1>a, <3>1, StartApplying
  <2>2. CASE ~(FinishSweeps /\ worker.dirty)
    <3>1. Disturb \/ (job' = job /\ health' = health)
      BY <1>1, <2>2 DEF WorkerStep, Wake, StartSweep, FinishSweeps, Detect, FinishItem, EndSweep,
                        NextItem, AssignFace
    <3> QED BY <1>b, <1>c, <3>1
  <2> QED BY <2>1, <2>2
<1>2. ASSUME NEW o \in Owner, ReclusterRaises(o) \/ JobStep(o) PROVE Goal
  <2>0. job[o] # None => job[o] \in JobType
    BY <1>0 DEF JobsShape
  <2>1. CASE ReadFaces(o) \/ Regroup(o)
    <3>1. o \notin Applying /\ health' = health
      BY <2>1 DEF ReadFaces, Regroup, Applying
    <3>2. PICK j : job' = [job EXCEPT ![o] = j]
      BY <2>1 DEF ReadFaces, Regroup
    <3> QED BY <1>0, <1>a, <3>1, <3>2, OwnApplying
  <2>2. CASE ReclusterRaises(o)
    <3>1. o \notin Applying /\ health' = health /\ job' = [job EXCEPT ![o] = None]
      BY <2>2 DEF ReclusterRaises, Applying
    <3> QED BY <1>0, <1>a, <3>1, OwnApplying
  <2>3. CASE SetPersonUnlinks(o) \/ SetPersonEnds(o) \/ \E f \in Face : SetPersonReads(o, f)
    <3>1. /\ job[o] # None /\ job[o].pc = "applying" /\ (health' = health \/ health' = "torn")
      BY <2>3 DEF SetPersonUnlinks, SetPersonEnds, SetPersonReads, Crossed, Running, JobsSound
    <3>2. PICK j \in JobType : job' = [job EXCEPT ![o] = j] /\ j.pc = "applying"
      BY <2>3, SetPersonJob
    <3>3. j # None
      BY NoneAssumption
    <3> QED BY <1>0, <1>a, <3>1, <3>2, <3>3, OwnApplying
  <2>4. CASE Replace(o)
    <3>1. o \in Applying /\ job[o] # None /\ job[o].calm \in BOOLEAN
          /\ health' = IF job[o].calm THEN health ELSE Spoilt
      BY <2>0, <2>4 DEF Replace, Running, Applying, JobType
    <3>2. job[o].calm /\ health' = health
      BY <3>1 DEF GoodNow, Spoilt
    <3> QED BY <2>4, <3>1, <3>2 DEF Calm, Ends, GoodNow
  <2>5. CASE ReclusterReturns(o)
    <3>1. o \notin Applying /\ job[o] # None /\ job' = [job EXCEPT ![o] = None]
          /\ health' = IF job[o].calm /\ health = "skewed" THEN "good" ELSE health
      BY <2>5 DEF ReclusterReturns, Applying
    <3>2. Applying \subseteq Applying'
      BY <1>0, <3>1, OwnApplying
    <3>3. CASE health = "good"
      BY <3>2, <3>3 DEF GoodNow
    <3>4. CASE health # "good"
      <4>1. job[o].calm /\ health = "skewed"
        BY <3>1, <3>4 DEF GoodNow
      <4> QED BY <2>5, <3>1, <4>1 DEF Calm, Ends
    <3> QED BY <3>3, <3>4
  <2> QED BY <1>2, <2>1, <2>2, <2>3, <2>4, <2>5 DEF JobStep
<1>3. CASE Request
  <2>1. CASE Recluster
    <3>1. StartJob("handler") /\ job["handler"] = None /\ health' = health /\ "handler" \in Owner
      BY <2>1 DEF Recluster, Owner
    <3> QED BY <1>0, <1>a, <3>1, StartApplying
  <2>2. CASE ~Recluster
    BY <1>3, <1>b, <1>c, <2>2 DEF Request, DeletePerson, Merge, NamePerson, Detach, Reassign, Purge,
                                  SetTrashed, Corrected
  <2> QED BY <2>1, <2>2
<1>4. ASSUME NEW i \in Item, Upload(i) PROVE GoodNow
  BY <1>4, <1>c DEF Upload
<1>5. ASSUME NEW bump \in BOOLEAN, Restart(bump) PROVE FALSE
  BY <1>5 DEF Restart, GoodNow
<1>6. CASE UNCHANGED facesVars
  BY <1>6, <1>c DEF facesVars
<1> QED BY <1>1, <1>2, <1>3, <1>4, <1>5, <1>6 DEF FacesNext

-----------------------------------------------------------------------------
LEMMA SameRecords ==
  ASSUME NEW E, NEW ps, Owned(E, ps), Covers(E, ps) PROVE RecordsStay(E, ps, E, ps)
  BY DEF RecordsStay

LEMMA SamePersons ==
  ASSUME fs'.entry = fs.entry PROVE \A i : PersonsIn(fs', i) = PersonsIn(fs, i)
  BY DEF PersonsIn, Stored

(* An item whose photo has just been looked at has no face yet.             *)
LEMMA FoundNobodyNext ==
  ASSUME SingleInv', LibShape', Sane', worker'.pc = "found"
  PROVE  worker'.pids = PersonsIn(fs', worker'.item)
  BY DEF SingleInv, LibShape, PersonsIn

LEMMA GoodStay ==
  ASSUME GoodInv, GoodNow, SingleInv', LibShape',
         RecordsStay(fs.entry, people, fs'.entry, people'), MidSweep => MidSweep',
         worker'.pc = "assign" => worker' = worker /\ fs'.entry = fs.entry
  PROVE  GoodInv'
<1> SUFFICES ASSUME GoodNow' PROVE /\ MidSweep' \/ Exact(fs'.entry, people')
                                   /\ worker'.pc \in {"found", "assign"} =>
                                         worker'.pids = PersonsIn(fs', worker'.item)
  BY DEF GoodInv, RecordsStay
<1>1. MidSweep' \/ Exact(fs'.entry, people')
  BY DEF GoodInv, RecordsStay
<1>2. CASE worker'.pc = "found"
  BY <1>1, <1>2, FoundNobodyNext DEF GoodNow, Sane
<1>3. CASE worker'.pc = "assign"
  BY <1>1, <1>3, SamePersons DEF GoodInv
<1> QED BY <1>1, <1>2, <1>3

LEMMA EndsGood ==
  ASSUME FacesInv, LibShape, LibShape', SingleInv', CalmInv, CalmInv', NEW o \in Owner,
         Calm(o), Ends(o)
  PROVE  GoodInv'
<1> SUFFICES ASSUME GoodNow' PROVE /\ Owned(fs'.entry, people') /\ Exact(fs'.entry, people')
                                   /\ worker'.pc # "assign"
  <2>1. ASSUME Exact(fs'.entry, people') PROVE Covers(fs'.entry, people')
    BY <2>1 DEF Exact, Covers
  <2> QED BY <2>1, FoundNobodyNext DEF GoodInv, GoodNow, Sane
<1>0. JobsShape
  BY ShapeParts DEF FacesInv
<1>1. CASE Replace(o)
  <2>1. job'[o] = [NoJob EXCEPT !.pc = "done", !.calm = job[o].calm]
    BY <1>0, <1>1 DEF Replace, JobsShape
  <2>2. job'[o].pc = "done" /\ job'[o].calm
    BY <2>1 DEF NoJob, Calm
  <2>3. job'[o] # None
    <3>1. job'[o] \in JobType
      <4>1. job[o] \in JobType
        BY <1>0 DEF Calm, JobsShape
      <4>2. [p \in Person |-> None] \in Folk /\ [f \in Face |-> None] \in Entered
            /\ [f \in Face |-> None] \in [Face -> Person \cup {None}]
        BY DEF Folk, Entered
      <4> QED BY <2>1, <4>1, <4>2 DEF NoJob, JobType, Folk, Entered
    <3> QED BY <3>1, NoneAssumption
  <2>4. CalmSound(o)'
    BY <2>2, <2>3 DEF CalmInv, Calm
  <2> QED BY <2>2, <2>4 DEF CalmSound
<1>2. CASE ReclusterReturns(o)
  <2>1. CalmSound(o) /\ job[o].pc = "done" /\ UNCHANGED <<fs, people>>
    BY <1>2 DEF CalmInv, ReclusterReturns
  <2>2. worker'.pc # "assign"
    BY <1>2, <2>1 DEF ReclusterReturns, CalmSound, FacesInv, FacesShape, WorkerType
  <2> QED BY <2>1, <2>2 DEF CalmSound
<1> QED BY <1>1, <1>2 DEF Ends

-----------------------------------------------------------------------------
(* What holds of a good state, as far as it has been shown.                 *)
Before ==
    /\ FacesInv /\ FacesInv' /\ LibShape /\ LibShape' /\ SingleInv'
    /\ GoodInv /\ GoodNow /\ GoodNow'

LEMMA BeforeFacts ==
  ASSUME Before
  PROVE  /\ fs = Loaded(fs.entry) /\ fs' = Loaded(fs'.entry)
         /\ fs.entry \in Entered /\ fs'.entry \in Entered /\ fs \in StoreType /\ fs' \in StoreType
         /\ people \in Folk /\ people' \in Folk /\ worker \in WorkerType
         /\ Owned(fs.entry, people) /\ Covers(fs.entry, people)
         /\ MidSweep \/ Exact(fs.entry, people)
<1>1. fs = Loaded(fs.entry) /\ fs' = Loaded(fs'.entry)
  BY GoodLoaded, GoodLoadedNext DEF Before
<1>2. fs \in StoreType /\ fs' \in StoreType /\ people \in Folk /\ people' \in Folk
      /\ worker \in WorkerType
  BY DEF Before, FacesInv, FacesShape
<1>3. fs.entry \in Entered /\ fs'.entry \in Entered
  BY <1>2 DEF StoreType
<1> QED BY <1>1, <1>2, <1>3 DEF Before, GoodInv

LEMMA GoodSame ==
  ASSUME Before, UNCHANGED <<fs, people>>, MidSweep => MidSweep',
         worker'.pc = "assign" => worker' = worker
  PROVE  GoodInv'
<1>1. RecordsStay(fs.entry, people, fs'.entry, people')
  BY BeforeFacts, SameRecords
<1> QED BY <1>1, GoodStay DEF Before

LEMMA ForgetKeeps ==
  ASSUME NEW E \in Entered, NEW ps, Owned(E, ps), Covers(E, ps), NEW F,
         NEW D, D = Forget(Loaded(E), F).entry
  PROVE  Owned(D, ps) /\ Covers(D, ps)
<1>1. D = [f \in Face |-> IF f \in F THEN None ELSE E[f]]
  BY DEF Forget, Loaded
<1>2. \A f \in Face : D[f] # None => E[f] # None /\ D[f] = E[f]
  BY <1>1
<1> QED BY <1>2 DEF Owned, Covers, FacesOf, In

LEMMA NextItemGood == ASSUME Before, NEW i \in Item, NextItem(i) PROVE GoodInv'
<1>0. worker \in WorkerType
  BY BeforeFacts
<1>1. CASE lib[i] = None
  <2>1. UNCHANGED <<fs, people>> /\ worker' = [worker EXCEPT !.queue = @ \ {i}, !.changed = @ \/ FALSE]
    BY <1>1 DEF NextItem, Live
  <2>2. worker'.pc = "next" /\ (worker.changed => worker'.changed) /\ worker.pc = "next"
    BY <1>0, <2>1 DEF NextItem, WorkerType
  <2> QED BY <2>1, <2>2, GoodSame DEF MidSweep
<1>2. CASE lib[i] # None
  <2>1. fs' = Forget(fs, Entries(fs, fs.byItem[i])) /\ people' = people
    BY <1>2 DEF NextItem
  <2>2. Owned(fs'.entry, people') /\ Covers(fs'.entry, people')
    BY <2>1, BeforeFacts, ForgetKeeps
  <2>3. MidSweep' /\ worker'.pc \notin {"found", "assign"}
    BY <1>0, <1>2 DEF NextItem, MidSweep, WorkerType
  <2> QED BY <2>2, <2>3 DEF GoodInv
<1> QED BY <1>1, <1>2

LEMMA AssignGood == ASSUME Before, NEW l \in Look, AssignFace(l) PROVE GoodInv'
<1>0. /\ fs.entry \in Entered /\ fs'.entry \in Entered /\ people \in Folk /\ worker \in WorkerType
      /\ Owned(fs.entry, people) /\ Covers(fs.entry, people) /\ fs' = Loaded(fs'.entry)
      /\ people' \in Folk
  BY BeforeFacts
<1>1. PICK f, p : Placed(f, p, l)
  BY FacePlaced DEF Before
<1> DEFINE e == FaceEntry(worker.item, p, l)
           base == IF people[p] = None THEN [people EXCEPT ![p] = NewPerson] ELSE people
<1>2. /\ e \in FaceType /\ e.item = worker.item /\ e.person = p /\ p \in Person
      /\ f \in Face /\ fs.entry[f] = None /\ fs'.entry = [fs.entry EXCEPT ![f] = e]
      /\ people' = Recomputed(base, p, fs')
      /\ worker' = [worker EXCEPT !.pc = "assign", !.found = @ \ {l}, !.pids = @ \cup {p}]
  BY <1>1 DEF Placed, FaceEntry
<1>3. base \in Folk /\ base[p] # None /\ \A r \in Person \ {p} : base[r] = people[r]
  BY <1>0, <1>2, NewPersonType, NoneAssumption DEF Folk
<1> HIDE DEF e, base
<1>4. people' = Recomputed(base, e.person, Loaded(fs'.entry))
  BY <1>0, <1>2, Zenon
<1>5. RecordsStay(fs.entry, people, fs'.entry, people')
  BY <1>0, <1>2, <1>3, <1>4, FoundRecords
<1>6. worker'.pc = "assign" /\ worker'.item = worker.item /\ worker'.pids = worker.pids \cup {p}
  BY <1>0, <1>2 DEF WorkerType
<1>7. worker.pids = PersonsIn(fs, worker.item)
  BY DEF Before, GoodInv, AssignFace
<1>8. PersonsIn(fs', worker.item) = PersonsIn(fs, worker.item) \cup {p}
  <2>1. e # None /\ fs'.entry[f] = e /\ \A g \in Face \ {f} : fs'.entry[g] = fs.entry[g]
    BY <1>0, <1>2, NoneAssumption DEF Entered
  <2>2. {g \in Stored(fs') : fs'.entry[g].item = worker.item} =
          {g \in Stored(fs) : fs.entry[g].item = worker.item} \cup {f}
    BY <1>2, <2>1 DEF Stored
  <2>3. f \notin Stored(fs) /\ Stored(fs) \subseteq Face
    BY <1>2 DEF Stored
  <2> QED BY <1>2, <2>1, <2>2, <2>3 DEF PersonsIn
<1> QED BY <1>5, <1>6, <1>7, <1>8 DEF GoodInv, RecordsStay, MidSweep

LEMMA WorkerGood == ASSUME Before, WorkerStep PROVE GoodInv'
<1>0. worker \in WorkerType
  BY BeforeFacts
<1>1. CASE Wake \/ StartSweep \/ Detect \/ FinishItem
  <2>1. UNCHANGED <<fs, people>>
    BY <1>1 DEF Wake, StartSweep, Detect, FinishItem
  <2>2. (MidSweep => MidSweep') /\ worker'.pc # "assign"
    BY <1>0, <1>1 DEF Wake, StartSweep, Detect, FinishItem, MidSweep, WorkerType
  <2> QED BY <2>1, <2>2, GoodSame
<1>2. CASE FinishSweeps
  <2>1. UNCHANGED <<fs, people>> /\ ~MidSweep /\ worker'.pc # "assign"
    BY <1>0, <1>2 DEF FinishSweeps, MidSweep, WorkerType
  <2> QED BY <2>1, GoodSame
<1>3. CASE EndSweep
  <2>1. fs' = fs /\ worker'.pc = "sweep"
    BY <1>0, <1>3 DEF EndSweep, WorkerType
  <2>2. CASE worker.changed
    <3>1. people' = AllRecomputed(people, Loaded(fs.entry))
      BY <1>3, <2>2, BeforeFacts DEF EndSweep
    <3>2. Owned(fs'.entry, people') /\ Covers(fs'.entry, people') /\ Exact(fs'.entry, people')
      BY <2>1, <3>1, BeforeFacts, AllRecords
    <3> QED BY <2>1, <3>2 DEF GoodInv
  <2>3. CASE ~worker.changed
    <3>1. people' = people /\ ~MidSweep
      BY <1>3, <2>3 DEF EndSweep, MidSweep
    <3> QED BY <2>1, <3>1, GoodSame
  <2> QED BY <2>2, <2>3
<1> QED BY <1>1, <1>2, <1>3, NextItemGood, AssignGood DEF WorkerStep

LEMMA RequestGood == ASSUME Before, Request PROVE GoodInv'
<1>0. /\ fs.entry \in Entered /\ fs'.entry \in Entered /\ people \in Folk /\ worker \in WorkerType
      /\ Owned(fs.entry, people) /\ Covers(fs.entry, people)
      /\ fs = Loaded(fs.entry) /\ fs' = Loaded(fs'.entry) /\ fs \in StoreType
  BY BeforeFacts
<1>a. ASSUME RecordsStay(fs.entry, people, fs'.entry, people'), worker' = worker,
             worker.pc # "assign"
      PROVE  GoodInv'
  BY <1>a, GoodStay DEF Before, MidSweep
<1>1. CASE Recluster
  BY <1>1, GoodSame DEF Recluster, Free, MidSweep
<1>2. ASSUME NEW p \in Person, DeletePerson(p) PROVE GoodInv'
  <2>1. fs' = Forget(fs, Entries(fs, fs.byPerson[p])) /\ people' = [people EXCEPT ![p] = None]
        /\ worker' = worker /\ worker.pc # "assign"
    BY <1>2 DEF DeletePerson, Free
  <2>2. fs' = Forget(Loaded(fs.entry), FacesOf(p, fs.entry))
    <3>1. Entries(Loaded(fs.entry), Loaded(fs.entry).byPerson[p]) = FacesOf(p, fs.entry)
      BY LoadedFaces
    <3>2. Entries(fs, fs.byPerson[p]) = FacesOf(p, fs.entry)
      BY <1>0, <3>1, Zenon
    <3> QED BY <1>0, <2>1, <3>2, Zenon
  <2>3. RecordsStay(fs.entry, people, fs'.entry, people')
    BY <1>0, <2>1, <2>2, DeleteRecords
  <2> QED BY <1>a, <2>1, <2>3
<1>3. ASSUME NEW p \in Person, NEW q \in Person, p # q, people[p] # None, Merged(p, q),
             worker' = worker, Free
      PROVE  GoodInv'
  <2>1. fs' = MoveAll(fs, q, p) /\ people' = Recomputed([people EXCEPT ![q] = None], p, fs')
    BY <1>3 DEF Merged
  <2>2. fs' = MoveAll(Loaded(fs.entry), q, p)
        /\ people' = Recomputed([people EXCEPT ![q] = None], p, Loaded(fs'.entry))
    BY <1>0, <2>1, Zenon
  <2>3. RecordsStay(fs.entry, people, fs'.entry, people')
    BY <1>0, <1>3, <2>2, MergeRecords
  <2> QED BY <1>a, <1>3, <2>3 DEF Free
<1>4. ASSUME NEW p \in Person, NEW n \in Name, NamePerson(p, n) PROVE GoodInv'
  <2>1. worker' = worker /\ Free /\ people[p] # None
    BY <1>4 DEF NamePerson, Known
  <2>2. CASE \E q \in Known \ {p} : Merged(q, p)
    BY <1>3, <2>1, <2>2 DEF Known
  <2>3. CASE people' = [people EXCEPT ![p].name = n] /\ fs' = fs
    <3>1. people[p] \in PersonType
      BY <1>0, <2>1 DEF Folk
    <3> DEFINE x == [people[p] EXCEPT !.name = n]
    <3>2. x \in PersonType /\ x.made = people[p].made
      BY <3>1 DEF PersonType
    <3>3. people' = [people EXCEPT ![p] = x]
      BY <2>3
    <3> HIDE DEF x
    <3>4. people'[p] = x /\ x # None /\ \A q \in Person \ {p} : people'[q] = people[q]
      BY <1>0, <3>2, <3>3, NoneAssumption DEF Folk
    <3>5. \A q \in Person : /\ people'[q] = None <=> people[q] = None
                            /\ people[q] # None => people'[q].made = people[q].made
      BY <2>1, <3>2, <3>4
    <3>6. RecordsStay(fs.entry, people, fs'.entry, people')
      BY <1>0, <2>3, <3>5, EnteredPeople DEF RecordsStay, Owned, Covers, Exact
    <3> QED BY <1>a, <2>1, <3>6 DEF Free
  <2> QED BY <1>4, <2>2, <2>3 DEF NamePerson
<1>5. ASSUME NEW f \in Face, fs.entry[f] # None, NEW q \in Person, NEW base \in Folk,
             base[q] # None, \A r \in Person \ {q} : base[r] = people[r],
             fs' = Put(fs, f, [fs.entry[f] EXCEPT !.person = q]),
             people' = Pruned(Recomputed(Recomputed(base, fs.entry[f].person, fs'), q, fs')),
             worker' = worker, Free
      PROVE  GoodInv'
  <2>1. fs.entry[f] \in FaceType /\ f \in In(fs.entry)
    BY <1>0, <1>5 DEF Entered, In
  <2>2. fs'.entry = [fs.entry EXCEPT ![f] = [fs.entry[f] EXCEPT !.person = q]]
    BY <1>0, <1>5, <2>1, FaceTo, PutEntry
  <2>3. people' = Pruned(Recomputed(Recomputed(base, fs.entry[f].person, Loaded(fs'.entry)), q,
                                    Loaded(fs'.entry)))
    BY <1>0, <1>5, Zenon
  <2>4. RecordsStay(fs.entry, people, fs'.entry, people')
    BY <1>0, <1>5, <2>1, <2>2, <2>3, MoveRecords
  <2> QED BY <1>a, <1>5, <2>4 DEF Free
<1>6. ASSUME NEW f \in Face, NEW q \in Person, Reassign(f, q) PROVE GoodInv'
  BY <1>0, <1>5, <1>6 DEF Reassign, Known
<1>7. ASSUME NEW f \in Face, Detach(f) PROVE GoodInv'
  <2> DEFINE q == CHOOSE r \in FreshPeople : TRUE
             base == [people EXCEPT ![q] = NewPerson]
  <2>1. q \in FreshPeople
    BY <1>7 DEF Detach
  <2>2. q \in Person
    BY <2>1 DEF FreshPeople
  <2>3. base \in Folk /\ base[q] # None /\ \A r \in Person \ {q} : base[r] = people[r]
    BY <1>0, <2>2, NewPersonType, NoneAssumption DEF Folk
  <2>4. /\ fs' = Put(fs, f, [fs.entry[f] EXCEPT !.person = q]) /\ fs.entry[f] # None
        /\ people' = Pruned(Recomputed(Recomputed(base, fs.entry[f].person, fs'), q, fs'))
        /\ worker' = worker /\ Free
    BY <1>7 DEF Detach
  <2> HIDE DEF q, base
  <2> QED BY <1>5, <2>2, <2>3, <2>4
<1>8. ASSUME NEW i \in Item, NEW t \in BOOLEAN, Purge(i) \/ SetTrashed(i, t) PROVE GoodInv'
  BY <1>8, GoodSame DEF Purge, SetTrashed, MidSweep
<1>9. ASSUME NEW p \in Person, NEW q \in Person, Merge(p, q) PROVE GoodInv'
  BY <1>3, <1>9 DEF Merge, Known
<1> QED BY <1>1, <1>2, <1>4, <1>6, <1>7, <1>8, <1>9 DEF Request

LEMMA JobGood ==
  ASSUME Before, NEW o \in Owner, JobStep(o) \/ ReclusterRaises(o) PROVE GoodInv'
<1>0. worker \in WorkerType /\ JobsShape
  BY BeforeFacts, ShapeParts DEF Before, FacesInv
<1>4. CASE ReadFaces(o)
  <2>1. UNCHANGED <<fs, people, worker>>
    BY <1>4 DEF ReadFaces
  <2> QED BY <2>1, GoodSame DEF MidSweep
<1>1. CASE Regroup(o)
  <2>1. PICK g, j : RegroupTo(o, g, j)
    BY <1>1, RegroupJob DEF Before, FacesInv
  <2>2. job'[o].pc = "applying" /\ job'[o] # None
    BY <2>1, NoneAssumption DEF RegroupTo
  <2> QED BY <2>2 DEF Before, GoodNow, Applying
<1>2. CASE SetPersonUnlinks(o) \/ SetPersonEnds(o) \/ Replace(o) \/ \E f \in Face : SetPersonReads(o, f)
  <2>1. job[o] # None /\ job[o].pc = "applying"
    BY <1>2 DEF SetPersonUnlinks, SetPersonEnds, Replace, SetPersonReads, Running, Before,
                FacesInv, JobsSound
  <2> QED BY <2>1 DEF Before, GoodNow, Applying
<1>3. CASE ReclusterReturns(o) \/ ReclusterRaises(o)
  <2>1. UNCHANGED <<fs, people>>
    BY <1>3 DEF ReclusterReturns, ReclusterRaises
  <2>2. worker' = worker \/ (worker.pc = "recluster" /\ worker'.pc = "asleep")
    BY <1>0, <1>3 DEF ReclusterReturns, ReclusterRaises, Running, Before, FacesInv, WorkerWaits,
                      WorkerType
  <2> QED BY <2>1, <2>2, GoodSame DEF MidSweep
<1> QED BY <1>1, <1>2, <1>3, <1>4 DEF JobStep

LEMMA GoodKept ==
  ASSUME FacesInv, FacesInv', LibShape, LibShape', SingleInv', CalmInv, CalmInv', GoodInv,
         [FacesNext]_facesVars
  PROVE  GoodInv'
<1> SUFFICES ASSUME GoodNow' PROVE GoodInv'
  BY DEF GoodInv
<1>1. CASE \E o \in Owner : Calm(o) /\ Ends(o)
  BY <1>1, EndsGood
<1>2. CASE GoodNow
  <2>1. Before
    BY <1>2 DEF Before
  <2>2. CASE \E i \in Item : Upload(i)
    BY <2>1, <2>2, GoodSame DEF Upload, MidSweep
  <2>3. CASE UNCHANGED facesVars
    BY <2>1, <2>3, GoodSame DEF facesVars, MidSweep
  <2>4. CASE \E bump \in BOOLEAN : Restart(bump)
    BY <2>4 DEF Restart, GoodNow
  <2> QED BY <2>1, <2>2, <2>3, <2>4, WorkerGood, RequestGood, JobGood DEF FacesNext
<1> QED BY <1>1, <1>2, GoodBefore

LEMMA GoodInitially == FacesInit => GoodInv
  BY DEF FacesInit, GoodInv, Owned, Covers, Exact, FacesOf, In, EmptyStore, Asleep

-----------------------------------------------------------------------------
(* The items' tags, while no recluster is writing or about to rewrite them. *)
Quiet == \A o \in Owner : job[o] # None => job[o].pc \in {"called", "clustering"}
TagsInv ==
    (health = "good" /\ Quiet) =>
        \A i \in Item : (lib[i] # None /\ i # worker.item) => lib[i].pids = PersonsIn(fs, i)

LEMMA QuietGood == ASSUME Quiet, health = "good" PROVE GoodNow
  BY DEF Quiet, GoodNow, Applying

LEMMA TagsStay ==
  ASSUME TagsInv, fs'.entry = fs.entry, lib' = lib, worker'.item = worker.item,
         Quiet' => Quiet, health' = "good" => health = "good"
  PROVE  TagsInv'
  BY SamePersons DEF TagsInv

LEMMA DisturbQuiet ==
  ASSUME JobsShape, Disturb PROVE (Quiet' => Quiet) /\ (health' = "good" => health = "good")
<1>1. ASSUME NEW o \in Owner, job[o] # None PROVE job'[o] # None /\ job'[o].pc = job[o].pc
  <2>1. job[o] \in JobType /\ job'[o] = [job[o] EXCEPT !.calm = FALSE]
    BY <1>1 DEF JobsShape, Disturb
  <2>2. job'[o] \in JobType /\ job'[o].pc = job[o].pc
    BY <2>1 DEF JobType
  <2> QED BY <2>2, NoneAssumption
<1> QED BY <1>1 DEF Quiet, Disturb

LEMMA StartQuiet ==
  ASSUME JobsShape, NEW o \in Owner, job[o] = None, StartJob(o) PROVE Quiet' => Quiet
<1>1. ASSUME NEW r \in Owner, job[r] # None PROVE job'[r] # None /\ job'[r].pc = job[r].pc
  <2>1. job[r] \in JobType /\ job'[r] = [job[r] EXCEPT !.calm = FALSE]
    BY <1>1 DEF JobsShape, StartJob
  <2>2. job'[r] \in JobType /\ job'[r].pc = job[r].pc
    BY <2>1 DEF JobType
  <2> QED BY <2>2, NoneAssumption
<1> QED BY <1>1 DEF Quiet

(* Two stores with the same faces of an item.                               *)
LEMMA PersonsSame ==
  ASSUME NEW s, NEW t, NEW i,
         \A f \in Face : s.entry[f] = t.entry[f] \/ /\ s.entry[f] # None => s.entry[f].item # i
                                                    /\ t.entry[f] # None => t.entry[f].item # i
  PROVE  PersonsIn(s, i) = PersonsIn(t, i)
<1>1. {g \in Stored(s) : s.entry[g].item = i} = {g \in Stored(t) : t.entry[g].item = i}
  BY DEF Stored
<1>2. \A g \in {h \in Stored(s) : s.entry[h].item = i} : s.entry[g] = t.entry[g]
  BY DEF Stored
<1> QED BY <1>1, <1>2 DEF PersonsIn

LEMMA NextItemTags ==
  ASSUME FacesInv, LibShape, TagsInv, NEW i \in Item, NextItem(i) PROVE TagsInv'
<1>0. fs \in StoreType /\ fs.entry \in Entered /\ worker \in WorkerType /\ JobsShape
  BY ShapeParts DEF FacesInv, WorkerShape, StoreType
<1>1. CASE lib[i] = None
  <2>1. UNCHANGED <<fs, lib, job, health>> /\ worker'.item = worker.item
    BY <1>0, <1>1 DEF NextItem, Live, WorkerType
  <2> QED BY <2>1, TagsStay DEF Quiet
<1>2. CASE lib[i] # None
  <2>0. /\ fs' = Forget(fs, Entries(fs, fs.byItem[i])) /\ Disturb
        /\ worker.item = None
    BY <1>2 DEF NextItem, LibShape
  <2> SUFFICES ASSUME health' = "good", Quiet', NEW k \in Item, lib'[k] # None, k # worker'.item
               PROVE  lib'[k].pids = PersonsIn(fs', k)
    BY DEF TagsInv
  <2>1. health = "good" /\ Quiet
    BY <1>0, <2>0, DisturbQuiet
  <2>2. fs = Loaded(fs.entry)
    BY <2>1, QuietGood, GoodLoaded
  <2>3. Entries(fs, fs.byItem[i]) = {f \in In(fs.entry) : fs.entry[f].item = i}
    <3>1. Entries(Loaded(fs.entry), Loaded(fs.entry).byItem[i])
            = {f \in In(fs.entry) : fs.entry[f].item = i}
      BY LoadedItems
    <3> QED BY <2>2, <3>1, Zenon
  <2>4. fs'.entry = [f \in Face |-> IF f \in {g \in In(fs.entry) : fs.entry[g].item = i} THEN None
                                    ELSE fs.entry[f]]
    BY <2>0, <2>3 DEF Forget
  <2>5. /\ \A f \in Face : (fs.entry[f] # None /\ fs.entry[f].item = i) => fs'.entry[f] = None
        /\ \A f \in Face : fs.entry[f] = None \/ fs.entry[f].item # i => fs'.entry[f] = fs.entry[f]
    BY <2>4 DEF In
  <2>6. CASE k # i
    <3>1. PersonsIn(fs', k) = PersonsIn(fs, k)
      <4>1. \A f \in Face : fs'.entry[f] = fs.entry[f]
               \/ /\ fs'.entry[f] # None => fs'.entry[f].item # k
                  /\ fs.entry[f] # None => fs.entry[f].item # k
        BY <2>5, <2>6
      <4> QED BY <4>1, PersonsSame
    <3>2. lib'[k] = lib[k]
      BY <2>6 DEF NextItem, LibShape, Items
    <3> QED BY <2>0, <2>1, <3>1, <3>2, NoneAssumption DEF TagsInv
  <2>7. CASE k = i
    <3>1. ~Live(i) /\ lib' = [lib EXCEPT ![i].done = TRUE, ![i].pids = {}]
      <4>1. Live(i) => worker'.item = i
        BY <1>0 DEF NextItem, WorkerType
      <4> QED BY <1>2, <2>7, <4>1 DEF NextItem
    <3> DEFINE x == [lib[i] EXCEPT !.done = TRUE, !.pids = {}]
    <3>2. x.pids = {} /\ lib' = [lib EXCEPT ![i] = x]
      <4>1. lib[i] \in ItemType
        BY <1>2, LibNotNone DEF LibShape
      <4> QED BY <3>1, <4>1, ItemKinds
    <3> HIDE DEF x
    <3>3. lib'[i].pids = {}
      BY <3>2 DEF LibShape, Items
    <3>4. PersonsIn(fs', i) = {}
      BY <2>5 DEF PersonsIn, Stored
    <3> QED BY <2>7, <3>3, <3>4
  <2> QED BY <2>6, <2>7
<1> QED BY <1>1, <1>2

LEMMA FinishTags == ASSUME FacesInv, LibShape, GoodInv, TagsInv, FinishItem PROVE TagsInv'
<1>0. worker \in WorkerType /\ worker.item \in Item
  BY DEF FacesInv, FacesShape, FinishItem
<1> SUFFICES ASSUME health' = "good", Quiet', NEW k \in Item, lib'[k] # None
             PROVE  lib'[k].pids = PersonsIn(fs', k)
  BY DEF TagsInv
<1>1. health = "good" /\ Quiet /\ fs' = fs
  BY DEF FinishItem, Quiet
<1>2. CASE k # worker.item
  <2>1. lib'[k] = lib[k]
    BY <1>2 DEF FinishItem, LibShape, Items
  <2> QED BY <1>1, <1>2, <2>1 DEF TagsInv
<1>3. CASE k = worker.item
  <2> DEFINE x == [lib[k] EXCEPT !.done = TRUE, !.pids = worker.pids]
  <2>1. lib[k] # None /\ lib' = [lib EXCEPT ![k] = x]
    BY <1>3 DEF FinishItem
  <2>2. x.pids = worker.pids
    <3>1. lib[k] \in ItemType /\ worker.pids \in SUBSET Person
      BY <1>0, <2>1, LibNotNone DEF LibShape, WorkerType
    <3> QED BY <3>1, ItemKinds
  <2> HIDE DEF x
  <2>3. lib'[k] = x
    BY <2>1 DEF LibShape, Items
  <2>4. worker.pids = PersonsIn(fs, k)
    BY <1>1, <1>3, QuietGood DEF GoodInv, FinishItem
  <2> QED BY <1>1, <2>2, <2>3, <2>4
<1> QED BY <1>2, <1>3

LEMMA AssignTags ==
  ASSUME FacesInv, TagsInv, NEW l \in Look, AssignFace(l) PROVE TagsInv'
<1>0. worker \in WorkerType /\ JobsShape /\ fs.entry \in Entered
  BY ShapeParts DEF FacesInv, WorkerShape, StoreType
<1>1. PICK f, p : Placed(f, p, l)
  BY FacePlaced
<1> DEFINE e == FaceEntry(worker.item, p, l)
<1>2. /\ e.item = worker.item /\ f \in Face /\ fs.entry[f] = None
      /\ fs'.entry = [fs.entry EXCEPT ![f] = e]
      /\ worker' = [worker EXCEPT !.pc = "assign", !.found = @ \ {l}, !.pids = @ \cup {p}]
  BY <1>1 DEF Placed, FaceEntry
<1> HIDE DEF e
<1>3. worker'.item = worker.item /\ lib' = lib /\ Disturb
  BY <1>0, <1>2 DEF AssignFace, WorkerType
<1>4. ASSUME NEW i \in Item, i # worker.item PROVE PersonsIn(fs', i) = PersonsIn(fs, i)
  <2>1. \A g \in Face : fs'.entry[g] = fs.entry[g]
           \/ /\ fs'.entry[g] # None => fs'.entry[g].item # i
              /\ fs.entry[g] # None => fs.entry[g].item # i
    BY <1>0, <1>2, <1>4 DEF Entered
  <2> QED BY <2>1, PersonsSame
<1> QED BY <1>0, <1>3, <1>4, DisturbQuiet DEF TagsInv

LEMMA UploadTags ==
  ASSUME FacesInv, LibShape, TagsInv, NEW i \in Item, Upload(i) PROVE TagsInv'
<1>1. lib' = [lib EXCEPT ![i] = NewItem] /\ UNCHANGED <<fs, worker, job, health>> /\ Unheard(i)
  BY DEF Upload
<1>2. PersonsIn(fs, i) = {}
  <2> SUFFICES ASSUME NEW f \in Face, fs.entry[f] # None, fs.entry[f].item = i PROVE FALSE
    BY DEF PersonsIn, Stored
  <2>1. fs.entry[f] \in Present(fs.entry)
    BY DEF Present, FacesInv, FacesShape, StoreType, Entered
  <2> QED BY <1>1, <2>1 DEF Unheard
<1>3. lib'[i] = NewItem /\ \A k \in Item \ {i} : lib'[k] = lib[k]
  BY <1>1 DEF LibShape, Items
<1> QED BY <1>1, <1>2, <1>3 DEF TagsInv, NewItem, Quiet

LEMMA ItemTags ==
  ASSUME LibShape, TagsInv, NEW i \in Item, NEW t \in BOOLEAN, Purge(i) \/ SetTrashed(i, t)
  PROVE  TagsInv'
<1>1. UNCHANGED <<fs, worker, job, health>>
  BY DEF Purge, SetTrashed
<1>2. \A k \in Item : lib'[k] # None => lib[k] # None /\ lib'[k].pids = lib[k].pids
  <2>1. CASE Purge(i)
    BY <2>1 DEF Purge, LibShape, Items
  <2>2. CASE SetTrashed(i, t)
    <3> DEFINE x == [lib[i] EXCEPT !.trashed = t]
    <3>1. lib' = [lib EXCEPT ![i] = x] /\ lib[i] # None
      BY <2>2 DEF SetTrashed
    <3>2. x.pids = lib[i].pids
      <4>1. lib[i] \in ItemType
        BY <3>1, LibNotNone DEF LibShape
      <4> QED BY <4>1, ItemKinds
    <3> HIDE DEF x
    <3> QED BY <3>1, <3>2 DEF LibShape, Items
  <2> QED BY <2>1, <2>2
<1> QED BY <1>1, <1>2 DEF TagsInv, Quiet

(* Every item's tags are rewritten.                                         *)
LEMMA SyncTags ==
  ASSUME LibShape, fs' \in StoreType, lib' = Synced(lib, fs') PROVE TagsInv'
  BY SyncedIs DEF LibShape, TagsInv

LEMMA TagsKept ==
  ASSUME FacesInv, FacesInv', LibShape, GoodInv, TagsInv, [FacesNext]_facesVars PROVE TagsInv'
<1>0. worker \in WorkerType /\ JobsShape /\ fs' \in StoreType
  BY ShapeParts, ShapePartsNext DEF FacesInv, WorkerShape
<1>1. CASE WorkerStep
  <2>1. CASE Wake \/ StartSweep \/ Detect
    <3>1. UNCHANGED <<fs, lib, job, health>> /\ worker'.item = worker.item
      BY <1>0, <2>1 DEF Wake, StartSweep, Detect, WorkerType
    <3> QED BY <3>1, TagsStay DEF Quiet
  <2>2. CASE FinishSweeps
    <3>1. UNCHANGED <<fs, lib, health>> /\ worker'.item = worker.item
      BY <1>0, <2>2 DEF FinishSweeps, WorkerType
    <3>2. Quiet' => Quiet
      <4>1. CASE worker.dirty
        BY <1>0, <2>2, <4>1, StartQuiet DEF FinishSweeps, FacesInv, WorkerWaits, Owner
      <4>2. CASE ~worker.dirty
        BY <2>2, <4>2 DEF FinishSweeps, Quiet
      <4> QED BY <4>1, <4>2
    <3> QED BY <3>1, <3>2, TagsStay
  <2>3. CASE EndSweep
    <3>1. UNCHANGED <<fs, lib>> /\ worker'.item = worker.item
          /\ (Disturb \/ UNCHANGED <<job, health>>)
      BY <1>0, <2>3 DEF EndSweep, WorkerType
    <3>2. (Quiet' => Quiet) /\ (health' = "good" => health = "good")
      BY <1>0, <3>1, DisturbQuiet DEF Quiet
    <3> QED BY <3>1, <3>2, TagsStay
  <2> QED BY <1>1, <2>1, <2>2, <2>3, FinishTags, NextItemTags, AssignTags DEF WorkerStep
<1>2. ASSUME NEW o \in Owner, JobStep(o) PROVE TagsInv'
  <2>5. CASE ReadFaces(o)
    <3>1. UNCHANGED <<fs, lib, worker, health>> /\ job[o].pc = "called"
          /\ \E x : job' = [job EXCEPT ![o] = x]
      BY <2>5 DEF ReadFaces
    <3>2. Quiet' => Quiet
      <4>1. \A r \in Owner \ {o} : job'[r] = job[r]
        BY <1>0, <3>1 DEF JobsShape
      <4> QED BY <3>1, <4>1 DEF Quiet
    <3> QED BY <3>1, <3>2, TagsStay
  <2>1. CASE Regroup(o)
    <3>1. PICK g, j : RegroupTo(o, g, j)
      BY <2>1, RegroupJob DEF FacesInv
    <3>2. job'[o] # None /\ job'[o].pc = "applying"
      BY <3>1, NoneAssumption DEF RegroupTo
    <3> QED BY <3>2 DEF TagsInv, Quiet
  <2>2. CASE SetPersonUnlinks(o) \/ SetPersonEnds(o) \/ \E f \in Face : SetPersonReads(o, f)
    <3>1. PICK j \in JobType : job' = [job EXCEPT ![o] = j] /\ j.pc = "applying"
      BY <2>2, SetPersonJob
    <3>2. job'[o] # None /\ job'[o].pc = "applying"
      BY <1>0, <3>1, NoneAssumption DEF JobsShape
    <3> QED BY <3>2 DEF TagsInv, Quiet
  <2>3. CASE Replace(o)
    <3>1. job'[o] = [NoJob EXCEPT !.pc = "done", !.calm = job[o].calm]
      BY <1>0, <2>3 DEF Replace, JobsShape
    <3>2. job'[o] # None /\ job'[o].pc = "done"
      <4>1. job[o] \in JobType
        BY <1>0, <2>3 DEF Replace, Running, JobsShape
      <4>2. [p \in Person |-> None] \in Folk /\ [f \in Face |-> None] \in Entered
            /\ [f \in Face |-> None] \in [Face -> Person \cup {None}]
        BY DEF Folk, Entered
      <4>3. job'[o] \in JobType /\ job'[o].pc = "done"
        BY <3>1, <4>1, <4>2 DEF NoJob, JobType, Folk, Entered
      <4> QED BY <4>3, NoneAssumption
    <3> QED BY <3>2 DEF TagsInv, Quiet
  <2>4. CASE ReclusterReturns(o)
    BY <1>0, <2>4, SyncTags DEF ReclusterReturns
  <2> QED BY <1>2, <2>1, <2>2, <2>3, <2>4, <2>5 DEF JobStep
<1>3. ASSUME NEW o \in Owner, ReclusterRaises(o) PROVE TagsInv'
  <2>1. UNCHANGED <<fs, lib, health>> /\ worker'.item = worker.item
        /\ job[o].pc = "clustering" /\ job' = [job EXCEPT ![o] = None]
    BY <1>0, <1>3 DEF ReclusterRaises, WorkerType
  <2>2. Quiet' => Quiet
    <3>1. \A r \in Owner \ {o} : job'[r] = job[r]
      BY <1>0, <2>1 DEF JobsShape
    <3> QED BY <2>1, <3>1 DEF Quiet
  <2> QED BY <2>1, <2>2, TagsStay
<1>4. CASE Request
  <2>1. CASE Recluster
    <3>1. UNCHANGED <<fs, lib, worker, health>> /\ (Quiet' => Quiet)
      BY <1>0, <2>1, StartQuiet DEF Recluster, Owner
    <3> QED BY <3>1, TagsStay
  <2>2. CASE Corrected
    BY <1>0, <2>2, SyncTags DEF Corrected
  <2> QED BY <1>4, <2>1, <2>2, ItemTags
       DEF Request, DeletePerson, Merge, NamePerson, Detach, Reassign
<1>5. ASSUME NEW bump \in BOOLEAN, Restart(bump) PROVE TagsInv'
  BY <1>5 DEF Restart, TagsInv
<1>6. CASE UNCHANGED facesVars
  BY <1>6, TagsStay DEF facesVars, Quiet
<1> QED BY <1>1, <1>2, <1>3, <1>4, <1>5, <1>6, UploadTags DEF FacesNext

-----------------------------------------------------------------------------
(* Together.                                                                *)
RecordsInv == FacesInv /\ SingleInv /\ CalmInv /\ LibShape /\ GoodInv /\ TagsInv

LEMMA RecordsInitially == FacesInit => RecordsInv
<1> SUFFICES ASSUME FacesInit PROVE TagsInv
  BY FacesInitially, SingleInitially, CalmInitially, LibInitially, GoodInitially DEF RecordsInv
<1> QED BY DEF FacesInit, TagsInv

LEMMA RecordsKept == RecordsInv /\ [FacesNext]_facesVars => RecordsInv'
<1> SUFFICES ASSUME RecordsInv, [FacesNext]_facesVars PROVE RecordsInv'
  OBVIOUS
<1>1. FacesInv' /\ SingleInv' /\ CalmInv' /\ LibShape'
  BY FacesKept, SingleKept, CalmKept, LibKept DEF RecordsInv
<1>2. GoodInv' /\ TagsInv'
  BY <1>1, GoodKept, TagsKept DEF RecordsInv
<1> QED BY <1>1, <1>2 DEF RecordsInv

LEMMA RecordsAlways == FacesSpec => []RecordsInv
  BY RecordsInitially, RecordsKept, PTL DEF FacesSpec

(* Every face belongs to a person there is, for any number of photos, faces *)
(* and people and any interleaving of the worker, the reclusters and the    *)
(* handlers of people.py.                                                   *)
THEOREM FacesHaveOwners == FacesSpec => []FacesOwned
<1>1. RecordsInv => FacesOwned
  <2> SUFFICES ASSUME RecordsInv, health = "good", Settled PROVE Owned(fs.entry, people)
    BY DEF FacesOwned, Owned, Stored, In
  <2>1. GoodNow
    BY DEF GoodNow, Applying, Settled
  <2> QED BY <2>1 DEF RecordsInv, GoodInv
<1> QED BY <1>1, RecordsAlways, PTL

(* Between sweeps a person's record names just the faces the index gives it *)
(* -- each handler of people.py recomputes every person it takes a face     *)
(* from or gives one to.                                                    *)
THEOREM FacesCounted == FacesSpec => []CountsDerived
<1>1. RecordsInv => CountsDerived
  <2> SUFFICES ASSUME RecordsInv, health = "good", Settled, worker.pc = "asleep",
                      NEW p \in Person, people[p] # None
               PROVE  people[p].made = fs.byPerson[p]
    BY DEF CountsDerived, Known
  <2>1. GoodNow /\ ~MidSweep
    BY DEF GoodNow, Applying, Settled, MidSweep
  <2>2. people[p].made = FacesOf(p, fs.entry)
    BY <2>1 DEF RecordsInv, GoodInv, Exact
  <2>3. fs = Loaded(fs.entry)
    BY <2>1, GoodLoaded DEF RecordsInv
  <2>4. Loaded(fs.entry).byPerson[p] = FacesOf(p, fs.entry)
    BY DEF Loaded, FacesOf, In
  <2> QED BY <2>2, <2>3, <2>4, Zenon
<1> QED BY <1>1, RecordsAlways, PTL

(* A photo's tags are the people of its faces, but for the photo the worker *)
(* is looking at: no correction, sweep or recluster leaves a tag behind.    *)
THEOREM FacesTagged == FacesSpec => []TagsAgree
<1>1. RecordsInv => TagsAgree
  BY DEF RecordsInv, TagsInv, TagsAgree, Settled, Quiet
<1> QED BY <1>1, RecordsAlways, PTL

-----------------------------------------------------------------------------
(* What a recluster ends with.                                              *)
Numbering(o, S) ==
    /\ o \in [1..Cardinality(S) -> S]
    /\ \A j, k \in 1..Cardinality(S) : j # k => o[j] # o[k]
Listed(o, S) == \A x \in S : \E k \in 1..Cardinality(S) : o[k] = x

LEMMA FullyListed == ASSUME NEW S, IsFiniteSet(S), NEW o, Numbering(o, S) PROVE Listed(o, S)
<1> DEFINE n == Cardinality(S)
<1>1. n \in Nat
  BY FS_CardinalityType
<1>2. o \in Injection(1..n, S)
  BY Fun_IsInj DEF Numbering
<1>3. Cardinality(1..n) = n
  BY <1>1, FS_Interval
<1>4. o \in Surjection(1..n, S)
  BY <1>2, <1>3, FS_Injection
<1> QED BY <1>4 DEF Surjection, Range, Listed

(* A person whose faces are one component keeps it.                         *)
LEMMA OwnKept ==
  ASSUME NEW old \in Entered, NEW fresh \in SUBSET Person, fresh \cap InUse(old) = {},
         NEW g \in Regroupings(old, fresh), NEW p \in Person, FacesOf(p, old) \in Components(old)
  PROVE  g[FacesOf(p, old)] = p
<1> DEFINE Cs == Components(old)
           B  == FacesOf(p, old)
           n  == Cardinality(Cs)
           Orders == {o \in [1..n -> Cs] :
                        /\ \A j, k \in 1..n : j # k => o[j] # o[k]
                        /\ \A j, k \in 1..n :
                             j < k => Cardinality(o[j]) >= Cardinality(o[k])}
           Left(o, k) == OwnersOf(o[k], old) \ {g[o[j]] : j \in 1..(k - 1)}
<1>1. PICK o \in Orders : \A k \in 1..n : IF Left(o, k) = {} THEN g[o[k]] \in fresh
                                          ELSE g[o[k]] \in Left(o, k)
  BY DEF Regroupings
<1>2. IsFiniteSet(Cs)
  <2>1. IsFiniteSet(SUBSET In(old))
    <3>1. IsFiniteSet(In(old))
      BY FaceAssumption, FS_Subset DEF In
    <3> QED BY <3>1, FS_SUBSET
  <2> QED BY <2>1, FS_Subset DEF Components
<1>3. B # {} /\ OwnersOf(B, old) = {p} /\ p \in InUse(old)
  <2>1. B # {}
    BY DEF Components
  <2>2. \A f \in B : f \in In(old) /\ old[f].person = p
    BY DEF FacesOf
  <2>3. PICK f \in B : TRUE
    BY <2>1
  <2>4. old[f] \in Present(old)
    BY <2>2, <2>3 DEF Present, In, Entered
  <2> QED BY <2>1, <2>2, <2>3, <2>4 DEF OwnersOf, InUse
<1>4. PICK k \in 1..n : o[k] = B
  <2>1. Numbering(o, Cs)
    BY DEF Numbering
  <2>2. Listed(o, Cs)
    BY <1>2, <2>1, FullyListed, Zenon
  <2> QED BY <2>2 DEF Listed
<1>5. n \in Nat
  BY <1>2, FS_CardinalityType
<1>6. ASSUME NEW j \in 1..(k - 1), g[o[j]] = p PROVE FALSE
  <2>1. j \in 1..n /\ j # k /\ o[j] \in Cs /\ o[j] # B
    BY <1>4, <1>5
  <2>2. p \in OwnersOf(o[j], old)
    BY <1>1, <1>3, <1>6, <2>1
  <2>3. PICK f \in o[j] : old[f].person = p
    BY <2>2 DEF OwnersOf
  <2>4. f \in B
    BY <2>1, <2>3 DEF Components, FacesOf
  <2> QED BY <2>1, <2>3, <2>4, ComponentsApart
<1>7. Left(o, k) = {p}
  BY <1>3, <1>4, <1>6
<1> QED BY <1>1, <1>4, <1>7

(* The components are those of the entries whoever the faces belong to.     *)
LEMMA SameComponents ==
  ASSUME NEW D, NEW E, In(D) = In(E), \A f \in In(E) : D[f].look = E[f].look
  PROVE  Components(D) = Components(E)
<1>1. \A C \in SUBSET In(E) : Closed(C, D) <=> Closed(C, E)
  BY DEF Closed
<1>2. ASSUME NEW C \in SUBSET In(E), NEW B \in SUBSET C PROVE B \in SUBSET In(E)
  OBVIOUS
<1> HIDE DEF Closed
<1> QED BY <1>1, <1>2 DEF Components

LEMMA ReachedSame ==
  ASSUME NEW j \in JobType, \A f \in In(j.old) : j.plan[f] \in Person
  PROVE  Components(Reached(j)) = Components(j.old)
<1>1. ASSUME NEW f \in In(j.old) PROVE Reached(j)[f] # None /\ Reached(j)[f].look = j.old[f].look
  <2>1. f \in Face /\ j.old[f] \in FaceType
    BY DEF In, JobType
  <2>2. Reached(j)[f] = j.old[f] \/ Reached(j)[f] = [j.old[f] EXCEPT !.person = j.plan[f]]
    BY <2>1 DEF Reached
  <2>3. [j.old[f] EXCEPT !.person = j.plan[f]] \in FaceType
        /\ [j.old[f] EXCEPT !.person = j.plan[f]].look = j.old[f].look
    BY <2>1, FaceTo
  <2> QED BY <2>1, <2>2, <2>3, NoneAssumption
<1>2. \A f \in Face \ In(j.old) : Reached(j)[f] = None
  BY DEF Reached, In
<1>3. In(Reached(j)) = In(j.old)
  BY <1>1, <1>2 DEF In
<1> QED BY <1>1, <1>3, SameComponents

(* Only its last step takes a recluster from applying to done.              *)
LEMMA EndedBy ==
  ASSUME FacesInv, [FacesNext]_facesVars, NEW o \in Owner, job[o] # None,
         job[o].pc = "applying", job'[o] # None, job'[o].pc = "done"
  PROVE  Replace(o)
<1>0. JobsShape /\ job[o] \in JobType
  BY ShapeParts DEF FacesInv, JobsShape
<1>a. ASSUME job'[o] = job[o] \/ job'[o] = [job[o] EXCEPT !.calm = FALSE] PROVE FALSE
  BY <1>0, <1>a DEF JobType
<1>b. ASSUME NEW r, StartJob(r), job[r] = None PROVE FALSE
  BY <1>a, <1>b DEF StartJob, NoJob
<1>1. CASE WorkerStep
  <2>1. Disturb \/ job' = job \/ (StartJob("worker") /\ job["worker"] = None)
    BY <1>1 DEF WorkerStep, Wake, StartSweep, FinishSweeps, Detect, FinishItem, EndSweep, NextItem,
                AssignFace, FacesInv, WorkerWaits
  <2> QED BY <1>a, <1>b, <2>1 DEF Disturb
<1>2. ASSUME NEW r \in Owner, JobStep(r) \/ ReclusterRaises(r), ~Replace(o) PROVE FALSE
  <2>1. r = o
    <3>1. \E x : job' = [job EXCEPT ![r] = x]
      BY <1>2 DEF JobStep, ReadFaces, Regroup, SetPersonUnlinks, SetPersonEnds, SetPersonReads,
                  Replace, ReclusterReturns, ReclusterRaises
    <3> QED BY <1>0, <1>a, <3>1 DEF JobsShape
  <2>2. CASE SetPersonUnlinks(o) \/ SetPersonEnds(o) \/ \E f \in Face : SetPersonReads(o, f)
    <3>1. PICK j \in JobType : job' = [job EXCEPT ![o] = j] /\ j.pc = "applying"
      BY <2>2, SetPersonJob
    <3> QED BY <1>0, <3>1 DEF JobsShape
  <2> QED BY <1>2, <2>1, <2>2 DEF JobStep, ReadFaces, Regroup, ReclusterReturns, ReclusterRaises
<1>3. CASE Request
  <2>1. CASE Recluster
    BY <1>b, <2>1 DEF Recluster
  <2>2. CASE ~Recluster
    <3>1. Disturb \/ job' = job
      BY <1>3, <2>2 DEF Request, DeletePerson, Merge, NamePerson, Detach, Reassign, Purge, SetTrashed,
                        Corrected
    <3> QED BY <1>a, <3>1 DEF Disturb
  <2> QED BY <2>1, <2>2
<1>4. CASE (\E i \in Item : Upload(i)) \/ UNCHANGED facesVars
  BY <1>4, <1>a DEF Upload, facesVars
<1>5. CASE \E bump \in BOOLEAN : Restart(bump)
  BY <1>5 DEF Restart
<1> QED BY <1>1, <1>2, <1>3, <1>4, <1>5 DEF FacesNext

LEMMA RegroupedStep ==
  ASSUME FacesInv, CalmInv, [FacesNext]_facesVars, NEW o \in Owner, job[o] # None, job[o].calm,
         job[o].pc = "applying", job'[o] # None, job'[o].pc = "done"
  PROVE  LET C == Components(fs.entry)
         IN  /\ \A p \in Person : people'[p] # None => people'[p].made \in C
             /\ \A B \in C : \E p \in Person : people'[p] # None /\ people'[p].made = B
             /\ \A p \in Known : FacesOf(p, job[o].old) \in C =>
                   (people'[p] # None /\ people'[p].name = people[p].name)
<1> DEFINE j == job[o]
           C == Components(fs.entry)
<1>0. people \in Folk /\ j \in JobType /\ j.old \in Entered
  BY DEF FacesInv, FacesShape, JobType, Entered
<1>1. people' = j.next
  BY EndedBy DEF Replace
<1>2. fs.entry = Reached(j) /\ Planned(j, people)
  BY DEF CalmInv, Calm, CalmSound, Progress
<1>a. PICK fresh \in SUBSET Person : \E g \in Regroupings(j.old, fresh) :
        /\ fresh \cap InUse(j.old) = {} /\ j.plan = PlanOf(g, j.old) /\ j.next = NewPeople(g, people)
  BY <1>2 DEF Planned
<1>3. PICK g \in Regroupings(j.old, fresh) :
        /\ fresh \cap InUse(j.old) = {} /\ j.plan = PlanOf(g, j.old) /\ j.next = NewPeople(g, people)
  BY <1>a
<1>4. /\ DOMAIN g = Components(j.old) /\ \A B \in DOMAIN g : g[B] \in Person
      /\ \A B \in DOMAIN g : \A f \in B : j.plan[f] = g[B]
      /\ \A f \in In(j.old) : \E B \in DOMAIN g : f \in B
  BY <1>0, <1>3, PlanFacts
<1>5. C = DOMAIN g
  <2>1. \A f \in In(j.old) : j.plan[f] \in Person
    BY <1>4
  <2> QED BY <1>0, <1>2, <1>4, <2>1, ReachedSame
<1>6. /\ \A B \in DOMAIN g : /\ people'[g[B]] # None /\ people'[g[B]].made = B
                             /\ people'[g[B]].name = IF people[g[B]] = None THEN None
                                                     ELSE people[g[B]].name
      /\ \A p \in Person : people'[p] # None => \E B \in DOMAIN g : g[B] = p
  BY <1>0, <1>1, <1>3, NewPeopleFacts
<1>7. ASSUME NEW p \in Known, FacesOf(p, j.old) \in C
      PROVE  people'[p] # None /\ people'[p].name = people[p].name
  <2>1. p \in Person /\ people[p] # None
    BY DEF Known
  <2>2. g[FacesOf(p, j.old)] = p
    BY <1>0, <1>3, <1>4, <1>5, <1>7, <2>1, OwnKept
  <2> QED BY <1>5, <1>6, <1>7, <2>1, <2>2
<1> HIDE DEF j, C
<1>8. \A p \in Person : people'[p] # None => people'[p].made \in C
  BY <1>5, <1>6
<1>9. \A B \in C : \E p \in Person : people'[p] # None /\ people'[p].made = B
  BY <1>4, <1>5, <1>6
<1> QED BY <1>7, <1>8, <1>9 DEF C, j

(* An undisturbed recluster of people.py makes exactly the chains of alike  *)
(* faces into people, and a person whose faces are one chain keeps its id   *)
(* and its name, however many faces and people there are and whichever of   *)
(* equally large groups it takes first.                                     *)
THEOREM FacesRegrouped == FacesSpec => Regrouped
<1>1. RecordsInv /\ [FacesNext]_facesVars =>
        [\A o \in Owner : (job[o] # None /\ job[o].calm /\ job[o].pc = "applying"
                         /\ job'[o] # None /\ job'[o].pc = "done") =>
         LET C == Components(fs.entry)
         IN  /\ \A p \in Person : people'[p] # None => people'[p].made \in C
             /\ \A B \in C : \E p \in Person : people'[p] # None /\ people'[p].made = B
             /\ \A p \in Known : FacesOf(p, job[o].old) \in C =>
                   (people'[p] # None /\ people'[p].name = people[p].name)]_facesVars
  BY RegroupedStep DEF RecordsInv
<1> QED BY <1>1, RecordsAlways, PTL DEF FacesSpec, Regrouped
=============================================================================
