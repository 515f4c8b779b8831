---------------------------- MODULE UpkeepProofs ----------------------------
(***************************************************************************)
(* What the display and the server do on the side, proved for any number   *)
(* of files, commits and failures: that between unattended updates the     *)
(* service is up, that a thumbnail is true to its photo, that the frame's  *)
(* cache of downloads stays within the limits of its card and a photo in   *)
(* it until its turn, that an upload nobody else's overlaps is stored      *)
(* whole, and that a setup that comes to its end has repaired what earlier *)
(* ones left.                                                              *)
(***************************************************************************)
EXTENDS Updater, Thumbs, FrameCache, Staging, Provision, ListsProofs, FiniteSetTheorems

(***************************************************************************)
(* The service is up between unattended updates.  While nothing has gone   *)
(* wrong, what runs at rest is what is on the disk and works, so the       *)
(* revision the script notes when it sets out is a good one, and going     *)
(* back to it ends with that revision and its own dependencies.            *)
(***************************************************************************)
Phases == {"rest", "reset", "sync", "restart", "check"}

ScriptShape ==
    /\ script = [at |-> script.at, phase |-> script.phase, local |-> script.local]
    /\ script.at \in Phases
    /\ script.phase \in {"new", "back"}

(* From a restart to the end of the health check nothing on the disk moves. *)
CheckedIsDisk == script.at = "check" => running = OnDisk

RestsWell == script.at = "rest" => Works(running) /\ running = OnDisk

(* Under way, the revision to go back to is good, and on the way back it is *)
(* on the disk, with its dependencies once they are installed.              *)
KnowsTheWayBack ==
    script.at # "rest" =>
        /\ script.local \in Good
        /\ script.phase = "back" /\ script.at # "reset" => head = script.local
        /\ script.phase = "back" /\ script.at \in {"restart", "check"} => deps = Needs[head]

UpInv ==
    /\ ScriptShape
    /\ CheckedIsDisk
    /\ excuses = {} => RestsWell /\ KnowsTheWayBack

LEMMA UpInitially == UpdaterInit => UpInv
<1> SUFFICES ASSUME UpdaterInit PROVE UpInv
  OBVIOUS
<1>1. ScriptShape /\ CheckedIsDisk
  BY DEF UpdaterInit, Rest, ScriptShape, Phases, CheckedIsDisk
<1>2. RestsWell /\ KnowsTheWayBack
  BY UpdaterAssumption DEF UpdaterInit, Rest, RestsWell, KnowsTheWayBack, Works, OnDisk
<1> QED BY <1>1, <1>2 DEF UpInv

LEMMA UpKept == UpInv /\ [UpdaterNext]_updaterVars => UpInv'
<1> SUFFICES ASSUME UpInv, [UpdaterNext]_updaterVars PROVE UpInv'
  OBVIOUS
<1> USE DEF UpInv, ScriptShape, Phases, CheckedIsDisk, RestsWell, KnowsTheWayBack, OnDisk
<1>1. CASE Push
  BY <1>1 DEF Push, Works
<1>2. CASE Fetch
  BY <1>2 DEF Fetch, Works
<1>3. CASE Reset
  BY <1>3 DEF Reset, Works
<1>4. CASE Sync
  BY <1>4 DEF Sync, Works
<1>5. CASE RestartService
  BY <1>5 DEF RestartService, Works
<1>6. CASE Check
  (* A service that works is reported active; on the way back it works.     *)
  <2>1. PICK active \in BOOLEAN :
            /\ Works(running) => active
            /\ script' = IF active THEN Rest ELSE Unwell
            /\ excuses' = IF Works(running) THEN {}
                          ELSE IF active THEN excuses \cup {"fooled"} ELSE excuses
    BY <1>6 DEF Check
  <2>2. script.at = "check" /\ running = OnDisk /\ UNCHANGED <<head, deps, running>>
    BY <1>6 DEF Check
  <2>3. CASE active /\ Works(running)
    BY <2>1, <2>2, <2>3 DEF Rest, Works
  <2>4. CASE active /\ ~Works(running)
    <3>1. excuses' # {}
      BY <2>1, <2>4
    <3> QED BY <2>1, <2>2, <2>4, <3>1 DEF Rest
  <2>5. CASE ~active
    <3>1. ~Works(running) /\ excuses' = excuses
      BY <2>1, <2>5
    <3>2. excuses = {} => script.phase = "new"
      BY <2>2, <3>1 DEF Works
    <3> QED BY <2>1, <2>2, <2>5, <3>1, <3>2 DEF Unwell, Rest
  <2> QED BY <2>3, <2>4, <2>5
<1>7. CASE Quit
  <2>1. excuses' # {}
    BY <1>7 DEF Quit
  <2> QED BY <1>7, <2>1 DEF Quit, Rest
<1>8. CASE SelfRestart
  BY <1>8 DEF SelfRestart, Works
<1>9. CASE PowerLoss
  <2>1. excuses' = {} => script.at = "rest" /\ excuses = {}
    BY <1>9 DEF PowerLoss
  <2> QED BY <1>9, <2>1 DEF PowerLoss, Rest, Works
<1>10. CASE UNCHANGED updaterVars
  BY <1>10 DEF updaterVars, Works
<1> QED
  BY <1>1, <1>2, <1>3, <1>4, <1>5, <1>6, <1>7, <1>8, <1>9, <1>10 DEF UpdaterNext

(* Between two updates the service is up, unless something is known to have *)
(* gone wrong since it was last found well: for every number of commits and *)
(* power losses and whichever commits are good (provision.py:31-72).        *)
THEOREM UpdaterUp == UpdaterSpec => []UpBetweenUpdates
<1>1. UpInv => UpBetweenUpdates
  BY DEF UpInv, RestsWell, UpBetweenUpdates
<1> QED BY <1>1, UpInitially, UpKept, PTL DEF UpdaterSpec

(***************************************************************************)
(* A thumbnail is true to its photo.  The warmer writes what it read, and  *)
(* a change of the photo in between either marks the item as spoiled or    *)
(* takes the file away from under the warmer.                              *)
(***************************************************************************)
PhotoType == [state : {"new", "live", "trash", "gone"}, rev : Nat]
FileType == [rev : Nat, whole : BOOLEAN]

ThumbShape ==
    /\ photo \in [Item -> PhotoType]
    /\ thumb \in [Item -> FileType \cup {Absent}]
    /\ warmer \in [at : {"idle", "read", "write"}, todo : SUBSET Item,
                   item : Item \cup {Absent}, rev : Nat, linked : BOOLEAN]
    /\ warmer.at # "idle" => warmer.item \in Item

(* What the thread has read is the photo, unless the item is spoiled.       *)
ReadIsPhoto ==
    warmer.at = "read" /\ warmer.item \notin spoiled =>
        /\ photo[warmer.item].state \in {"live", "trash"}
        /\ warmer.rev = photo[warmer.item].rev

(* What it writes is in the cache while it is linked there.                 *)
LinkedIsThere ==
    warmer.linked =>
        /\ warmer.at = "write"
        /\ thumb[warmer.item] = [rev |-> warmer.rev, whole |-> FALSE]

Shows(i) ==
    /\ photo[i].state \in {"live", "trash"}
    /\ thumb[i].rev = photo[i].rev
    /\ thumb[i].whole \/ (warmer.linked /\ warmer.item = i)

ThumbInv ==
    /\ ThumbShape
    /\ ReadIsPhoto
    /\ LinkedIsThere
    /\ \A i \in Item \ spoiled : thumb[i] # Absent => Shows(i)

LEMMA ThumbInitially == ThumbInit => ThumbInv
  BY DEF ThumbInit, Resting, ThumbInv, ThumbShape, PhotoType, FileType, ReadIsPhoto, LinkedIsThere

LEMMA ThumbKept == ThumbInv /\ [ThumbNext]_thumbVars => ThumbInv'
<1> SUFFICES ASSUME ThumbInv, [ThumbNext]_thumbVars PROVE ThumbInv'
  OBVIOUS
<1> USE AbsentAssumption
        DEF ThumbInv, ThumbShape, ReadIsPhoto, LinkedIsThere, Shows
<1>0. warmer.at # "idle" => warmer.item \in Item
  OBVIOUS
<1>w. ASSUME warmer.linked
       PROVE  thumb[warmer.item] # Absent /\ thumb[warmer.item].rev = warmer.rev
  <2> DEFINE file == [rev |-> warmer.rev, whole |-> FALSE]
  <2>1. file \in [rev : Nat, whole : BOOLEAN] /\ file.rev = warmer.rev
    OBVIOUS
  <2>2. file # Absent
    BY <2>1, Zenon
  <2>3. thumb[warmer.item] = file
    BY <1>w
  <2> QED BY <2>1, <2>2, <2>3, Zenon
<1>1. CASE WarmList
  BY <1>1 DEF WarmList, Listed
<1>2. ASSUME NEW i \in Item, WarmFails(i) PROVE ThumbInv'
  BY <1>2 DEF WarmFails, Resting
<1>3. ASSUME NEW i \in Item, WarmRead(i) PROVE ThumbInv'
  BY <1>3 DEF WarmRead, PhotoType
<1>4. CASE WarmOpen
  BY <1>0, <1>4 DEF WarmOpen, FileType
<1>5. CASE WarmClose
  <2>0. /\ warmer.item \in Item
        /\ UNCHANGED <<photo, spoiled>> /\ warmer' = Resting(warmer.todo)
        /\ thumb' = IF warmer.linked
                    THEN [thumb EXCEPT ![warmer.item] = [rev |-> warmer.rev, whole |-> TRUE]]
                    ELSE thumb
    BY <1>0, <1>5 DEF WarmClose
  <2>1. ThumbShape'
    BY <2>0 DEF Resting, FileType
  <2>2. ReadIsPhoto' /\ LinkedIsThere'
    BY <2>0 DEF Resting
  <2>3. ASSUME NEW j \in Item, j \notin spoiled', thumb'[j] # Absent PROVE Shows(j)'
    <3>1. CASE warmer.linked /\ warmer.item = j
      <4>1. thumb[j] # Absent /\ thumb[j].rev = warmer.rev
        BY <1>w, <3>1
      <4>2. thumb'[j] = [rev |-> warmer.rev, whole |-> TRUE]
        BY <2>0, <3>1
      <4> QED BY <2>0, <2>3, <4>1, <4>2
    <3>2. CASE ~(warmer.linked /\ warmer.item = j)
      <4>1. thumb'[j] = thumb[j] /\ thumb[j].whole
        BY <2>0, <2>3, <3>2
      <4> QED BY <2>0, <2>3, <3>2, <4>1
    <3> QED BY <3>1, <3>2
  <2> QED BY <2>1, <2>2, <2>3
<1>6. ASSUME NEW i \in Item, ThumbRoute(i) PROVE ThumbInv'
  <2>1. ThumbShape'
    BY <1>0, <1>6 DEF ThumbRoute, FileType, PhotoType
  <2>2. ReadIsPhoto'
    BY <1>0, <1>6 DEF ThumbRoute, FileType, PhotoType
  <2>3. LinkedIsThere'
    <3>1. warmer.linked => warmer.item # i
      BY <1>w, <1>6 DEF ThumbRoute
    <3> QED BY <1>0, <1>6, <3>1 DEF ThumbRoute
  <2>4. ASSUME NEW j \in Item, j \notin spoiled', thumb'[j] # Absent PROVE Shows(j)'
    BY <1>0, <1>6, <2>4 DEF ThumbRoute, FileType, PhotoType
  <2> QED BY <2>1, <2>2, <2>3, <2>4
<1>7. ASSUME NEW i \in Item, Upload(i) PROVE ThumbInv'
  BY <1>0, <1>7 DEF Upload, PhotoType
<1>8. ASSUME NEW i \in Item, Bin(i) \/ Unbin(i) PROVE ThumbInv'
  <2>1. ThumbShape'
    BY <1>0, <1>8 DEF Bin, Unbin, PhotoType
  <2>2. ReadIsPhoto'
    BY <1>0, <1>8 DEF Bin, Unbin, PhotoType
  <2>3. LinkedIsThere'
    BY <1>0, <1>8 DEF Bin, Unbin, PhotoType
  <2>4. ASSUME NEW j \in Item, j \notin spoiled', thumb'[j] # Absent PROVE Shows(j)'
    BY <1>0, <1>8, <2>4 DEF Bin, Unbin, PhotoType
  <2> QED BY <2>1, <2>2, <2>3, <2>4
<1>9. ASSUME NEW i \in Item, Purge(i) PROVE ThumbInv'
  <2>1. ThumbShape'
    BY <1>0, <1>9 DEF Purge, DropThumbs, On, PhotoType, FileType
  <2>2. ReadIsPhoto'
    BY <1>0, <1>9 DEF Purge, DropThumbs, On, PhotoType, FileType
  <2>3. LinkedIsThere'
    BY <1>0, <1>9 DEF Purge, DropThumbs, On, PhotoType, FileType
  <2>4. ASSUME NEW j \in Item, j \notin spoiled', thumb'[j] # Absent PROVE Shows(j)'
    BY <1>0, <1>9, <2>4 DEF Purge, DropThumbs, On, PhotoType, FileType
  <2> QED BY <2>1, <2>2, <2>3, <2>4
<1>10. ASSUME NEW i \in Item, Transform(i) PROVE ThumbInv'
  <2>0. /\ photo[i].state = "live"
        /\ photo' \in [Item -> PhotoType]
        /\ photo'[i].state = "live"
        /\ \A j \in Item \ {i} : photo'[j] = photo[j]
    BY <1>10 DEF Transform, PhotoType
  <2>1. CASE DropThumbs(i)
    <3>1. ThumbShape'
      BY <1>0, <2>0, <2>1 DEF DropThumbs, On
    <3>2. ReadIsPhoto'
      BY <1>0, <2>0, <2>1 DEF DropThumbs, On
    <3>3. LinkedIsThere'
      BY <1>0, <2>0, <2>1 DEF DropThumbs, On
    <3>4. ASSUME NEW j \in Item, j \notin spoiled', thumb'[j] # Absent PROVE Shows(j)'
      BY <1>0, <2>0, <2>1, <3>4 DEF DropThumbs, On, FileType
    <3> QED BY <3>1, <3>2, <3>3, <3>4
  <2>2. CASE /\ UNCHANGED <<thumb, warmer>>
             /\ spoiled' = IF thumb[i] # Absent \/ On(i, "read") THEN spoiled \cup {i}
                           ELSE spoiled
    BY <1>0, <2>0, <2>2 DEF On
  <2> QED BY <1>10, <2>1, <2>2 DEF Transform
<1>11. CASE Crash
  BY <1>0, <1>11 DEF Crash, Resting
<1>12. CASE UNCHANGED thumbVars
  BY <1>12 DEF thumbVars
<1> QED
  BY <1>1, <1>2, <1>3, <1>4, <1>5, <1>6, <1>7, <1>8, <1>9, <1>10, <1>11, <1>12
  DEF ThumbNext, Warm

(* A thumbnail shows its photo as it is, whole, and goes with it, except    *)
(* for items where an edit met the warmer between reading and writing, a    *)
(* transform failed half way or the server died on a file: for any library, *)
(* any undecodable files and any number of edits (thumbs.py:92-131).        *)
THEOREM ThumbsStayTrue == ThumbSpec => []ThumbsTrue
<1>1. ThumbInv => ThumbsTrue
  BY DEF ThumbInv, LinkedIsThere, Shows, ThumbsTrue, On
<1> QED BY <1>1, ThumbInitially, ThumbKept, PTL DEF ThumbSpec

(***************************************************************************)
(* The frame's cache stays within its limits.  Eviction walks the index    *)
(* from its oldest file and stops when what is left is within them; what   *)
(* it may not evict it steps over, so the sums are followed along the      *)
(* walk.  Everything on the card but a download under way is in the index. *)
(***************************************************************************)
Card == Path \X {"file", "tmp"}
Weights == [f \in Card |-> Size(f)]

LEMMA WeightsType == Weights \in [Card -> Nat]
  BY CacheAssumption DEF Weights, Card, Size

LEMMA TotalIs == ASSUME NEW s \in Seq(Card) PROVE TotalBytes(s) = Sum(Weights, s)
<1> DEFINE v == [f \in Elements(s) |-> Size(f)]
<1>1. Elements(s) \subseteq Card
  BY ElementsOf
<1>2. v \in [Elements(s) -> Nat] /\ \A f \in Elements(s) : v[f] = Weights[f]
  BY <1>1, WeightsType DEF Weights
<1>3. TotalBytes(s) = Sum(v, s)
  BY DEF TotalBytes
<1> HIDE DEF v
<1> QED BY <1>2, <1>3, WeightsType, SumSame

(* What more files weigh is over the limits when what fewer weigh is.       *)
LEMMA OverGrows ==
  ASSUME NEW m \in Int, NEW n \in Int, m <= n, NEW a \in Int, NEW b \in Int, a <= b, Over(m, a)
  PROVE  Over(n, b)
  BY CacheAssumption DEF Over

(* The eviction's loop over files of the card, begun at any count and sum.  *)
EvictRuns == [kept : Seq(Card), count : Int, total : Int]
Stays(f, keep, locked, disk) == f = keep \/ f \in locked \/ f \notin Elements(disk)
Evicts(keep, locked, disk) ==
    [p \in EvictRuns \X Card |->
       IF ~Over(p[1].count, p[1].total) \/ Stays(p[2], keep, locked, disk)
       THEN RunKeep(p[1], p[2]) ELSE RunDrop(p[1], p[2])]

LEMMA RunTypes ==
  ASSUME NEW run \in EvictRuns, NEW f \in Card
  PROVE  /\ RunKeep(run, f) \in EvictRuns /\ RunDrop(run, f) \in EvictRuns
         /\ RunKeep(run, f).kept = Append(run.kept, f) /\ RunKeep(run, f).count = run.count
         /\ RunKeep(run, f).total = run.total
         /\ RunDrop(run, f).kept = run.kept /\ RunDrop(run, f).count = run.count - 1
         /\ RunDrop(run, f).total = run.total - Weights[f]
<1>1. Append(run.kept, f) \in Seq(Card) /\ run.count - 1 \in Int
  BY DEF EvictRuns
<1>2. Weights[f] = Size(f) /\ Weights[f] \in Nat
  BY WeightsType DEF Weights
<1>3. run.total - Size(f) \in Int
  BY <1>2 DEF EvictRuns
<1> QED BY <1>1, <1>2, <1>3 DEF EvictRuns, RunKeep, RunDrop

LEMMA EvictsType == \A keep, locked, disk : Evicts(keep, locked, disk) \in [EvictRuns \X Card -> EvictRuns]
  BY RunTypes DEF Evicts

LEMMA EvictIs ==
  ASSUME NEW index \in Seq(Card), NEW keep, NEW locked, NEW disk
  PROVE  /\ Evict(index, keep, locked, disk) = Reduce(Evicts(keep, locked, disk), RunStart(index), index)
         /\ RunStart(index) \in EvictRuns
<1> DEFINE E == Elements(index)
           small == [p \in Run(index) \X E |->
                       IF ~Over(p[1].count, p[1].total) \/ Stays(p[2], keep, locked, disk)
                       THEN RunKeep(p[1], p[2]) ELSE RunDrop(p[1], p[2])]
           big == Evicts(keep, locked, disk)
           b == RunStart(index)
<1>1. E \subseteq Card /\ index \in Seq(E) /\ Seq(E) \subseteq Seq(Card)
  <2>1. E \subseteq Card /\ index \in Seq(E)
    BY ElementsOf
  <2> QED BY <2>1
<1>2. TotalBytes(index) \in Nat
  BY TotalIs, WeightsType, SumType
<1>3. b \in Run(index) /\ b \in EvictRuns
  <2>1. <<>> \in Seq(E) /\ <<>> \in Seq(Card) /\ Len(index) \in Int
    OBVIOUS
  <2> QED BY <1>2, <2>1 DEF RunStart, Run, EvictRuns
<1>4. Evict(index, keep, locked, disk) = Reduce(small, b, index)
  <2>1. small = [p \in Run(index) \X Elements(index) |->
              IF \/ ~Over(p[1].count, p[1].total) \/ p[2] = keep
                 \/ p[2] \in locked \/ p[2] \notin Elements(disk)
              THEN RunKeep(p[1], p[2]) ELSE RunDrop(p[1], p[2])]
    BY DEF Stays
  <2> QED BY <2>1 DEF Evict
<1>5. Run(index) \subseteq EvictRuns
  BY <1>1 DEF Run, EvictRuns
<1>6. small \in [Run(index) \X E -> Run(index)]
  <2> SUFFICES ASSUME NEW run \in Run(index), NEW f \in E
               PROVE  RunKeep(run, f) \in Run(index) /\ RunDrop(run, f) \in Run(index)
    OBVIOUS
  <2>1. f \in Card /\ Size(f) \in Nat
    BY <1>1, WeightsType DEF Weights
  <2>2. Append(run.kept, f) \in Seq(E) /\ run.count - 1 \in Int /\ run.total - Size(f) \in Int
    BY <2>1 DEF Run
  <2> QED BY <2>2 DEF Run, RunKeep, RunDrop
<1>7. Wider(Run(index), E, small, EvictRuns, Card, big)
  BY <1>1, <1>5 DEF Wider, Evicts
<1>8. big \in [EvictRuns \X Card -> EvictRuns]
  BY EvictsType
<1> HIDE DEF small, big, b, E
<1>9. SameResult(small, big, b, index)
  BY <1>1, <1>3, <1>6, <1>7, <1>8, ReduceAgrees, Zenon
<1> QED BY <1>3, <1>4, <1>9 DEF SameResult, big, b

(* What it has kept is counted and weighed; while too much is left, all     *)
(* that was kept had to stay.                                               *)
Loop(run, b, s, keep, locked, disk) ==
    /\ run \in EvictRuns
    /\ Elements(run.kept) \subseteq Elements(s)
    /\ run.count = b.count - Len(s) + Len(run.kept)
    /\ run.total = b.total - Sum(Weights, s) + Sum(Weights, run.kept)
    /\ Over(run.count, run.total) =>
          \A f \in Elements(run.kept) : Stays(f, keep, locked, disk)

LEMMA OneMore ==
  \A a \in Int : \A m, n \in Nat : /\ a - (m + 1) + (n + 1) = a - m + n
                                   /\ a - (m + 1) + n = (a - m + n) - 1
  OBVIOUS

LEMMA LoopStep ==
  ASSUME NEW run, NEW b \in EvictRuns, NEW s \in Seq(Card), NEW x \in Card,
         NEW keep, NEW locked, NEW disk, Loop(run, b, s, keep, locked, disk)
  PROVE  Loop(Evicts(keep, locked, disk)[<<run, x>>], b, Append(s, x), keep, locked, disk)
<1> DEFINE v == Evicts(keep, locked, disk)[<<run, x>>]
           w == Weights[x]
<1>1. run \in EvictRuns /\ run.kept \in Seq(Card) /\ run.count \in Int /\ run.total \in Int
      /\ b.count \in Int /\ b.total \in Int
  BY DEF Loop, EvictRuns
<1>2. v = IF ~Over(run.count, run.total) \/ Stays(x, keep, locked, disk)
          THEN RunKeep(run, x) ELSE RunDrop(run, x)
  BY <1>1 DEF Evicts
<1>3. /\ Elements(Append(s, x)) = Elements(s) \cup {x}
      /\ Elements(Append(run.kept, x)) = Elements(run.kept) \cup {x}
      /\ Len(Append(s, x)) = Len(s) + 1 /\ Len(Append(run.kept, x)) = Len(run.kept) + 1
      /\ Len(s) \in Nat /\ Len(run.kept) \in Nat
  BY <1>1, ElementsAppend
<1>4. /\ Sum(Weights, Append(s, x)) = Sum(Weights, s) + w /\ Sum(Weights, s) \in Nat /\ w \in Nat
      /\ Sum(Weights, Append(run.kept, x)) = Sum(Weights, run.kept) + w
      /\ Sum(Weights, run.kept) \in Nat
  BY <1>1, WeightsType, SumAppend, SumType
<1> HIDE DEF v, w
<1>5. CASE ~Over(run.count, run.total) \/ Stays(x, keep, locked, disk)
  <2>1. /\ v \in EvictRuns /\ v.kept = Append(run.kept, x) /\ v.count = run.count
        /\ v.total = run.total
    BY <1>1, <1>2, <1>5, RunTypes
  <2>2. v.count = b.count - Len(Append(s, x)) + Len(v.kept)
    <3>1. Len(v.kept) = Len(run.kept) + 1 /\ Len(Append(s, x)) = Len(s) + 1
      BY <1>3, <2>1
    <3>2. run.count = b.count - Len(s) + Len(run.kept)
      BY DEF Loop
    <3>3. b.count - (Len(s) + 1) + (Len(run.kept) + 1) = b.count - Len(s) + Len(run.kept)
      BY <1>1, <1>3, OneMore, Zenon
    <3> QED BY <2>1, <3>1, <3>2, <3>3, Zenon
  <2>3. v.total = b.total - Sum(Weights, Append(s, x)) + Sum(Weights, v.kept)
    BY <1>1, <1>4, <2>1 DEF Loop
  <2> QED BY <1>3, <1>5, <2>1, <2>2, <2>3 DEF Loop, v
<1>6. CASE Over(run.count, run.total) /\ ~Stays(x, keep, locked, disk)
  <2>1. /\ v \in EvictRuns /\ v.kept = run.kept /\ v.count = run.count - 1
        /\ v.total = run.total - w
    BY <1>1, <1>2, <1>6, RunTypes DEF w
  <2>2. v.count = b.count - Len(Append(s, x)) + Len(v.kept)
    <3>1. Len(v.kept) = Len(run.kept) /\ Len(Append(s, x)) = Len(s) + 1
      BY <1>3, <2>1
    <3>2. run.count = b.count - Len(s) + Len(run.kept)
      BY DEF Loop
    <3>3. b.count - (Len(s) + 1) + Len(run.kept) = (b.count - Len(s) + Len(run.kept)) - 1
      BY <1>1, <1>3, OneMore, Zenon
    <3>4. v.count = (b.count - Len(s) + Len(run.kept)) - 1
      BY <2>1, <3>2, Zenon
    <3>5. b.count - Len(Append(s, x)) + Len(v.kept) = b.count - (Len(s) + 1) + Len(run.kept)
      BY <3>1, Zenon
    <3> QED BY <3>3, <3>4, <3>5, Zenon
  <2>3. v.total = b.total - Sum(Weights, Append(s, x)) + Sum(Weights, v.kept)
    BY <1>1, <1>4, <2>1 DEF Loop
  <2>4. Elements(v.kept) \subseteq Elements(Append(s, x))
    BY <1>3, <2>1 DEF Loop
  <2> QED BY <1>6, <2>1, <2>2, <2>3, <2>4 DEF Loop, v
<1> QED BY <1>5, <1>6

LEMMA LoopEnd ==
  ASSUME NEW b \in EvictRuns, b.kept = <<>>, NEW keep, NEW locked, NEW disk
  PROVE  \A s \in Seq(Card) : Loop(Reduce(Evicts(keep, locked, disk), b, s), b, s, keep, locked, disk)
<1> DEFINE op == Evicts(keep, locked, disk)
           P == {s \in Seq(Card) : Loop(Reduce(op, b, s), b, s, keep, locked, disk)}
<1>0. op \in [EvictRuns \X Card -> EvictRuns]
  BY EvictsType
<1> HIDE DEF op
<1>1. <<>> \in P
  <2>1. Reduce(op, b, <<>>) = b
    BY <1>0, ReduceEmpty, Zenon
  <2>2. Sum(Weights, <<>>) = 0 /\ Elements(<<>>) = {} /\ Len(<<>>) = 0 /\ <<>> \in Seq(Card)
    BY WeightsType, SumEmpty, ElementsEmpty
  <2>3. b.count \in Int /\ b.total \in Int
    BY DEF EvictRuns
  <2>4. Loop(b, b, <<>>, keep, locked, disk)
    BY <2>2, <2>3 DEF Loop
  <2> QED BY <2>1, <2>2, <2>4
<1>2. ASSUME NEW s \in Seq(Card), NEW x \in Card, s \in P PROVE Append(s, x) \in P
  <2>1. StepsOn(op, b, s, x)
    BY <1>0, ReduceAppend, Zenon
  <2>2. Loop(Reduce(op, b, s), b, s, keep, locked, disk)
    BY <1>2
  <2>3. Loop(op[<<Reduce(op, b, s), x>>], b, Append(s, x), keep, locked, disk)
    BY <2>2, LoopStep DEF op
  <2>4. Append(s, x) \in Seq(Card)
    OBVIOUS
  <2> QED BY <2>1, <2>3, <2>4 DEF StepsOn
<1> HIDE DEF P
<1>3. \A s \in Seq(Card) : s \in P
  BY <1>1, <1>2, SequencesOn
<1> QED BY <1>3 DEF P, op

LEMMA EvictFacts ==
  ASSUME NEW index \in Seq(Card), NEW keep, NEW locked, NEW disk
  PROVE  LET run == Evict(index, keep, locked, disk)
         IN  /\ run.kept \in Seq(Card) /\ Elements(run.kept) \subseteq Elements(index)
             /\ Over(Len(run.kept), TotalBytes(run.kept)) =>
                   \A f \in Elements(run.kept) : Stays(f, keep, locked, disk)
<1> DEFINE run == Evict(index, keep, locked, disk)
           b == RunStart(index)
<1>1. /\ b \in EvictRuns /\ b.kept = <<>> /\ b.count = Len(index) /\ b.total = Sum(Weights, index)
      /\ run = Reduce(Evicts(keep, locked, disk), b, index)
  BY EvictIs, TotalIs DEF RunStart
<1> HIDE DEF run, b
<1>2. Loop(run, b, index, keep, locked, disk)
  BY <1>1, LoopEnd
<1>3. run.kept \in Seq(Card)
  BY <1>2 DEF Loop, EvictRuns
<1>4. Len(index) \in Nat /\ Len(run.kept) \in Nat
      /\ Sum(Weights, index) \in Nat /\ Sum(Weights, run.kept) \in Nat
  BY <1>3, WeightsType, SumType
<1>5. run.count = Len(run.kept) /\ run.total = TotalBytes(run.kept)
  <2>1. run.count = b.count - Len(index) + Len(run.kept)
        /\ run.total = b.total - Sum(Weights, index) + Sum(Weights, run.kept)
    BY <1>2 DEF Loop
  <2> QED BY <1>1, <1>3, <1>4, <2>1, TotalIs
<1> QED BY <1>2, <1>3, <1>5 DEF Loop, run

(* The file just downloaded is the last entry that is kept.                 *)
LEMMA EvictLast ==
  ASSUME NEW r \in Seq(Card), NEW keep \in Card, NEW locked, NEW disk
  PROVE  LET kept == Evict(Append(r, keep), keep, locked, disk).kept
         IN  kept # <<>> /\ Last(kept) = keep
<1> DEFINE index == Append(r, keep)
           op == Evicts(keep, locked, disk)
           b == RunStart(index)
           before == Reduce(op, b, r)
<1>1. op \in [EvictRuns \X Card -> EvictRuns] /\ index \in Seq(Card)
  <2>1. index \in Seq(Card)
    OBVIOUS
  <2> QED BY <2>1, EvictsType
<1>2. b \in EvictRuns /\ Evict(index, keep, locked, disk) = Reduce(op, b, index)
  BY <1>1, EvictIs
<1> HIDE DEF op, b
<1>3. StepsOn(op, b, r, keep) /\ before \in EvictRuns
  BY <1>1, <1>2, ReduceAppend, ReduceType, Zenon
<1>4. Evict(index, keep, locked, disk) = op[<<before, keep>>]
  BY <1>2, <1>3 DEF StepsOn
<1> HIDE DEF before
<1>5. op[<<before, keep>>] = RunKeep(before, keep)
  BY <1>3 DEF op, Evicts, Stays
<1>6. Evict(index, keep, locked, disk).kept = Append(before.kept, keep)
  BY <1>3, <1>4, <1>5, RunTypes
<1>7. before.kept \in Seq(Card)
  BY <1>3 DEF EvictRuns
<1> QED BY <1>6, <1>7 DEF Last, index

-----------------------------------------------------------------------------
(* The files but the one being downloaded.                                  *)
Whole == IF loading = <<>> THEN flash ELSE Without(flash, Temp(loading[1]))

CacheInv ==
    /\ flash \in Seq(Card) /\ Distinct(flash)
    /\ \/ loading = <<>>
       \/ \E path \in Path : loading = <<path>> /\ File(path) \notin Elements(flash)
    /\ entries # NotYet => /\ entries \in Seq(Card)
                           /\ Elements(Whole) \subseteq Elements(entries)
                           /\ \/ ~Over(Len(Whole), TotalBytes(Whole))
                              \/ Elements(Whole) \subseteq undead \cup {Last(entries)}

(* Fewer files are no more over the limits than more.                       *)
LEMMA FewerFiles ==
  ASSUME NEW s \in Seq(Card), NEW t \in Seq(Card), Distinct(s), Elements(s) \subseteq Elements(t),
         Over(Len(s), TotalBytes(s))
  PROVE  Over(Len(t), TotalBytes(t))
<1>1. Len(s) <= Len(t) /\ Len(s) \in Nat /\ Len(t) \in Nat
  BY LenBounded
<1>2. Sum(Weights, s) <= Sum(Weights, t) /\ Sum(Weights, s) \in Nat /\ Sum(Weights, t) \in Nat
  BY WeightsType, SumBounded, SumType
<1>3. TotalBytes(s) = Sum(Weights, s) /\ TotalBytes(t) = Sum(Weights, t)
  BY TotalIs
<1> QED BY <1>1, <1>2, <1>3, OverGrows

(* A step that leaves the index alone and brings no new file.               *)
LEMMA NoNewFile ==
  ASSUME CacheInv, UNCHANGED <<entries, undead>>, flash' \in Seq(Card), Distinct(flash'),
         \/ loading' = <<>>
         \/ \E path \in Path : loading' = <<path>> /\ File(path) \notin Elements(flash'),
         Whole' \in Seq(Card), Distinct(Whole'), Elements(Whole') \subseteq Elements(Whole)
  PROVE  CacheInv'
<1> SUFFICES ASSUME entries # NotYet
             PROVE  /\ Elements(Whole') \subseteq Elements(entries)
                    /\ \/ ~Over(Len(Whole'), TotalBytes(Whole'))
                       \/ Elements(Whole') \subseteq undead \cup {Last(entries)}
  BY DEF CacheInv
<1>1. Whole \in Seq(Card)
  BY WithoutFacts DEF CacheInv, Whole
<1>2. Over(Len(Whole'), TotalBytes(Whole')) => Over(Len(Whole), TotalBytes(Whole))
  BY <1>1, FewerFiles
<1> QED BY <1>2 DEF CacheInv

LEMMA FileTypes == \A path \in Path : File(path) \in Card /\ Temp(path) \in Card
                                       /\ File(path) # Temp(path)
  BY DEF File, Temp, Card

LEMMA MovedLast ==
  ASSUME NEW s \in Seq(Card), Distinct(s), NEW f \in Card
  PROVE  LET t == Append(Without(s, f), f)
         IN  t \in Seq(Card) /\ Distinct(t) /\ Elements(t) = Elements(s) \cup {f}
<1>1. Without(s, f) \in Seq(Card) /\ Elements(Without(s, f)) = Elements(s) \ {f}
      /\ Distinct(Without(s, f))
  BY WithoutFacts
<1>2. Distinct(Append(Without(s, f), f))
  BY <1>1, DistinctAppend
<1>3. Elements(Append(Without(s, f), f)) = (Elements(s) \ {f}) \cup {f}
  BY <1>1, ElementsAppend
<1> QED BY <1>1, <1>2, <1>3

LEMMA WholeFacts ==
  ASSUME CacheInv
  PROVE  /\ Whole \in Seq(Card) /\ Distinct(Whole)
         /\ Elements(Whole) = IF loading = <<>> THEN Elements(flash)
                                                ELSE Elements(flash) \ {Temp(loading[1])}
  BY WithoutFacts DEF CacheInv, Whole

LEMMA SameIndex ==
  ASSUME CacheInv, UNCHANGED <<flash, loading>>, \/ UNCHANGED <<entries, undead>>
                                                 \/ entries' = NotYet
  PROVE  CacheInv'
  BY DEF CacheInv, Whole

LEMMA HitKeeps ==
  ASSUME CacheInv, NEW path \in Path, LoadHit(path) PROVE CacheInv'
<1> DEFINE f == File(path)
<1>1. f \in Card /\ flash \in Seq(Card) /\ Distinct(flash) /\ f \in Elements(flash)
      /\ loading = <<>> /\ loading' = <<>> /\ UNCHANGED <<entries, undead>>
      /\ flash' = Append(Without(flash, f), f)
  BY FileTypes DEF LoadHit, CacheInv
<1> HIDE DEF f
<1>2. flash' \in Seq(Card) /\ Distinct(flash') /\ Elements(flash') = Elements(flash)
  <2>1. flash' \in Seq(Card) /\ Distinct(flash') /\ Elements(flash') = Elements(flash) \cup {f}
    BY <1>1, MovedLast
  <2> QED BY <1>1, <2>1
<1>3. Whole = flash /\ Whole' = flash'
  BY <1>1 DEF Whole
<1> QED BY <1>1, <1>2, <1>3, NoNewFile

LEMMA MissKeeps ==
  ASSUME CacheInv, NEW path \in Path, LoadMiss(path) PROVE CacheInv'
<1> DEFINE f == Temp(path)
<1>1. f \in Card /\ flash \in Seq(Card) /\ Distinct(flash)
      /\ File(path) # f /\ File(path) \notin Elements(flash)
      /\ loading = <<>> /\ loading' = <<path>> /\ UNCHANGED <<entries, undead>>
      /\ flash' = Append(Without(flash, f), f)
  BY FileTypes DEF LoadMiss, CacheInv
<1>2. Whole = flash /\ Whole' = Without(flash', f)
  BY <1>1 DEF Whole
<1> HIDE DEF f
<1>3. flash' \in Seq(Card) /\ Distinct(flash') /\ Elements(flash') = Elements(flash) \cup {f}
  BY <1>1, MovedLast
<1>4. Whole' \in Seq(Card) /\ Distinct(Whole') /\ Elements(Whole') = Elements(flash') \ {f}
  BY <1>2, <1>3, WithoutFacts
<1> QED BY <1>1, <1>2, <1>3, <1>4, NoNewFile

LEMMA FailKeeps ==
  ASSUME CacheInv, DownloadFails PROVE CacheInv'
<1>1. /\ flash \in Seq(Card) /\ Distinct(flash) /\ loading # <<>> /\ loading' = <<>>
      /\ UNCHANGED <<entries, undead>> /\ flash' = Without(flash, Temp(loading[1]))
  BY DEF DownloadFails, CacheInv
<1>2. Whole' = Whole /\ Whole' = flash'
  BY <1>1 DEF Whole
<1>3. flash' \in Seq(Card) /\ Distinct(flash')
  BY <1>1, WithoutFacts
<1> QED BY <1>1, <1>2, <1>3, NoNewFile

(* The first download builds the index, a later one extends it; the file is *)
(* its last entry, and every file on the card is in it.                     *)
LEMMA IndexAfter ==
  ASSUME NEW path \in Path, CacheInv, loading = <<path>>,
         NEW disk \in Seq(Card), disk = Append(Without(flash, Temp(path)), File(path))
  PROVE  /\ \E r \in Seq(Card) : NotedCached(path, disk) = Append(r, File(path))
         /\ NotedCached(path, disk) \in Seq(Card)
         /\ Elements(disk) \subseteq Elements(NotedCached(path, disk))
<1> DEFINE f == File(path)
<1>1. f \in Card /\ flash \in Seq(Card) /\ Whole = Without(flash, Temp(path))
  BY FileTypes DEF CacheInv, Whole
<1>2. Whole \in Seq(Card) /\ Elements(disk) = Elements(Whole) \cup {f}
  BY <1>1, WholeFacts, ElementsAppend
<1>3. CASE entries = NotYet
  BY <1>1, <1>2, <1>3 DEF NotedCached
<1>4. CASE entries # NotYet
  <2>1. entries \in Seq(Card) /\ Elements(Whole) \subseteq Elements(entries)
    BY <1>4 DEF CacheInv
  <2>2. NotedCached(path, disk) = Append(entries, f)
    BY <1>4 DEF NotedCached
  <2>3. Elements(Append(entries, f)) = Elements(entries) \cup {f}
    BY <1>1, <2>1, ElementsAppend
  <2> HIDE DEF f
  <2>4. Append(entries, f) \in Seq(Card)
    BY <1>1, <2>1
  <2> QED BY <1>2, <2>1, <2>2, <2>3, <2>4 DEF f
<1> QED BY <1>3, <1>4

LEMMA DownloadKeeps ==
  ASSUME CacheInv, NEW locked, Downloaded(locked) PROVE CacheInv'
<1>1. PICK path \in Path : loading = <<path>> /\ File(path) \notin Elements(flash)
  BY DEF CacheInv, Downloaded
<1> DEFINE f == File(path)
           disk == Append(Without(flash, Temp(path)), f)
           index == NotedCached(path, disk)
           kept == Evict(index, f, locked, disk).kept
           gone == Elements(index) \ Elements(kept)
<1>2. /\ locked \subseteq Elements(index) \ {f} /\ entries' = kept
      /\ flash' = Only(disk, Elements(disk) \ gone)
      /\ undead' = (undead \cup locked \cup (Elements(index) \ Elements(disk))) \ gone
      /\ loading' = <<>>
  BY <1>1 DEF Downloaded
<1>3. f \in Card /\ flash \in Seq(Card) /\ Distinct(flash) /\ Whole = Without(flash, Temp(path))
  BY <1>1, FileTypes DEF CacheInv, Whole
<1>4. /\ Whole \in Seq(Card) /\ Distinct(Whole)
      /\ f \in Elements(Whole) => f \in Elements(flash)
  BY <1>1, <1>3, WholeFacts, FileTypes
<1>5. disk \in Seq(Card) /\ Distinct(disk)
  <2>1. f \notin Elements(Whole)
    BY <1>1, <1>4
  <2>2. Append(Whole, f) \in Seq(Card)
    BY <1>3, <1>4
  <2> QED BY <1>3, <1>4, <2>1, <2>2, DistinctAppend
<1>6. (\E r \in Seq(Card) : index = Append(r, f)) /\ index \in Seq(Card)
      /\ Elements(disk) \subseteq Elements(index)
  BY <1>1, <1>5, IndexAfter
<1> HIDE DEF disk, index, kept, f
<1>7. kept \in Seq(Card) /\ Elements(kept) \subseteq Elements(index)
      /\ (Over(Len(kept), TotalBytes(kept)) => \A e \in Elements(kept) : Stays(e, f, locked, disk))
  BY <1>6, EvictFacts DEF kept
<1>8. kept # <<>> /\ Last(kept) = f
  BY <1>3, <1>6, EvictLast DEF kept
<1>9. /\ flash' \in Seq(Card) /\ Distinct(flash') /\ Elements(flash') \subseteq Elements(kept)
      /\ Elements(flash') \subseteq Elements(disk)
  <2>1. /\ Only(disk, Elements(disk) \ gone) \in Seq(Card)
        /\ Elements(Only(disk, Elements(disk) \ gone)) = Elements(disk) \cap (Elements(disk) \ gone)
        /\ Distinct(Only(disk, Elements(disk) \ gone))
    BY <1>5, OnlyType, OnlyElements, OnlyDistinct
  <2> QED BY <1>2, <1>6, <2>1
<1>10. Whole' = flash'
  BY <1>2 DEF Whole
<1>11. \/ ~Over(Len(flash'), TotalBytes(flash'))
       \/ Elements(flash') \subseteq undead' \cup {Last(entries')}
  <2> SUFFICES ASSUME Over(Len(flash'), TotalBytes(flash'))
               PROVE  Elements(flash') \subseteq undead' \cup {f}
    BY <1>2, <1>8
  <2>1. Over(Len(kept), TotalBytes(kept))
    BY <1>7, <1>9, FewerFiles
  <2>2. \A e \in Elements(kept) : Stays(e, f, locked, disk)
    BY <1>7, <2>1
  <2>3. \A e \in Elements(flash') : e = f \/ e \in locked
    BY <1>9, <2>2 DEF Stays
  <2> QED BY <1>2, <1>9, <2>3
<1> QED BY <1>2, <1>7, <1>9, <1>10, <1>11 DEF CacheInv

(* The files a card may begin with, in any order.                           *)
LEMMA FirstCard == CacheInit => CacheInv
<1> SUFFICES ASSUME CacheInit PROVE flash \in Seq(Card) /\ Distinct(flash)
  BY DEF CacheInit, CacheInv
<1>1. CASE flash = <<>>
  BY <1>1, DistinctEmpty
<1>2. CASE \E s \in SUBSET Path : flash = SetToSeq({File(x) : x \in s})
  <2>1. PICK s \in SUBSET Path : flash = SetToSeq({File(x) : x \in s})
    BY <1>2
  <2> DEFINE F == {File(x) : x \in s}
  <2>2. F \subseteq Card
    BY FileTypes
  <2>3. IsFiniteSet(F)
    <3> DEFINE g == [x \in s |-> File(x)]
    <3>1. IsFiniteSet(s)
      BY CacheAssumption, FS_Subset
    <3>2. g \in Surjection(s, F)
      BY DEF Surjection
    <3> HIDE DEF g
    <3> QED BY <3>1, <3>2, FS_Surjection
  <2> DEFINE n == Cardinality(F)
  <2> HIDE DEF F
  <2>4. n \in Nat /\ ExistsBijection(1 .. n, F)
    BY <2>3, FS_CardinalityType
  <2>5. \E h \in [1 .. n -> F] : IsInjective(h)
    BY <2>4 DEF ExistsBijection, Bijection, Injection, IsInjective
  <2>6. flash \in [1 .. n -> F] /\ IsInjective(flash)
    BY <2>1, <2>5 DEF SetToSeq, F, n
  <2>7. flash \in Seq(Card)
    BY <2>2, <2>4, <2>6
  <2> QED BY <2>6, <2>7 DEF IsInjective, Distinct
<1> QED BY <1>1, <1>2 DEF CacheInit

(* After a producer's first download the card is within both limits, or     *)
(* what is left besides the newest file could not be removed: for any       *)
(* sizes, limits and number of photos (server.py:174-228).                  *)
THEOREM CacheCardWithinLimits == CacheSpec => []CardWithinLimits
<1>1. CacheInit => CacheInv
  BY FirstCard
<1>2. CacheInv /\ [CacheNext]_cacheVars => CacheInv'
  <2> SUFFICES ASSUME CacheInv, [CacheNext]_cacheVars PROVE CacheInv'
    OBVIOUS
  <2>1. CASE NewProducer
    BY <2>1, SameIndex DEF NewProducer
  <2>2. CASE Restart
    <3>1. flash' \in Seq(Card) /\ Distinct(flash') /\ loading' = <<>> /\ entries' = NotYet
      BY <2>2 DEF Restart, CacheInv
    <3> QED BY <3>1 DEF CacheInv
  <2>3. CASE \E x \in Path : LoadHit(x) \/ LoadMiss(x)
    BY <2>3, HitKeeps, MissKeeps
  <2>4. CASE DownloadFails
    BY <2>4, FailKeeps
  <2>5. CASE \E locked \in SUBSET Elements(flash) : Downloaded(locked)
    BY <2>5, DownloadKeeps
  <2>6. CASE ShowReady
    BY <2>6, SameIndex DEF ShowReady
  <2>7. CASE UNCHANGED cacheVars
    BY <2>7, SameIndex DEF cacheVars
  <2> QED BY <2>1, <2>2, <2>3, <2>4, <2>5, <2>6, <2>7 DEF CacheNext
<1>3. CacheInv => CardWithinLimits
  BY DEF CacheInv, CardWithinLimits, Whole
<1> QED BY <1>1, <1>2, <1>3, PTL DEF CacheSpec

(***************************************************************************)
(* A file stays on the card until its turn.  What the index and the card   *)
(* hold after a file that was downloaded for the queue has been loaded     *)
(* since; so when the eviction has come to that file, what is left is the  *)
(* file, those after it and those that cannot be removed.                  *)
(***************************************************************************)
(* The elements after one that equals f.                                    *)
After(s, f) == {x \in Elements(s) : \E i, j \in 1 .. Len(s) : i < j /\ s[i] = f /\ s[j] = x}

LEMMA AfterIs ==
  ASSUME NEW T, NEW s \in Seq(T), NEW f, NEW x
  PROVE  x \in After(s, f) <=> \E i, j \in 1 .. Len(s) : i < j /\ s[i] = f /\ s[j] = x
  BY ElementsOf DEF After

LEMMA AfterIn ==
  ASSUME NEW T, NEW s \in Seq(T), NEW f
  PROVE  /\ After(s, f) \subseteq Elements(s)
         /\ f \notin Elements(s) => After(s, f) = {}
  BY ElementsOf DEF After

LEMMA AfterAppend ==
  ASSUME NEW T, NEW s \in Seq(T), NEW x \in T, NEW f
  PROVE  /\ f \in Elements(s) => After(Append(s, x), f) = After(s, f) \cup {x}
         /\ f \notin Elements(s) => After(Append(s, x), f) = {}
<1> DEFINE t == Append(s, x)
           n == Len(s)
<1>1. /\ t \in Seq(T) /\ n \in Nat /\ Len(t) = n + 1 /\ t[n + 1] = x
      /\ \A k \in 1 .. n : t[k] = s[k]
  BY AppendFacts
<1> HIDE DEF t, n
<1>2. ASSUME NEW y \in After(t, f) PROVE f \in Elements(s) /\ y \in After(s, f) \cup {x}
  <2>1. PICK i, j \in 1 .. n + 1 : i < j /\ t[i] = f /\ t[j] = y
    BY <1>1, <1>2, AfterIs
  <2>2. i \in 1 .. n /\ s[i] = f
    BY <1>1, <2>1
  <2>3. f \in Elements(s)
    BY <2>2, ElementsOf DEF n
  <2>4. CASE j = n + 1
    BY <1>1, <2>1, <2>3, <2>4
  <2>5. CASE j # n + 1
    <3>1. j \in 1 .. n /\ s[j] = y
      BY <1>1, <2>1, <2>5
    <3> QED BY <2>1, <2>2, <2>3, <3>1, AfterIs DEF n
  <2> QED BY <2>4, <2>5
<1>3. ASSUME f \in Elements(s), NEW y \in After(s, f) \cup {x} PROVE y \in After(t, f)
  <2>1. CASE y \in After(s, f)
    <3>1. PICK i, j \in 1 .. n : i < j /\ s[i] = f /\ s[j] = y
      BY <2>1, AfterIs DEF n
    <3>2. i \in 1 .. n + 1 /\ j \in 1 .. n + 1 /\ t[i] = f /\ t[j] = y
      BY <1>1, <3>1
    <3> QED BY <1>1, <3>1, <3>2, AfterIs
  <2>2. CASE y = x
    <3>1. PICK i \in 1 .. n : s[i] = f
      BY <1>3, ElementsOf DEF n
    <3>2. i \in 1 .. n + 1 /\ n + 1 \in 1 .. n + 1 /\ i < n + 1 /\ t[i] = f /\ t[n + 1] = y
      BY <1>1, <2>2, <3>1
    <3> QED BY <1>1, <3>2, AfterIs
  <2> QED BY <1>3, <2>1, <2>2
<1> QED BY <1>2, <1>3 DEF t

(* What is left of a list is in its order.                                  *)
LEMMA AfterOnly ==
  ASSUME NEW T, NEW S, NEW f
  PROVE  \A s \in Seq(T) : After(Only(s, S), f) \subseteq After(s, f) \cap S
<1> DEFINE P == {s \in Seq(T) : After(Only(s, S), f) \subseteq After(s, f) \cap S}
<1>1. <<>> \in P
  <2>1. <<>> \in Seq(T) /\ Only(<<>>, S) = <<>> /\ Elements(<<>>) = {}
    BY OnlyEmpty, ElementsEmpty
  <2> QED BY <2>1, AfterIn
<1>2. ASSUME NEW s \in Seq(T), NEW x \in T, s \in P PROVE Append(s, x) \in P
  <2> DEFINE o == Only(s, S)
  <2>1. o \in Seq(T) /\ Elements(o) = Elements(s) \cap S /\ Append(s, x) \in Seq(T)
    BY OnlyType, OnlyElements
  <2>2. Only(Append(s, x), S) = IF x \in S THEN Append(o, x) ELSE o
    BY OnlyAppend, Zenon
  <2>3. After(o, f) \subseteq After(s, f) \cap S
    BY <1>2
  <2> HIDE DEF o
  <2>4. After(s, f) \subseteq After(Append(s, x), f)
    BY AfterAppend, AfterIn
  <2>5. CASE x \in S
    <3>1. After(Append(o, x), f) \subseteq After(Append(s, x), f) \cap S
      BY <2>1, <2>3, <2>5, AfterAppend
    <3> QED BY <2>1, <2>2, <2>5, <3>1
  <2>6. CASE x \notin S
    BY <2>1, <2>2, <2>3, <2>4, <2>6
  <2> QED BY <2>5, <2>6
<1> HIDE DEF P
<1>3. \A s \in Seq(T) : s \in P
  BY <1>1, <1>2, SequencesOn
<1> QED BY <1>3 DEF P

-----------------------------------------------------------------------------
(* What is left is too much when of the files s the files z are still there. *)
TooMuch(b, s, z) ==
    Over(b.count - Len(s) + Len(z), b.total - Sum(Weights, s) + Sum(Weights, z))

LEMMA TooMuchAppend ==
  ASSUME NEW b \in EvictRuns, NEW s \in Seq(Card), NEW z \in Seq(Card), NEW x \in Card
  PROVE  TooMuch(b, Append(s, x), Append(z, x)) <=> TooMuch(b, s, z)
<1> DEFINE w == Weights[x]
           S == Sum(Weights, s)
           Z == Sum(Weights, z)
<1>1. Len(Append(s, x)) = Len(s) + 1 /\ Len(Append(z, x)) = Len(z) + 1
      /\ Len(s) \in Nat /\ Len(z) \in Nat
  BY AppendFacts
<1>2. Sum(Weights, Append(s, x)) = S + w /\ Sum(Weights, Append(z, x)) = Z + w
      /\ S \in Nat /\ Z \in Nat /\ w \in Nat
  BY WeightsType, SumAppend, SumType
<1>3. b.count \in Int /\ b.total \in Int
  BY DEF EvictRuns
<1> HIDE DEF w, S, Z
<1>4. b.count - (Len(s) + 1) + (Len(z) + 1) = b.count - Len(s) + Len(z)
  BY <1>1, <1>3, OneMore, Zenon
<1>5. b.total - (S + w) + (Z + w) = b.total - S + Z
  BY <1>2, <1>3
<1>6. Len(Append(s, x)) = Len(s) + 1 /\ Len(Append(z, x)) = Len(z) + 1
  BY <1>1
<1> QED BY <1>2, <1>4, <1>5, <1>6, Zenon DEF TooMuch, S, Z

(* A file evicted was found with too much left besides what is kept because *)
(* it must stay, and what comes after it.                                   *)
Evicted(run, b, s, f, keep, locked, disk) ==
    \E z \in Seq(Card) :
        /\ Distinct(z) /\ TooMuch(b, s, z)
        /\ Elements(z) \subseteq {e \in Elements(run.kept) : Stays(e, keep, locked, disk)}
                                    \cup {f} \cup After(s, f)
Traced(run, b, s, keep, locked, disk) ==
    /\ Loop(run, b, s, keep, locked, disk)
    /\ \A f \in Card : After(run.kept, f) \subseteq After(s, f)
    /\ Distinct(s) =>
          /\ Distinct(run.kept)
          /\ \A f \in Elements(s) \ Elements(run.kept) : Evicted(run, b, s, f, keep, locked, disk)

LEMMA TraceStep ==
  ASSUME NEW run, NEW b \in EvictRuns, NEW s \in Seq(Card), NEW x \in Card,
         NEW keep, NEW locked, NEW disk, Traced(run, b, s, keep, locked, disk)
  PROVE  Traced(Evicts(keep, locked, disk)[<<run, x>>], b, Append(s, x), keep, locked, disk)
<1> DEFINE v == Evicts(keep, locked, disk)[<<run, x>>]
           t == Append(s, x)
           Must(r) == {e \in Elements(r.kept) : Stays(e, keep, locked, disk)}
<1>1. run \in EvictRuns /\ run.kept \in Seq(Card) /\ Elements(run.kept) \subseteq Elements(s)
  BY DEF Traced, Loop, EvictRuns
<1>2. Loop(v, b, t, keep, locked, disk)
  BY LoopStep DEF Traced
<1>3. v = IF ~Over(run.count, run.total) \/ Stays(x, keep, locked, disk)
          THEN RunKeep(run, x) ELSE RunDrop(run, x)
  BY <1>1 DEF Evicts
<1>4. t \in Seq(Card) /\ Elements(t) = Elements(s) \cup {x}
      /\ (Distinct(t) <=> Distinct(s) /\ x \notin Elements(s))
  BY ElementsAppend, DistinctAppend
<1>5. /\ Append(run.kept, x) \in Seq(Card)
      /\ Elements(Append(run.kept, x)) = Elements(run.kept) \cup {x}
      /\ (Distinct(Append(run.kept, x)) <=> Distinct(run.kept) /\ x \notin Elements(run.kept))
  BY <1>1, ElementsAppend, DistinctAppend
<1>6. v.kept \in {run.kept, Append(run.kept, x)}
  BY <1>1, <1>3, RunTypes
<1>7. TooMuch(b, s, run.kept) <=> Over(run.count, run.total)
  BY DEF Traced, Loop, TooMuch
<1>8. \A f : f \in Elements(s) => After(t, f) = After(s, f) \cup {x}
  BY AfterAppend
<1>9. \A f : /\ f \in Elements(run.kept) => After(Append(run.kept, x), f) = After(run.kept, f) \cup {x}
             /\ f \notin Elements(run.kept) => After(Append(run.kept, x), f) = {}
  <2> DEFINE kept == run.kept
  <2>1. kept \in Seq(Card)
    BY <1>1
  <2> HIDE DEF kept
  <2>2. \A f : /\ f \in Elements(kept) => After(Append(kept, x), f) = After(kept, f) \cup {x}
               /\ f \notin Elements(kept) => After(Append(kept, x), f) = {}
    BY <2>1, AfterAppend
  <2> QED BY <2>2 DEF kept
<1>10. \A f \in Card : After(run.kept, f) # {} => f \in Elements(run.kept)
  BY <1>1, AfterIn
<1> HIDE DEF v, t
<1>11. \A f \in Card : After(v.kept, f) \subseteq After(t, f)
  <2> SUFFICES ASSUME NEW f \in Card PROVE After(v.kept, f) \subseteq After(t, f)
    OBVIOUS
  <2>1. After(run.kept, f) \subseteq After(s, f)
    BY DEF Traced
  <2>2. CASE f \in Elements(run.kept)
    BY <1>1, <1>6, <1>8, <1>9, <2>1, <2>2
  <2>3. CASE f \notin Elements(run.kept)
    BY <1>6, <1>9, <1>10, <2>3
  <2> QED BY <2>2, <2>3
<1>12. ASSUME Distinct(t) PROVE Distinct(v.kept)
  BY <1>1, <1>4, <1>5, <1>6, <1>12 DEF Traced
<1>13. ASSUME Distinct(t), NEW f \in Elements(t) \ Elements(v.kept)
       PROVE  Evicted(v, b, t, f, keep, locked, disk)
  <2>1. Distinct(s) /\ x \notin Elements(s) /\ Distinct(run.kept)
    BY <1>4, <1>13 DEF Traced
  <2>2. CASE f \in Elements(s)
    <3>1. f \notin Elements(run.kept) /\ Must(run) \subseteq Must(v)
      BY <1>5, <1>6, <1>13
    <3>2. PICK z \in Seq(Card) : /\ Distinct(z) /\ TooMuch(b, s, z)
                                 /\ Elements(z) \subseteq Must(run) \cup {f} \cup After(s, f)
      BY <2>1, <2>2, <3>1 DEF Traced, Evicted
    <3>3. Elements(z) \subseteq Elements(s)
      BY <1>1, <2>2, <3>2, AfterIn
    <3>4. /\ Append(z, x) \in Seq(Card) /\ Distinct(Append(z, x))
          /\ Elements(Append(z, x)) = Elements(z) \cup {x}
      <4>1. Append(z, x) \in Seq(Card)
        OBVIOUS
      <4> QED BY <2>1, <3>2, <3>3, <4>1, DistinctAppend, ElementsAppend
    <3>5. TooMuch(b, t, Append(z, x))
      BY <3>2, TooMuchAppend DEF t
    <3>6. Elements(Append(z, x)) \subseteq Must(v) \cup {f} \cup After(t, f)
      BY <1>8, <2>2, <3>1, <3>2, <3>4
    <3> QED BY <3>4, <3>5, <3>6 DEF Evicted
  <2>3. CASE f = x
    <3>1. v.kept = run.kept /\ Over(run.count, run.total)
      <4>1. x \in Elements(Append(run.kept, x))
        BY <1>5
      <4> QED BY <1>1, <1>3, <1>13, <2>3, <4>1, RunTypes
    <3>2. Elements(run.kept) \subseteq Must(v)
      BY <3>1 DEF Traced, Loop
    <3>3. TooMuch(b, t, Append(run.kept, x))
      BY <1>1, <1>7, <3>1, TooMuchAppend DEF t
    <3>4. Distinct(Append(run.kept, x))
      BY <1>1, <1>5, <2>1
    <3>5. Elements(Append(run.kept, x)) \subseteq Must(v) \cup {f} \cup After(t, f)
      BY <1>5, <2>3, <3>2
    <3> QED BY <1>5, <3>3, <3>4, <3>5 DEF Evicted
  <2> QED BY <1>4, <1>13, <2>2, <2>3
<1>14. Traced(v, b, t, keep, locked, disk)
  BY <1>2, <1>11, <1>12, <1>13 DEF Traced
<1> QED BY <1>14 DEF v, t

LEMMA TraceEnd ==
  ASSUME NEW b \in EvictRuns, b.kept = <<>>, NEW keep, NEW locked, NEW disk
  PROVE  \A s \in Seq(Card) : Traced(Reduce(Evicts(keep, locked, disk), b, s), b, s, keep, locked, disk)
<1> DEFINE op == Evicts(keep, locked, disk)
           P == {s \in Seq(Card) : Traced(Reduce(op, b, s), b, s, keep, locked, disk)}
<1>0. op \in [EvictRuns \X Card -> EvictRuns]
  BY EvictsType
<1> HIDE DEF op
<1>1. <<>> \in P
  <2>1. Reduce(op, b, <<>>) = b
    BY <1>0, ReduceEmpty, Zenon
  <2>2. <<>> \in Seq(Card) /\ Elements(<<>>) = {} /\ Distinct(<<>>)
    BY ElementsEmpty, DistinctEmpty
  <2>3. Loop(b, b, <<>>, keep, locked, disk)
    BY <2>1, <2>2, LoopEnd DEF op
  <2>4. \A f : After(<<>>, f) = {}
    BY <2>2, AfterIn
  <2>5. Traced(b, b, <<>>, keep, locked, disk)
    BY <2>2, <2>3, <2>4 DEF Traced
  <2> QED BY <2>1, <2>2, <2>5
<1>2. ASSUME NEW s \in Seq(Card), NEW x \in Card, s \in P PROVE Append(s, x) \in P
  <2>1. StepsOn(op, b, s, x)
    BY <1>0, ReduceAppend, Zenon
  <2>2. Traced(Reduce(op, b, s), b, s, keep, locked, disk)
    BY <1>2
  <2>3. Traced(op[<<Reduce(op, b, s), x>>], b, Append(s, x), keep, locked, disk)
    BY <2>2, TraceStep DEF op
  <2>4. Append(s, x) \in Seq(Card)
    OBVIOUS
  <2> QED BY <2>1, <2>3, <2>4 DEF StepsOn
<1> HIDE DEF P
<1>3. \A s \in Seq(Card) : s \in P
  BY <1>1, <1>2, SequencesOn
<1> QED BY <1>3 DEF P, op

(* The eviction of an index without repetitions.                            *)
LEMMA EvictOrder ==
  ASSUME NEW index \in Seq(Card), Distinct(index), NEW keep, NEW locked, NEW disk
  PROVE  LET kept == Evict(index, keep, locked, disk).kept
         IN  /\ kept \in Seq(Card) /\ Elements(kept) \subseteq Elements(index) /\ Distinct(kept)
             /\ \A f \in Card : After(kept, f) \subseteq After(index, f)
             /\ \A f \in Elements(index) \ Elements(kept) : \E z \in Seq(Card) :
                  /\ Distinct(z) /\ Over(Len(z), TotalBytes(z))
                  /\ Elements(z) \subseteq {e \in Elements(kept) : Stays(e, keep, locked, disk)}
                                              \cup {f} \cup After(index, f)
<1> DEFINE run == Evict(index, keep, locked, disk)
           b == RunStart(index)
<1>1. /\ b \in EvictRuns /\ b.kept = <<>> /\ b.count = Len(index) /\ b.total = Sum(Weights, index)
      /\ run = Reduce(Evicts(keep, locked, disk), b, index)
  BY EvictIs, TotalIs DEF RunStart
<1> HIDE DEF run, b
<1>2. Traced(run, b, index, keep, locked, disk)
  BY <1>1, TraceEnd
<1>3. run.kept \in Seq(Card) /\ Elements(run.kept) \subseteq Elements(index)
  BY <1>2 DEF Traced, Loop, EvictRuns
<1>4. ASSUME NEW z \in Seq(Card), TooMuch(b, index, z) PROVE Over(Len(z), TotalBytes(z))
  <2>1. /\ Len(index) \in Nat /\ Len(z) \in Nat
        /\ Sum(Weights, index) \in Nat /\ Sum(Weights, z) \in Nat
    BY WeightsType, SumType
  <2>2. Len(index) - Len(index) + Len(z) = Len(z)
        /\ Sum(Weights, index) - Sum(Weights, index) + Sum(Weights, z) = Sum(Weights, z)
    BY <2>1
  <2> QED BY <1>1, <1>4, <2>2, TotalIs DEF TooMuch
<1>5. ASSUME NEW f \in Elements(index) \ Elements(run.kept)
      PROVE  \E z \in Seq(Card) :
                  /\ Distinct(z) /\ Over(Len(z), TotalBytes(z))
                  /\ Elements(z) \subseteq {e \in Elements(run.kept) : Stays(e, keep, locked, disk)}
                                              \cup {f} \cup After(index, f)
  BY <1>2, <1>4, <1>5 DEF Traced, Evicted
<1> QED BY <1>2, <1>3, <1>5 DEF Traced, run

-----------------------------------------------------------------------------
(* Files as a list.                                                         *)
LEMMA CardFinite == IsFiniteSet(Card)
<1>1. IsFiniteSet({"file", "tmp"})
  <2>1. {"file", "tmp"} = {"file"} \cup {"tmp"}
    OBVIOUS
  <2>2. IsFiniteSet({"file"})
    BY FS_Singleton
  <2>3. IsFiniteSet({"file"} \cup {"tmp"})
    BY <2>2, FS_AddElement
  <2> QED BY <2>1, <2>3
<1> QED BY <1>1, CacheAssumption, FS_Product DEF Card

LEMMA AsList ==
  ASSUME NEW F \in SUBSET Card
  PROVE  LET s == SetToSeq(F) IN s \in Seq(Card) /\ Elements(s) = F
<1> DEFINE n == Cardinality(F)
           s == SetToSeq(F)
<1>1. IsFiniteSet(F)
  BY CardFinite, FS_Subset
<1>2. n \in Nat /\ ExistsBijection(1 .. n, F)
  BY <1>1, FS_CardinalityType
<1>3. \E h \in [1 .. n -> F] : IsInjective(h)
  BY <1>2 DEF ExistsBijection, Bijection, Injection, IsInjective
<1>4. s \in [1 .. n -> F] /\ IsInjective(s)
  BY <1>3 DEF SetToSeq
<1> HIDE DEF s
<1>5. s \in Injection(1 .. n, F)
  BY <1>4 DEF Injection, IsInjective
<1>6. Cardinality(1 .. n) = n
  BY <1>2, FS_Interval
<1>7. s \in Surjection(1 .. n, F)
  BY <1>1, <1>5, <1>6, FS_Injection
<1>8. s \in Seq(Card) /\ DOMAIN s = 1 .. n
  BY <1>2, <1>4
<1>9. Elements(s) = F
  BY <1>4, <1>7, <1>8 DEF Elements, Surjection
<1> QED BY <1>8, <1>9 DEF s

-----------------------------------------------------------------------------
ReadyItems == [path : Path, fetched : BOOLEAN]
Later(k) == {File(ready[j].path) : j \in k .. Len(ready)}
Pending == IF loading = <<>> THEN {} ELSE {Temp(loading[1])}

(* What follows a file that was downloaded for the queue was loaded later.  *)
Follows(k) ==
    /\ After(flash, File(ready[k].path)) \subseteq Later(k) \cup Pending
    /\ entries # NotYet => After(entries, File(ready[k].path)) \subseteq Later(k)

QueueInv ==
    /\ CacheInv
    /\ ready \in Seq(ReadyItems) /\ undead \subseteq Card
    /\ entries # NotYet => /\ Distinct(entries)
                           /\ \A x \in Path : File(x) \in Elements(entries) => File(x) \in Elements(flash)
    /\ \A k \in 1 .. Len(ready) : ready[k].fetched => Follows(k)

LEMMA ReadyGrows ==
  ASSUME ready \in Seq(ReadyItems), NEW r \in ReadyItems, ready' = Append(ready, r)
  PROVE  /\ ready' \in Seq(ReadyItems) /\ Len(ready) \in Nat /\ Len(ready') = Len(ready) + 1
         /\ ready'[Len(ready) + 1] = r
         /\ \A k \in 1 .. Len(ready) : ready'[k] = ready[k] /\ Later(k)' = Later(k) \cup {File(r.path)}
         /\ \A k \in Nat : k = Len(ready) + 1 => Later(k)' = {File(r.path)}
<1>1. /\ ready' \in Seq(ReadyItems) /\ Len(ready) \in Nat /\ Len(ready') = Len(ready) + 1
      /\ ready'[Len(ready) + 1] = r
      /\ \A k \in 1 .. Len(ready) : ready'[k] = ready[k]
  BY AppendFacts
<1>2. ASSUME NEW k \in 1 .. Len(ready) PROVE Later(k)' = Later(k) \cup {File(r.path)}
  <2>1. k .. Len(ready') = (k .. Len(ready)) \cup {Len(ready) + 1}
    BY <1>1
  <2>2. k .. Len(ready) \subseteq 1 .. Len(ready)
    BY <1>1
  <2>3. \A j \in k .. Len(ready) : ready'[j] = ready[j]
    BY <1>1, <2>2
  <2> QED BY <1>1, <2>1, <2>3 DEF Later, File
<1>3. (Len(ready) + 1) .. Len(ready') = {Len(ready) + 1}
  BY <1>1
<1>4. ASSUME NEW k \in Nat, k = Len(ready) + 1 PROVE Later(k)' = {File(r.path)}
  BY <1>1, <1>3, <1>4 DEF Later, File
<1> QED BY <1>1, <1>2, <1>4

(* After a file that has gone to the end there is nothing.                  *)
LEMMA AfterMoved ==
  ASSUME NEW s \in Seq(Card), NEW f \in Card, NEW g
  PROVE  LET t == Append(Without(s, f), f)
         IN  /\ After(t, g) \subseteq (After(s, g) \ {f}) \cup {f}
             /\ g = f => After(t, g) = {}
             /\ g \notin Elements(s) => After(t, g) = {}
<1> DEFINE o == Without(s, f)
<1>1. o \in Seq(Card) /\ Elements(o) = Elements(s) \ {f}
  BY WithoutFacts
<1>2. After(o, g) \subseteq After(s, g)
  BY AfterOnly DEF Without
<1> HIDE DEF o
<1>3. /\ g \in Elements(o) => After(Append(o, f), g) = After(o, g) \cup {f}
      /\ g \notin Elements(o) => After(Append(o, f), g) = {}
  BY <1>1, AfterAppend
<1> QED BY <1>1, <1>2, <1>3 DEF o

(* Steps of the queue that leave the index alone.                           *)
LEMMA QueueSame ==
  ASSUME QueueInv, CacheInv', UNCHANGED <<entries, undead>>,
         \A x \in Path : File(x) \in Elements(flash) => File(x) \in Elements(flash'),
         ready' \in Seq(ReadyItems),
         \A k \in 1 .. Len(ready') : ready'[k].fetched =>
             /\ After(flash', File(ready'[k].path)) \subseteq Later(k)' \cup Pending'
             /\ entries # NotYet => After(entries, File(ready'[k].path)) \subseteq Later(k)'
  PROVE  QueueInv'
<1>1. \A k \in 1 .. Len(ready') : ready'[k].fetched => Follows(k)'
  BY DEF Follows, File
<1>2. CASE entries = NotYet
  BY <1>1, <1>2 DEF QueueInv
<1>3. CASE entries # NotYet
  BY <1>1, <1>3 DEF QueueInv, File
<1> QED BY <1>2, <1>3

LEMMA QueueHit == ASSUME QueueInv, NEW p \in Path, LoadHit(p) PROVE QueueInv'
<1> DEFINE f == File(p)
           r == [path |-> p, fetched |-> FALSE]
<1>1. /\ CacheInv /\ flash \in Seq(Card) /\ f \in Card /\ f \in Elements(flash)
      /\ loading = <<>> /\ loading' = <<>> /\ UNCHANGED <<entries, undead>>
      /\ flash' = Append(Without(flash, f), f) /\ ready' = Append(ready, r)
      /\ ready \in Seq(ReadyItems) /\ r \in ReadyItems
  BY FileTypes DEF LoadHit, CacheInv, QueueInv, ReadyItems
<1>2. CacheInv'
  BY <1>1, HitKeeps
<1>3. Elements(flash') = Elements(flash) \cup {f}
  <2>1. Distinct(flash)
    BY <1>1 DEF CacheInv
  <2> QED BY <1>1, <2>1, MovedLast
<1>4. /\ ready' \in Seq(ReadyItems) /\ Len(ready) \in Nat /\ Len(ready') = Len(ready) + 1
      /\ ready'[Len(ready) + 1] = r
      /\ \A k \in 1 .. Len(ready) : ready'[k] = ready[k] /\ Later(k)' = Later(k) \cup {f}
  BY <1>1, ReadyGrows
<1>5. ~r.fetched /\ Pending = {}
  BY <1>1 DEF Pending
<1> HIDE DEF f, r
<1>6. ASSUME NEW k \in 1 .. Len(ready'), ready'[k].fetched
      PROVE  /\ After(flash', File(ready'[k].path)) \subseteq Later(k)' \cup Pending'
             /\ entries # NotYet => After(entries, File(ready'[k].path)) \subseteq Later(k)'
  <2>1. k \in 1 .. Len(ready)
    BY <1>4, <1>5, <1>6
  <2>2. ready[k].fetched /\ ready'[k] = ready[k] /\ Later(k)' = Later(k) \cup {f}
    BY <1>4, <1>6, <2>1
  <2>3. Follows(k)
    BY <2>1, <2>2 DEF QueueInv
  <2>4. After(flash', File(ready[k].path)) \subseteq After(flash, File(ready[k].path)) \cup {f}
    BY <1>1, AfterMoved
  <2> QED BY <1>5, <2>2, <2>3, <2>4 DEF Follows
<1> QED BY <1>1, <1>2, <1>3, <1>4, <1>6, QueueSame

LEMMA SameReady ==
  ASSUME UNCHANGED ready, NEW k
  PROVE  Later(k)' = Later(k)
  BY DEF Later, File

LEMMA QueueMiss == ASSUME QueueInv, NEW p \in Path, LoadMiss(p) PROVE QueueInv'
<1> DEFINE f == Temp(p)
<1>1. /\ CacheInv /\ flash \in Seq(Card) /\ f \in Card
      /\ loading = <<>> /\ loading' = <<p>> /\ UNCHANGED <<entries, undead, ready>>
      /\ flash' = Append(Without(flash, f), f) /\ ready \in Seq(ReadyItems)
  BY FileTypes DEF LoadMiss, CacheInv, QueueInv
<1>2. CacheInv'
  BY <1>1, MissKeeps
<1>3. Pending = {} /\ Pending' = {f}
  BY <1>1 DEF Pending, Temp
<1> HIDE DEF f
<1>4. Elements(flash') = Elements(flash) \cup {f}
  <2>1. Distinct(flash)
    BY <1>1 DEF CacheInv
  <2> QED BY <1>1, <2>1, MovedLast
<1>5. ASSUME NEW k \in 1 .. Len(ready'), ready'[k].fetched
      PROVE  /\ After(flash', File(ready'[k].path)) \subseteq Later(k)' \cup Pending'
             /\ entries # NotYet => After(entries, File(ready'[k].path)) \subseteq Later(k)'
  <2>1. Later(k)' = Later(k) /\ Follows(k) /\ ready' = ready
    BY <1>1, <1>5, SameReady DEF QueueInv
  <2>2. After(flash', File(ready[k].path)) \subseteq After(flash, File(ready[k].path)) \cup {f}
    BY <1>1, AfterMoved
  <2> QED BY <1>3, <2>1, <2>2 DEF Follows
<1> QED BY <1>1, <1>2, <1>4, <1>5, QueueSame

LEMMA QueueFails == ASSUME QueueInv, DownloadFails PROVE QueueInv'
<1>1. /\ CacheInv /\ flash \in Seq(Card) /\ UNCHANGED <<entries, undead, ready>>
      /\ ready \in Seq(ReadyItems) /\ loading # <<>>
  BY DEF DownloadFails, CacheInv, QueueInv
<1>2. PICK p \in Path : loading = <<p>>
  BY <1>1 DEF CacheInv
<1> DEFINE f == Temp(p)
<1>3. Pending = {f} /\ Pending' = {} /\ flash' = Without(flash, f)
  BY <1>2 DEF DownloadFails, Pending
<1>4. CacheInv'
  BY <1>1, FailKeeps
<1>5. \A x \in Path : File(x) # f
  BY DEF File, Temp
<1> HIDE DEF f
<1>6. Elements(flash') = Elements(flash) \ {f}
  BY <1>1, <1>3, WithoutFacts
<1>7. ASSUME NEW k \in 1 .. Len(ready'), ready'[k].fetched
      PROVE  /\ After(flash', File(ready'[k].path)) \subseteq Later(k)' \cup Pending'
             /\ entries # NotYet => After(entries, File(ready'[k].path)) \subseteq Later(k)'
  <2>1. Later(k)' = Later(k) /\ Follows(k) /\ ready' = ready
    BY <1>1, <1>7, SameReady DEF QueueInv
  <2>2. After(flash', File(ready[k].path)) \subseteq After(flash, File(ready[k].path)) \cap (Elements(flash) \ {f})
    BY <1>1, <1>3, AfterOnly DEF Without
  <2> QED BY <1>3, <2>1, <2>2 DEF Follows
<1> QED BY <1>1, <1>4, <1>5, <1>6, <1>7, QueueSame

(* A new producer has no index yet; the queue may be flushed.               *)
LEMMA QueueNew == ASSUME QueueInv, NewProducer \/ Restart PROVE QueueInv'
<1>1. entries' = NotYet /\ UNCHANGED flash /\ loading' = <<>> /\ undead' \subseteq Card
      /\ (ready' = <<>> \/ UNCHANGED <<ready, loading>>)
  BY DEF NewProducer, Restart, QueueInv
<1>2. CacheInv'
  BY <1>1 DEF QueueInv, CacheInv
<1>3. CASE ready' = <<>>
  <2>1. ready' \in Seq(ReadyItems) /\ Len(ready') = 0
    BY <1>3
  <2> QED BY <1>1, <1>2, <2>1 DEF QueueInv
<1>4. CASE UNCHANGED <<ready, loading>>
  <2>1. Pending' = Pending
    BY <1>4 DEF Pending, Temp
  <2>2. \A k \in 1 .. Len(ready) : Later(k)' = Later(k)
    BY <1>4, SameReady
  <2>3. \A k \in 1 .. Len(ready) : ready[k].fetched => Follows(k)'
    BY <1>1, <1>4, <2>1, <2>2 DEF QueueInv, Follows, File
  <2> QED BY <1>1, <1>2, <1>4, <2>3 DEF QueueInv
<1> QED BY <1>1, <1>3, <1>4

LEMMA QueueShows == ASSUME QueueInv, ShowReady PROVE QueueInv'
<1>1. /\ ready # <<>> /\ ready' = Tail(ready) /\ ready \in Seq(ReadyItems)
      /\ UNCHANGED <<flash, entries, loading, undead>>
  BY DEF ShowReady, QueueInv
<1>2. CacheInv'
  BY <1>1, SameIndex DEF QueueInv
<1>3. /\ ready' \in Seq(ReadyItems) /\ Len(ready) \in Nat /\ Len(ready') = Len(ready) - 1
      /\ \A k \in 1 .. Len(ready') : ready'[k] = ready[k + 1]
  BY <1>1
<1>4. Pending' = Pending
  BY <1>1 DEF Pending, Temp
<1>5. ASSUME NEW k \in 1 .. Len(ready') PROVE Later(k + 1) \subseteq Later(k)'
  <2> SUFFICES ASSUME NEW j \in k + 1 .. Len(ready) PROVE File(ready[j].path) \in Later(k)'
    BY DEF Later
  <2>1. j - 1 \in k .. Len(ready') /\ j - 1 \in 1 .. Len(ready') /\ (j - 1) + 1 = j
    BY <1>3
  <2>2. ready'[j - 1] = ready[j]
    BY <1>3, <2>1
  <2> QED BY <2>1, <2>2 DEF Later, File
<1>6. ASSUME NEW k \in 1 .. Len(ready'), ready'[k].fetched
      PROVE  /\ After(flash', File(ready'[k].path)) \subseteq Later(k)' \cup Pending'
             /\ entries # NotYet => After(entries, File(ready'[k].path)) \subseteq Later(k)'
  <2>1. k + 1 \in 1 .. Len(ready) /\ ready'[k] = ready[k + 1]
    BY <1>3
  <2>2. Follows(k + 1)
    BY <1>6, <2>1 DEF QueueInv
  <2> QED BY <1>1, <1>4, <1>5, <2>1, <2>2 DEF Follows
<1> QED BY <1>1, <1>2, <1>3, <1>6, QueueSame

LEMMA ReadyPath ==
  ASSUME ready \in Seq(ReadyItems), NEW k \in 1 .. Len(ready)
  PROVE  ready[k].path \in Path /\ File(ready[k].path) \in Card
<1>1. ready[k] \in ReadyItems
  OBVIOUS
<1>2. ready[k].path \in Path
  BY <1>1 DEF ReadyItems
<1> QED BY <1>2, FileTypes

(* What a download has done: the card with the new file, the index with it, *)
(* and what the eviction has kept.                                          *)
Brought(locked, path, disk, index, kept) ==
    LET f == File(path)
        gone == Elements(index) \ Elements(kept)
    IN  /\ loading = <<path>> /\ loading' = <<>> /\ entries' = kept
        /\ ready' = Append(ready, [path |-> path, fetched |-> TRUE])
        /\ flash' = Only(disk, Elements(disk) \ gone)
        /\ undead' = (undead \cup locked \cup (Elements(index) \ Elements(disk))) \ gone
        /\ kept = Evict(index, f, locked, disk).kept
        /\ kept # <<>> /\ Last(kept) = f /\ locked \subseteq Elements(index)
        /\ Elements(disk) = (Elements(flash) \ {Temp(path)}) \cup {f}
        /\ Distinct(index)
        /\ \A x \in Path : File(x) \in Elements(index) => File(x) \in Elements(disk)
        /\ After(disk, f) = {} /\ After(index, f) = {}
        /\ \A k \in 1 .. Len(ready) : ready[k].fetched =>
              /\ After(disk, File(ready[k].path)) \subseteq Later(k) \cup {f}
              /\ After(index, File(ready[k].path)) \subseteq Later(k) \cup {f}

LEMMA Brings ==
  ASSUME QueueInv, NEW locked, Downloaded(locked)
  PROVE  \E path \in Path : \E disk, index, kept \in Seq(Card) :
            Brought(locked, path, disk, index, kept)
<1>1. PICK path \in Path : loading = <<path>> /\ File(path) \notin Elements(flash)
  BY DEF QueueInv, CacheInv, Downloaded
<1> DEFINE f == File(path)
           old == Without(flash, Temp(path))
           disk == Append(old, f)
           index == NotedCached(path, disk)
           kept == Evict(index, f, locked, disk).kept
           gone == Elements(index) \ Elements(kept)
<1>2. /\ locked \subseteq Elements(index) /\ entries' = kept
      /\ flash' = Only(disk, Elements(disk) \ gone)
      /\ undead' = (undead \cup locked \cup (Elements(index) \ Elements(disk))) \ gone
      /\ loading' = <<>> /\ ready' = Append(ready, [path |-> path, fetched |-> TRUE])
  BY <1>1 DEF Downloaded
<1>3. f \in Card /\ flash \in Seq(Card) /\ Distinct(flash) /\ f # Temp(path) /\ CacheInv
  BY FileTypes DEF QueueInv, CacheInv
<1>4. old \in Seq(Card) /\ Distinct(old) /\ Elements(old) = Elements(flash) \ {Temp(path)}
  BY <1>3, WithoutFacts
<1>5. \A g : After(old, g) \subseteq After(flash, g) \cap (Elements(flash) \ {Temp(path)})
  BY <1>3, AfterOnly DEF Without
<1>6. f \notin Elements(flash)
  BY <1>1
<1>7. index = IF entries = NotYet THEN disk ELSE Append(entries, f)
  BY DEF NotedCached
<1>8. disk = Append(old, f) /\ Pending = {Temp(path)}
  BY <1>1 DEF Pending
<1>9. (\E r \in Seq(Card) : index = Append(r, f)) /\ index \in Seq(Card)
  <2>1. disk \in Seq(Card)
    BY <1>3, <1>4
  <2> QED BY <1>1, <1>3, <2>1, IndexAfter
<1> HIDE DEF old, disk, index, kept
<1>10. \A x \in Path : File(x) # Temp(path)
  BY DEF File, Temp
<1> HIDE DEF f
<1>11. /\ disk \in Seq(Card) /\ Distinct(disk) /\ Elements(disk) = Elements(old) \cup {f}
       /\ After(disk, f) = {}
       /\ \A g : After(disk, g) \subseteq After(old, g) \cup {f}
  BY <1>3, <1>4, <1>6, <1>8, ElementsAppend, DistinctAppend, AfterAppend
<1>12. \A k \in 1 .. Len(ready) : ready[k].fetched =>
          After(disk, File(ready[k].path)) \subseteq Later(k) \cup {f}
  BY <1>5, <1>8, <1>11 DEF QueueInv, Follows
<1>13. /\ Distinct(index) /\ After(index, f) = {}
       /\ \A x \in Path : File(x) \in Elements(index) => File(x) \in Elements(disk)
       /\ \A k \in 1 .. Len(ready) : ready[k].fetched =>
              After(index, File(ready[k].path)) \subseteq Later(k) \cup {f}
  <2>1. CASE entries = NotYet
    BY <1>7, <1>11, <1>12, <2>1
  <2>2. CASE entries # NotYet
    <3>1. /\ entries \in Seq(Card) /\ Distinct(entries)
          /\ \A x \in Path : File(x) \in Elements(entries) => File(x) \in Elements(flash)
      BY <2>2 DEF QueueInv, CacheInv
    <3>2. f \notin Elements(entries)
      BY <1>6, <3>1 DEF f
    <3>3. /\ index = Append(entries, f) /\ Distinct(index)
          /\ Elements(index) = Elements(entries) \cup {f}
          /\ After(index, f) = {}
          /\ \A g : After(index, g) \subseteq After(entries, g) \cup {f}
      BY <1>3, <1>7, <2>2, <3>1, <3>2, ElementsAppend, DistinctAppend, AfterAppend
    <3>4. \A k \in 1 .. Len(ready) : ready[k].fetched =>
              After(index, File(ready[k].path)) \subseteq Later(k) \cup {f}
      BY <2>2, <3>3 DEF QueueInv, Follows
    <3>5. \A x \in Path : File(x) \in Elements(index) => File(x) \in Elements(disk)
      BY <1>4, <1>10, <1>11, <3>1, <3>3
    <3> QED BY <3>3, <3>4, <3>5
  <2> QED BY <2>1, <2>2
<1>14. kept # <<>> /\ Last(kept) = f
  BY <1>3, <1>9, EvictLast DEF kept
<1>15. kept \in Seq(Card)
  BY <1>9, EvictFacts DEF kept
<1>16. Brought(locked, path, disk, index, kept)
  BY <1>1, <1>2, <1>4, <1>11, <1>12, <1>13, <1>14 DEF Brought, kept, f
<1> QED BY <1>9, <1>11, <1>15, <1>16

LEMMA QueueDownloaded ==
  ASSUME QueueInv, NEW locked, Downloaded(locked) PROVE QueueInv'
<1>1. PICK path \in Path : \E disk, index, kept \in Seq(Card) :
            Brought(locked, path, disk, index, kept)
  BY Brings
<1>2. PICK disk \in Seq(Card), index \in Seq(Card), kept \in Seq(Card) :
            Brought(locked, path, disk, index, kept)
  BY <1>1
<1> DEFINE f == File(path)
           gone == Elements(index) \ Elements(kept)
           r == [path |-> path, fetched |-> TRUE]
<1>3. CacheInv'
  BY DownloadKeeps DEF QueueInv
<1>4. /\ entries' = kept /\ Elements(kept) \subseteq Elements(index) /\ Distinct(kept)
      /\ \A g \in Card : After(kept, g) \subseteq After(index, g)
  BY <1>2, EvictOrder DEF Brought
<1>5. /\ flash' = Only(disk, Elements(disk) \ gone)
      /\ Elements(flash') = Elements(disk) \ gone
      /\ \A g : After(flash', g) \subseteq After(disk, g)
  <2>1. flash' = Only(disk, Elements(disk) \ gone)
    BY <1>2 DEF Brought
  <2>2. Elements(Only(disk, Elements(disk) \ gone)) = Elements(disk) \cap (Elements(disk) \ gone)
    BY OnlyElements
  <2>3. \A g : After(Only(disk, Elements(disk) \ gone), g) \subseteq After(disk, g)
    BY AfterOnly
  <2> QED BY <2>1, <2>2, <2>3
<1>6. undead' \subseteq Card
  <2>1. locked \subseteq Card
    BY <1>2, ElementsOf DEF Brought
  <2>2. Elements(index) \subseteq Card
    BY ElementsOf
  <2> QED BY <1>2, <2>1, <2>2 DEF Brought, QueueInv
<1>7. \A x \in Path : File(x) \in Elements(kept) => File(x) \in Elements(flash')
  BY <1>2, <1>4, <1>5 DEF Brought
<1>8. ready \in Seq(ReadyItems) /\ r \in ReadyItems /\ ready' = Append(ready, r)
  BY <1>2 DEF Brought, QueueInv, ReadyItems
<1>9. r.path = path
  OBVIOUS
<1> HIDE DEF r
<1>10. /\ ready' \in Seq(ReadyItems) /\ Len(ready) \in Nat /\ Len(ready') = Len(ready) + 1
       /\ ready'[Len(ready) + 1] = r
       /\ \A k \in 1 .. Len(ready) : ready'[k] = ready[k] /\ Later(k)' = Later(k) \cup {f}
  BY <1>8, <1>9, ReadyGrows
<1>11. /\ After(disk, f) = {} /\ After(index, f) = {}
       /\ \A k \in 1 .. Len(ready) : ready[k].fetched =>
              /\ After(disk, File(ready[k].path)) \subseteq Later(k) \cup {f}
              /\ After(index, File(ready[k].path)) \subseteq Later(k) \cup {f}
  BY <1>2 DEF Brought
<1>12. ASSUME NEW k \in 1 .. Len(ready'), ready'[k].fetched
       PROVE  /\ After(flash', File(ready'[k].path)) \subseteq Later(k)'
              /\ After(entries', File(ready'[k].path)) \subseteq Later(k)'
  <2>1. CASE k \in 1 .. Len(ready)
    <3>1. File(ready[k].path) \in Card
      BY <1>8, <2>1, ReadyPath
    <3> QED BY <1>4, <1>5, <1>10, <1>11, <1>12, <2>1, <3>1
  <2>2. CASE k = Len(ready) + 1
    <3>1. File(ready'[k].path) = f /\ f \in Card
      BY <1>9, <1>10, <2>2, FileTypes
    <3> QED BY <1>4, <1>5, <1>11, <3>1
  <2> QED BY <1>10, <2>1, <2>2
<1>13. \A k \in 1 .. Len(ready') : ready'[k].fetched => Follows(k)'
  BY <1>12 DEF Follows, File
<1> QED BY <1>3, <1>4, <1>6, <1>7, <1>10, <1>13 DEF QueueInv, File

-----------------------------------------------------------------------------
(* A file leaves the card only by an eviction, and that has come to it with *)
(* too much left.                                                           *)
OnCard ==
    /\ loading # <<>> /\ Len(ready') > Len(ready) => File(loading[1]) \in Elements(flash')
    /\ \A k \in DOMAIN ready :
          LET file  == File(ready[k].path)
              since == {File(ready'[j].path) : j \in k .. Len(ready')} \cup undead'
              files == SetToSeq(since)
          IN  ready[k].fetched /\ file \in Elements(flash) \ Elements(flash')
              => Over(Len(files), TotalBytes(files))

LEMMA DownloadEvicts ==
  ASSUME QueueInv, NEW locked, Downloaded(locked) PROVE OnCard
<1>1. PICK path \in Path : \E disk, index, kept \in Seq(Card) :
            Brought(locked, path, disk, index, kept)
  BY Brings
<1>2. PICK disk \in Seq(Card), index \in Seq(Card), kept \in Seq(Card) :
            Brought(locked, path, disk, index, kept)
  BY <1>1
<1> DEFINE f == File(path)
           gone == Elements(index) \ Elements(kept)
           r == [path |-> path, fetched |-> TRUE]
<1>3. /\ kept = Evict(index, f, locked, disk).kept /\ Distinct(index)
      /\ kept # <<>> /\ Last(kept) = f /\ loading = <<path>>
      /\ Elements(disk) = (Elements(flash) \ {Temp(path)}) \cup {f}
      /\ undead' = (undead \cup locked \cup (Elements(index) \ Elements(disk))) \ gone
  BY <1>2 DEF Brought
<1>4. Elements(flash') = Elements(disk) \ gone
  <2>1. flash' = Only(disk, Elements(disk) \ gone)
    BY <1>2 DEF Brought
  <2>2. Elements(Only(disk, Elements(disk) \ gone)) = Elements(disk) \cap (Elements(disk) \ gone)
    BY OnlyElements
  <2> QED BY <2>1, <2>2
<1>5. f \in Elements(kept)
  BY <1>3, ElementsOf DEF Last
<1>6. File(loading[1]) \in Elements(flash')
  BY <1>3, <1>4, <1>5
<1>7. ready \in Seq(ReadyItems) /\ r \in ReadyItems /\ ready' = Append(ready, r)
  BY <1>2 DEF Brought, QueueInv, ReadyItems
<1>8. r.path = path
  OBVIOUS
<1> HIDE DEF r
<1>9. /\ ready' \in Seq(ReadyItems) /\ Len(ready) \in Nat /\ Len(ready') = Len(ready) + 1
      /\ \A k \in 1 .. Len(ready) : ready'[k] = ready[k] /\ Later(k)' = Later(k) \cup {f}
  BY <1>7, <1>8, ReadyGrows
<1>10. undead' \subseteq Card
  BY QueueDownloaded DEF QueueInv
<1>11. \A x \in Path : File(x) # Temp(path)
  BY DEF File, Temp
<1>12. ASSUME NEW k \in 1 .. Len(ready), ready[k].fetched,
              File(ready[k].path) \in Elements(flash) \ Elements(flash')
       PROVE  LET files == SetToSeq(Later(k)' \cup undead')
              IN  Over(Len(files), TotalBytes(files))
  <2> DEFINE g == File(ready[k].path)
             F == Later(k)' \cup undead'
             files == SetToSeq(F)
             Must == {e \in Elements(kept) : Stays(e, f, locked, disk)}
  <2>1. g \in Card /\ ready[k].path \in Path
    BY <1>7, ReadyPath
  <2>2. g \in Elements(index) \ Elements(kept)
    BY <1>3, <1>4, <1>11, <1>12, <2>1
  <2>3. After(index, g) \subseteq Later(k) \cup {f}
    BY <1>2, <1>12 DEF Brought
  <2>4. g \in Later(k)'
    <3>1. k \in k .. Len(ready) /\ g \in Later(k)
      BY <1>9 DEF Later
    <3> QED BY <1>9, <3>1
  <2>5. Later(k)' = Later(k) \cup {f}
    BY <1>9
  <2>6. Must \subseteq F
    <3> SUFFICES ASSUME NEW e \in Must PROVE e = f \/ e \in undead'
      BY <2>5
    <3>1. e \in Elements(kept) /\ Elements(kept) \subseteq Elements(index)
      BY <1>3, EvictFacts
    <3>2. e \notin gone
      BY <3>1
    <3>3. e = f \/ e \in locked \/ e \in Elements(index) \ Elements(disk)
      BY <3>1 DEF Stays
    <3> QED BY <1>3, <3>2, <3>3
  <2> HIDE DEF g
  <2>7. F \subseteq Card
    <3>1. Later(k) \subseteq Card
      <4> SUFFICES ASSUME NEW j \in k .. Len(ready) PROVE File(ready[j].path) \in Card
        BY DEF Later
      <4>1. j \in 1 .. Len(ready)
        BY <1>9
      <4> QED BY <1>7, <4>1, ReadyPath
    <3> QED BY <1>10, <2>5, <3>1, FileTypes
  <2>8. PICK z \in Seq(Card) : /\ Distinct(z) /\ Over(Len(z), TotalBytes(z))
                               /\ Elements(z) \subseteq Must \cup {g} \cup After(index, g)
    <3>1. \A e \in Elements(index) \ Elements(kept) : \E z \in Seq(Card) :
                  /\ Distinct(z) /\ Over(Len(z), TotalBytes(z))
                  /\ Elements(z) \subseteq Must \cup {e} \cup After(index, e)
      BY <1>3, EvictOrder
    <3> QED BY <2>2, <3>1
  <2>9. Elements(z) \subseteq F
    BY <2>3, <2>4, <2>5, <2>6, <2>8
  <2> HIDE DEF F
  <2>10. files \in Seq(Card) /\ Elements(files) = F
    BY <2>7, AsList
  <2> HIDE DEF files
  <2>11. Over(Len(files), TotalBytes(files))
    BY <2>8, <2>9, <2>10, FewerFiles
  <2> QED BY <2>11 DEF files, F
<1>13. \A k \in DOMAIN ready : k \in 1 .. Len(ready)
  BY <1>7
<1> QED BY <1>6, <1>12, <1>13 DEF OnCard, Later, File

(* The other steps remove no file.                                          *)
LEMMA NoneEvicted ==
  ASSUME ready \in Seq(ReadyItems), loading = <<>> \/ Len(ready') <= Len(ready),
         \A x \in Path : File(x) \in Elements(flash) => File(x) \in Elements(flash')
  PROVE  OnCard
<1>1. \A k \in DOMAIN ready : ready[k].path \in Path
  BY ReadyPath
<1>2. loading # <<>> => ~(Len(ready') > Len(ready))
  OBVIOUS
<1> QED BY <1>1, <1>2 DEF OnCard

LEMMA FirstQueue == CacheInit => QueueInv
<1> SUFFICES ASSUME CacheInit PROVE QueueInv
  OBVIOUS
<1>1. CacheInv /\ entries = NotYet /\ ready = <<>> /\ undead = {}
  BY FirstCard DEF CacheInit
<1>2. ready \in Seq(ReadyItems) /\ Len(ready) = 0
  BY <1>1
<1> QED BY <1>1, <1>2 DEF QueueInv

LEMMA QueueKept == QueueInv /\ [CacheNext]_cacheVars => QueueInv' /\ (OnCard \/ UNCHANGED cacheVars)
<1> SUFFICES ASSUME QueueInv, [CacheNext]_cacheVars PROVE QueueInv' /\ (OnCard \/ UNCHANGED cacheVars)
  OBVIOUS
<1>1. ready \in Seq(ReadyItems) /\ flash \in Seq(Card)
  BY DEF QueueInv, CacheInv
<1>2. CASE NewProducer \/ Restart
  <2>1. UNCHANGED flash /\ Len(ready') <= Len(ready)
    BY <1>1, <1>2 DEF NewProducer, Restart
  <2> QED BY <1>1, <1>2, <2>1, QueueNew, NoneEvicted
<1>3. ASSUME NEW p \in Path, LoadHit(p) PROVE QueueInv' /\ OnCard
  <2>1. loading = <<>> /\ flash' = Append(Without(flash, File(p)), File(p)) /\ Distinct(flash)
    BY <1>3 DEF LoadHit, QueueInv, CacheInv
  <2>2. Elements(flash') = Elements(flash) \cup {File(p)}
    BY <1>1, <2>1, MovedLast, FileTypes
  <2> QED BY <1>1, <1>3, <2>1, <2>2, QueueHit, NoneEvicted
<1>4. ASSUME NEW p \in Path, LoadMiss(p) PROVE QueueInv' /\ OnCard
  <2>1. loading = <<>> /\ flash' = Append(Without(flash, Temp(p)), Temp(p)) /\ Distinct(flash)
    BY <1>4 DEF LoadMiss, QueueInv, CacheInv
  <2>2. Elements(flash') = Elements(flash) \cup {Temp(p)}
    BY <1>1, <2>1, MovedLast, FileTypes
  <2> QED BY <1>1, <1>4, <2>1, <2>2, QueueMiss, NoneEvicted
<1>5. CASE DownloadFails
  <2>1. UNCHANGED ready /\ flash' = Without(flash, Temp(loading[1])) /\ Len(ready) \in Nat
    BY <1>1, <1>5 DEF DownloadFails
  <2>2. Elements(flash') = Elements(flash) \ {Temp(loading[1])}
    BY <1>1, <2>1, WithoutFacts
  <2>3. \A x \in Path : File(x) # Temp(loading[1])
    BY DEF File, Temp
  <2>4. Len(ready') <= Len(ready)
    BY <2>1
  <2> QED BY <1>1, <1>5, <2>2, <2>3, <2>4, QueueFails, NoneEvicted
<1>6. ASSUME NEW locked, Downloaded(locked) PROVE QueueInv' /\ OnCard
  BY <1>6, QueueDownloaded, DownloadEvicts
<1>7. CASE ShowReady
  <2>1. UNCHANGED flash /\ Len(ready') <= Len(ready)
    BY <1>1, <1>7 DEF ShowReady
  <2> QED BY <1>1, <1>7, <2>1, QueueShows, NoneEvicted
<1>8. CASE UNCHANGED cacheVars
  <2>1. UNCHANGED <<flash, entries, loading, ready, undead>> /\ Len(ready) \in Nat
    BY <1>1, <1>8 DEF cacheVars
  <2>2. CacheInv' /\ Pending' = Pending
    BY <2>1, SameIndex DEF QueueInv, Pending, Temp
  <2>3. \A k \in 1 .. Len(ready) : Later(k)' = Later(k)
    BY <2>1, SameReady
  <2>4. QueueInv'
    BY <2>1, <2>2, <2>3 DEF QueueInv, Follows, File
  <2> QED BY <1>8, <2>4
<1> QED BY <1>2, <1>3, <1>4, <1>5, <1>6, <1>7, <1>8 DEF CacheNext

(* A photo just downloaded is on the card and stays there until its turn,   *)
(* unless what was loaded since is over the limits with it and what cannot  *)
(* be removed: for any queue, sizes and limits (server.py:200-211).         *)
THEOREM CacheDownloadedKept == CacheSpec => DownloadedKept
<1>1. CacheInit => QueueInv
  BY FirstQueue
<1>2. QueueInv /\ [CacheNext]_cacheVars => QueueInv'
  BY QueueKept
<1>3. QueueInv /\ [CacheNext]_cacheVars => [OnCard]_cacheVars
  BY QueueKept
<1>4. CacheSpec => [][OnCard]_cacheVars
  BY <1>1, <1>2, <1>3, PTL DEF CacheSpec
<1> QED BY <1>4 DEF DownloadedKept, OnCard

(***************************************************************************)
(* An upload no other of its name overlaps is stored whole.  Alone, it     *)
(* writes the staging file from its start, and nobody else holds that      *)
(* file open; once stored, nobody holds it open and the staging name does  *)
(* not refer to it.                                                        *)
(***************************************************************************)
Transfer == [at : {"new", "open", "ok", "duplicate", "too large", "error"},
             ino : Nat \cup {NoInode}, off : Nat]

StageTypes ==
    /\ inodes \in Seq(Seq(Data))
    /\ staged \in 1 .. Len(inodes) \cup {NoInode}
    /\ owner \in Sender \cup {NoInode}
    /\ sending \in [Sender -> Transfer]
    /\ disturbed \subseteq Sender
    /\ \A u \in Open : sending[u].ino \in 1 .. Len(inodes)

(* The first n chunks of a body are what an inode holds.                    *)
Begun(body, n, file) == Len(file) = n /\ n <= Len(body) /\ \A k \in 1 .. n : file[k] = body[k]

Alone ==
    \A u \in Open \ disturbed :
        /\ Open = {u}
        /\ staged = sending[u].ino
        /\ Begun(Body[u], sending[u].off, inodes[staged])

(* Nothing can be written to the stored file any more.                      *)
Settled ==
    owner \notin disturbed \cup {NoInode} =>
        /\ stored \in 1 .. Len(inodes) /\ stored # staged
        /\ inodes[stored] = Body[owner]
        /\ \A v \in Open : sending[v].ino # stored

NoOthersError == \A u \in Sender \ disturbed : sending[u].at = "error" => u \in faults

StageInv == StageTypes /\ Alone /\ Settled /\ NoOthersError

LEMMA InRange ==
  /\ \A n \in Nat : \A k \in 1 .. n : k \in Nat
  /\ \A n \in Nat : n + 1 \notin 1 .. n
  /\ \A n \in Nat : \A m \in Nat : n <= m => 1 .. n \subseteq 1 .. m
  OBVIOUS

LEMMA PutAt ==
  ASSUME NEW T, NEW s \in Seq(T), NEW i \in 1 .. Len(s), NEW x \in T
  PROVE  /\ [s EXCEPT ![i] = x] \in Seq(T) /\ Len([s EXCEPT ![i] = x]) = Len(s)
         /\ [s EXCEPT ![i] = x][i] = x
         /\ \A k \in 1 .. Len(s) : k # i => [s EXCEPT ![i] = x][k] = s[k]
  OBVIOUS

LEMMA MovedOn ==
  ASSUME NEW t \in Transfer, NEW n \in Nat
  PROVE  /\ [t EXCEPT !.off = n] \in Transfer /\ [t EXCEPT !.off = n].off = n
         /\ [t EXCEPT !.off = n].at = t.at /\ [t EXCEPT !.off = n].ino = t.ino
  BY DEF Transfer

LEMMA SameSequence ==
  ASSUME NEW T, NEW s \in Seq(T), NEW t \in Seq(T), Len(s) = Len(t),
         \A k \in 1 .. Len(s) : s[k] = t[k]
  PROVE  s = t
  OBVIOUS

(* A chunk written where the file ends goes on with it.                     *)
LEMMA WrittenFacts ==
  ASSUME NEW file \in Seq(Data), NEW off \in Nat, NEW chunk \in Data
  PROVE  /\ WrittenAt(file, off, chunk) \in Seq(Data)
         /\ Len(file) = off =>
              /\ Len(WrittenAt(file, off, chunk)) = off + 1
              /\ WrittenAt(file, off, chunk)[off + 1] = chunk
              /\ \A k \in 1 .. off : WrittenAt(file, off, chunk)[k] = file[k]
<1> DEFINE n == IF Len(file) > off THEN Len(file) ELSE off + 1
           w == [k \in 1 .. n |->
                    IF k = off + 1 THEN chunk ELSE IF k <= Len(file) THEN file[k] ELSE Hole]
<1>1. Len(file) \in Nat /\ n \in Nat /\ \A k \in 1 .. Len(file) : file[k] \in Data
  BY SeqFacts
<1>2. Hole \in Data
  BY DEF Data
<1>3. \A k \in 1 .. n : w[k] \in Data
  BY <1>1, <1>2
<1>4. w \in Seq(Data) /\ Len(w) = n
  <2> HIDE DEF n
  <2> QED BY <1>1, <1>3
<1>5. WrittenAt(file, off, chunk) = w
  BY DEF WrittenAt
<1>6. Len(file) = off => n = off + 1 /\ w[off + 1] = chunk /\ \A k \in 1 .. off : w[k] = file[k]
  BY <1>1
<1> HIDE DEF n, w
<1> QED BY <1>4, <1>5, <1>6

(* The staging file with new content.                                       *)
LEMMA StagedFacts ==
  ASSUME StageTypes, NEW content \in Seq(Data)
  PROVE  /\ WithStaged(content) \in Seq(Seq(Data))
         /\ StagingInode \in 1 .. Len(WithStaged(content))
         /\ Len(inodes) \in Nat /\ Len(inodes) <= Len(WithStaged(content))
         /\ Len(WithStaged(content)) \in Nat
         /\ WithStaged(content)[StagingInode] = content
         /\ \A k \in 1 .. Len(inodes) : k # StagingInode => WithStaged(content)[k] = inodes[k]
         /\ StagingInode # NoInode
         /\ StagingInode = staged \/ StagingInode = Len(inodes) + 1
<1>1. inodes \in Seq(Seq(Data)) /\ Len(inodes) \in Nat /\ DOMAIN inodes = 1 .. Len(inodes)
  BY SeqFacts DEF StageTypes
<1>2. CASE staged = NoInode
  <2>1. StagingInode = Len(inodes) + 1 /\ WithStaged(content) = Append(inodes, content)
    BY <1>2 DEF StagingInode, WithStaged
  <2>2. /\ Append(inodes, content) \in Seq(Seq(Data))
        /\ Len(Append(inodes, content)) = Len(inodes) + 1
        /\ Append(inodes, content)[Len(inodes) + 1] = content
        /\ \A k \in 1 .. Len(inodes) : Append(inodes, content)[k] = inodes[k]
    BY <1>1, AppendFacts
  <2> QED BY <1>1, <2>1, <2>2, NoInodeAssumption
<1>3. CASE staged # NoInode
  <2>1. staged \in 1 .. Len(inodes) /\ StagingInode = staged
        /\ WithStaged(content) = [inodes EXCEPT ![staged] = content]
    BY <1>3 DEF StagingInode, WithStaged, StageTypes
  <2>2. /\ [inodes EXCEPT ![staged] = content] \in Seq(Seq(Data))
        /\ Len([inodes EXCEPT ![staged] = content]) = Len(inodes)
        /\ [inodes EXCEPT ![staged] = content][staged] = content
        /\ \A k \in 1 .. Len(inodes) :
              k # staged => [inodes EXCEPT ![staged] = content][k] = inodes[k]
    BY <1>1, <2>1, PutAt
  <2> QED BY <1>1, <1>3, <2>1, <2>2
<1> QED BY <1>2, <1>3

LEMMA StageInitially == StageInit => StageInv
<1> SUFFICES ASSUME StageInit PROVE StageInv
  OBVIOUS
<1>1. <<>> \in Seq(Seq(Data))
  OBVIOUS
<1>2. sending \in [Sender -> Transfer] /\ \A u \in Sender : sending[u].at = "new"
  BY DEF StageInit, Transfer
<1>3. Open = {}
  BY <1>2 DEF Open
<1> QED BY <1>1, <1>2, <1>3 DEF StageInit, StageInv, StageTypes, Alone, Settled, NoOthersError

LEMMA BeginKeeps == ASSUME StageInv, NEW u \in Sender, Begin(u) PROVE StageInv'
<1>1. StageTypes /\ Alone /\ Settled /\ NoOthersError /\ sending \in [Sender -> Transfer]
      /\ disturbed \subseteq Sender
  BY DEF StageInv, StageTypes
<1>2. <<>> \in Seq(Data)
  OBVIOUS
<1>3. /\ inodes' = WithStaged(<<>>) /\ staged' = StagingInode /\ sending[u].at = "new"
      /\ sending' = [sending EXCEPT ![u] = [at |-> "open", ino |-> staged', off |-> 0]]
      /\ disturbed' = IF Open = {} THEN disturbed ELSE disturbed \cup Open \cup {u}
      /\ UNCHANGED <<stored, owner, digests, faults>>
  BY DEF Begin, Create
<1>4. /\ inodes' \in Seq(Seq(Data)) /\ staged' \in 1 .. Len(inodes') /\ Len(inodes) <= Len(inodes')
      /\ Len(inodes) \in Nat /\ Len(inodes') \in Nat
      /\ inodes'[staged'] = <<>> /\ staged' # NoInode
      /\ \A k \in 1 .. Len(inodes) : k # staged' => inodes'[k] = inodes[k]
      /\ staged' = staged \/ staged' = Len(inodes) + 1
  BY <1>1, <1>2, <1>3, StagedFacts
<1>5. /\ sending' \in [Sender -> Transfer] /\ sending'[u] = [at |-> "open", ino |-> staged', off |-> 0]
      /\ \A v \in Sender : v # u => sending'[v] = sending[v]
  <2>1. [at |-> "open", ino |-> staged', off |-> 0] \in Transfer
    BY <1>4 DEF Transfer
  <2> QED BY <1>1, <1>3, <2>1
<1>6. Open' = Open \cup {u} /\ u \notin Open
  BY <1>3, <1>5 DEF Open
<1>7. StageTypes'
  <2>1. \A v \in Open' : sending'[v].ino \in 1 .. Len(inodes')
    <3> SUFFICES ASSUME NEW v \in Open' PROVE sending'[v].ino \in 1 .. Len(inodes')
      OBVIOUS
    <3>1. CASE v = u
      BY <1>4, <1>5, <3>1
    <3>2. CASE v # u
      <4>1. sending[v].ino \in 1 .. Len(inodes) /\ v \in Sender
        BY <1>1, <1>6, <3>2 DEF StageTypes, Open
      <4> QED BY <1>4, <1>5, <3>2, <4>1
    <3> QED BY <3>1, <3>2
  <2>2. disturbed' \subseteq Sender /\ owner' \in Sender \cup {NoInode}
    BY <1>1, <1>3 DEF StageTypes, Open
  <2> QED BY <1>4, <1>5, <2>1, <2>2 DEF StageTypes
<1>8. Alone'
  <2>1. CASE Open = {}
    <3>1. Len(<<>>) = 0 /\ Len(Body[u]) \in Nat
      BY BodyAssumption
    <3>2. Begun(Body[u], 0, <<>>)
      BY <3>1 DEF Begun
    <3>3. /\ Open' = {u} /\ staged' = sending'[u].ino /\ sending'[u].off = 0
          /\ inodes'[staged'] = <<>>
      BY <1>4, <1>5, <1>6, <2>1
    <3> QED BY <3>2, <3>3 DEF Alone
  <2>2. CASE Open # {}
    BY <1>3, <1>6, <2>2 DEF Alone
  <2> QED BY <2>1, <2>2
<1>9. Settled'
  <2> SUFFICES ASSUME owner \notin disturbed' \cup {NoInode}
               PROVE  /\ stored \in 1 .. Len(inodes') /\ stored # staged'
                      /\ inodes'[stored] = Body[owner]
                      /\ \A v \in Open' : sending'[v].ino # stored
    BY <1>3 DEF Settled
  <2>1. /\ stored \in 1 .. Len(inodes) /\ stored # staged /\ inodes[stored] = Body[owner]
        /\ \A v \in Open : sending[v].ino # stored
    BY <1>1, <1>3 DEF Settled
  <2>2. stored \in 1 .. Len(inodes') /\ stored # staged' /\ inodes'[stored] = Body[owner]
    BY <1>4, <2>1
  <2>3. \A v \in Open' : sending'[v].ino # stored
    BY <1>5, <1>6, <2>1, <2>2 DEF Open
  <2> QED BY <2>2, <2>3
<1>10. NoOthersError'
  BY <1>1, <1>3, <1>5 DEF NoOthersError
<1> QED BY <1>7, <1>8, <1>9, <1>10 DEF StageInv

(* An upload ends without touching the files' contents.                     *)
LEMMA EndKeeps ==
  ASSUME StageInv, NEW u \in Open, NEW how \in {"ok", "duplicate", "too large", "error"},
         Ended(u, how), how = "error" => u \in faults' \cup disturbed,
         UNCHANGED <<inodes, stored, owner, disturbed>>, faults \subseteq faults',
         staged' \in {staged, NoInode}
  PROVE  StageInv'
<1>1. StageTypes /\ Alone /\ Settled /\ NoOthersError /\ sending \in [Sender -> Transfer]
      /\ disturbed \subseteq Sender /\ u \in Sender
  BY DEF StageInv, StageTypes, Open
<1>2. /\ sending' \in [Sender -> Transfer] /\ sending'[u].at = how
      /\ \A v \in Sender : v # u => sending'[v] = sending[v]
  BY <1>1 DEF Ended, Transfer
<1>3. Open' = Open \ {u}
  BY <1>2 DEF Open
<1>4. StageTypes'
  BY <1>1, <1>2, <1>3 DEF StageTypes, Open
<1>5. Alone'
  <2>1. \A w \in Open \ disturbed : Open = {w}
    BY <1>1 DEF Alone
  <2>2. Open' \ disturbed' = {}
    BY <1>3, <2>1
  <2> QED BY <2>2 DEF Alone
<1>6. Settled'
  <2> SUFFICES ASSUME owner \notin disturbed \cup {NoInode}
               PROVE  /\ stored \in 1 .. Len(inodes) /\ stored # staged'
                      /\ inodes[stored] = Body[owner]
                      /\ \A v \in Open' : sending'[v].ino # stored
    BY DEF Settled
  <2>1. /\ stored \in 1 .. Len(inodes) /\ stored # staged /\ inodes[stored] = Body[owner]
        /\ \A v \in Open : sending[v].ino # stored
    BY <1>1 DEF Settled
  <2>2. stored # staged'
    <3>1. Len(inodes) \in Nat
      BY <1>1, SeqFacts DEF StageTypes
    <3>2. stored \in Nat
      BY <2>1, <3>1, InRange, Zenon
    <3> QED BY <2>1, <3>2, NoInodeAssumption
  <2> QED BY <1>2, <1>3, <2>1, <2>2 DEF Open
<1>7. NoOthersError'
  BY <1>1, <1>2 DEF NoOthersError
<1> QED BY <1>4, <1>5, <1>6, <1>7 DEF StageInv

(* A chunk is written through the upload's own handle.                      *)
LEMMA WriteKeeps ==
  ASSUME StageInv, NEW u \in Open, sending[u].off < Len(Body[u]),
         inodes' = [inodes EXCEPT ![sending[u].ino] =
                       WrittenAt(@, sending[u].off, Body[u][sending[u].off + 1])],
         sending' = [sending EXCEPT ![u].off = @ + 1],
         UNCHANGED <<staged, stored, owner, digests, disturbed, faults>>
  PROVE  StageInv'
<1>1. StageTypes /\ Alone /\ Settled /\ NoOthersError /\ sending \in [Sender -> Transfer]
      /\ u \in Sender
  BY DEF StageInv, StageTypes, Open
<1> DEFINE i == sending[u].ino
           n == sending[u].off
           c == Body[u][n + 1]
<1>2. i \in 1 .. Len(inodes) /\ n \in Nat /\ inodes \in Seq(Seq(Data)) /\ Len(inodes) \in Nat
  BY <1>1, SeqFacts DEF StageTypes, Transfer
<1>3. Body[u] \in Seq(Data) /\ Len(Body[u]) \in Nat /\ n + 1 \in 1 .. Len(Body[u])
  <2>1. Body[u] \in Seq(Data)
    BY <1>1, BodyAssumption
  <2>2. Len(Body[u]) \in Nat
    BY <2>1, SeqFacts
  <2> QED BY <1>2, <2>1, <2>2
<1>4. c \in Data /\ inodes[i] \in Seq(Data)
  BY <1>2, <1>3, SeqFacts
<1> DEFINE w == WrittenAt(inodes[i], n, c)
<1>5. /\ w \in Seq(Data)
      /\ Len(inodes[i]) = n =>
           Len(w) = n + 1 /\ w[n + 1] = c /\ \A k \in 1 .. n : w[k] = inodes[i][k]
  <2> HIDE DEF n, c, i
  <2> QED BY <1>2, <1>4, WrittenFacts, Zenon
<1>6. inodes' = [inodes EXCEPT ![i] = w]
  OBVIOUS
<1> HIDE DEF w
<1>7. /\ inodes' \in Seq(Seq(Data)) /\ Len(inodes') = Len(inodes) /\ inodes'[i] = w
      /\ \A k \in 1 .. Len(inodes) : k # i => inodes'[k] = inodes[k]
  <2> HIDE DEF i, n
  <2>1. inodes' = [inodes EXCEPT ![i] = w]
    BY <1>6
  <2>2. inodes \in Seq(Seq(Data)) /\ i \in 1 .. Len(inodes) /\ w \in Seq(Data)
    BY <1>2, <1>5
  <2>3. /\ [inodes EXCEPT ![i] = w] \in Seq(Seq(Data))
        /\ Len([inodes EXCEPT ![i] = w]) = Len(inodes)
        /\ [inodes EXCEPT ![i] = w][i] = w
        /\ \A k \in 1 .. Len(inodes) : k # i => [inodes EXCEPT ![i] = w][k] = inodes[k]
    BY <2>2, PutAt
  <2> QED BY <2>1, <2>3
<1>8. /\ sending' \in [Sender -> Transfer] /\ sending'[u] = [sending[u] EXCEPT !.off = @ + 1]
      /\ \A v \in Sender : v # u => sending'[v] = sending[v]
  <2>1. sending[u] \in Transfer /\ sending' = [sending EXCEPT ![u] = [sending[u] EXCEPT !.off = n + 1]]
    BY <1>1
  <2>2. [sending[u] EXCEPT !.off = n + 1] \in Transfer
    <3>1. n + 1 \in Nat
      BY <1>2
    <3> QED BY <2>1, <3>1, MovedOn, Zenon
  <2> QED BY <1>1, <2>1, <2>2
<1>9. /\ \A v \in Sender : sending'[v].at = sending[v].at /\ sending'[v].ino = sending[v].ino
      /\ sending'[u].off = n + 1
  <2>1. sending[u] \in Transfer
    BY <1>1
  <2> QED BY <1>8, <2>1 DEF Transfer
<1>10. Open' = Open
  BY <1>9 DEF Open
<1>11. StageTypes'
  BY <1>1, <1>7, <1>8, <1>9, <1>10 DEF StageTypes, Open
<1>12. Alone'
  <2> SUFFICES ASSUME NEW v \in Open \ disturbed
               PROVE  /\ Open = {v} /\ staged = sending'[v].ino
                      /\ Begun(Body[v], sending'[v].off, inodes'[staged])
    BY <1>10 DEF Alone
  <2>1. Open = {v} /\ staged = sending[v].ino /\ Begun(Body[v], sending[v].off, inodes[staged])
    BY <1>1 DEF Alone
  <2>2. v = u /\ staged = i /\ Begun(Body[u], n, inodes[i])
    BY <2>1
  <2>3. Begun(Body[u], n + 1, w)
    <3>1. Len(w) = n + 1 /\ w[n + 1] = Body[u][n + 1] /\ \A k \in 1 .. n : w[k] = inodes[i][k]
      BY <1>5, <2>2 DEF Begun
    <3>2. \A k \in 1 .. n : inodes[i][k] = Body[u][k]
      BY <2>2 DEF Begun
    <3>3. n + 1 <= Len(Body[u])
      BY <1>3
    <3>4. \A k \in 1 .. n + 1 : k = n + 1 \/ k \in 1 .. n
      BY <1>2
    <3> HIDE DEF n, i
    <3> QED BY <3>1, <3>2, <3>3, <3>4 DEF Begun
  <2> QED BY <1>7, <1>9, <2>1, <2>2, <2>3
<1>13. Settled'
  <2> SUFFICES ASSUME owner \notin disturbed \cup {NoInode}
               PROVE  /\ stored \in 1 .. Len(inodes') /\ stored # staged
                      /\ inodes'[stored] = Body[owner]
                      /\ \A v \in Open' : sending'[v].ino # stored
    BY DEF Settled
  <2>1. /\ stored \in 1 .. Len(inodes) /\ stored # staged /\ inodes[stored] = Body[owner]
        /\ \A v \in Open : sending[v].ino # stored
    BY <1>1 DEF Settled
  <2>2. \A v \in Open' : sending'[v].ino # stored
    BY <1>9, <1>10, <2>1 DEF Open
  <2> QED BY <1>7, <2>1, <2>2
<1>14. NoOthersError'
  BY <1>1, <1>9 DEF NoOthersError
<1> QED BY <1>11, <1>12, <1>13, <1>14 DEF StageInv

LEMMA ChunkKeeps == ASSUME StageInv, NEW u \in Sender, Chunk(u) PROVE StageInv'
<1>1. u \in Open /\ sending[u].off < Len(Body[u])
  BY DEF Chunk, Open, Uploaded
<1>2. CASE sending[u].off >= Limit
  BY <1>1, <1>2, EndKeeps DEF Chunk, Uploaded
<1>3. CASE ~(sending[u].off >= Limit)
  <2>1. CASE Ended(u, "error") /\ faults' = faults \cup {u} /\ UNCHANGED inodes
    BY <1>1, <1>3, <2>1, EndKeeps DEF Chunk, Uploaded
  <2>2. CASE /\ inodes' = [inodes EXCEPT ![sending[u].ino] =
                              WrittenAt(@, sending[u].off, Body[u][sending[u].off + 1])]
             /\ sending' = [sending EXCEPT ![u].off = @ + 1]
             /\ UNCHANGED faults
    BY <1>1, <1>3, <2>2, WriteKeeps DEF Chunk, Uploaded
  <2> QED BY <1>3, <2>1, <2>2 DEF Chunk, Uploaded
<1> QED BY <1>2, <1>3

LEMMA FinishKeeps == ASSUME StageInv, NEW u \in Sender, Finish(u) PROVE StageInv'
<1>1. StageTypes /\ Alone /\ Settled /\ NoOthersError /\ sending \in [Sender -> Transfer]
      /\ disturbed \subseteq Sender /\ inodes \in Seq(Seq(Data))
  BY DEF StageInv, StageTypes
<1>2. /\ u \in Open /\ sending[u].off = Len(Body[u]) /\ staged' = NoInode
      /\ UNCHANGED <<inodes, disturbed, faults>>
  BY DEF Finish, Finalize, Open, Uploaded
<1>3. CASE Ended(u, "duplicate") /\ UNCHANGED <<stored, owner>>
  BY <1>2, <1>3, EndKeeps
<1>4. CASE staged = NoInode /\ Ended(u, "error") /\ UNCHANGED <<stored, owner>>
  <2>1. u \in disturbed
    <3>1. u \notin disturbed => staged = sending[u].ino
      BY <1>1, <1>2 DEF Alone
    <3>2. sending[u].ino \in 1 .. Len(inodes) /\ Len(inodes) \in Nat
      BY <1>1, <1>2, SeqFacts DEF StageTypes
    <3>3. sending[u].ino \in Nat
      BY <3>2
    <3> QED BY <1>4, <3>1, <3>3, NoInodeAssumption
  <2> QED BY <1>2, <1>4, <2>1, EndKeeps
<1>5. CASE staged # NoInode /\ stored' = staged /\ owner' = u /\ Ended(u, "ok")
  <2>1. /\ sending' \in [Sender -> Transfer] /\ sending'[u].at = "ok"
        /\ \A v \in Sender : v # u => sending'[v] = sending[v]
    BY <1>1, <1>5 DEF Ended, Transfer
  <2>2. Open' = Open \ {u}
    BY <2>1 DEF Open
  <2>3. StageTypes'
    BY <1>1, <1>2, <1>5, <2>1, <2>2 DEF StageTypes, Open
  <2>4. Alone'
    <3>1. \A w \in Open \ disturbed : Open = {w}
      BY <1>1 DEF Alone
    <3>2. Open' \ disturbed' = {}
      BY <1>2, <2>2, <3>1
    <3> QED BY <3>2 DEF Alone
  <2>5. Settled'
    <3> SUFFICES ASSUME u \notin disturbed
                 PROVE  /\ staged \in 1 .. Len(inodes) /\ staged # NoInode
                        /\ inodes[staged] = Body[u]
                        /\ \A v \in Open' : sending'[v].ino # staged
      BY <1>2, <1>5 DEF Settled
    <3>1. Open = {u} /\ Begun(Body[u], sending[u].off, inodes[staged])
      BY <1>1, <1>2 DEF Alone
    <3>2. staged \in 1 .. Len(inodes)
      BY <1>1, <1>5 DEF StageTypes
    <3>3. Body[u] \in Seq(Data) /\ inodes[staged] \in Seq(Data)
      BY <1>1, <3>2, BodyAssumption, SeqFacts
    <3>4. inodes[staged] = Body[u]
      <4>1. Len(inodes[staged]) = Len(Body[u])
            /\ \A k \in 1 .. Len(inodes[staged]) : inodes[staged][k] = Body[u][k]
        BY <1>2, <3>1 DEF Begun
      <4> QED BY <3>3, <4>1, SameSequence
    <3> QED BY <1>5, <2>2, <3>1, <3>2, <3>4
  <2>6. NoOthersError'
    BY <1>1, <1>2, <2>1 DEF NoOthersError
  <2> QED BY <2>3, <2>4, <2>5, <2>6 DEF StageInv
<1> QED BY <1>3, <1>4, <1>5 DEF Finish, Finalize

LEMMA IngestKeeps == ASSUME StageInv, NEW u \in Sender, IngestBytes(u) PROVE StageInv'
<1>1. StageTypes /\ Alone /\ Settled /\ NoOthersError /\ sending \in [Sender -> Transfer]
      /\ disturbed \subseteq Sender /\ inodes \in Seq(Seq(Data)) /\ Open \subseteq Sender
  BY DEF StageInv, StageTypes, Open
<1>2. PICK how \in {"ok", "duplicate", "too large", "error"} : Ended(u, how)
  BY DEF IngestBytes, Finalize
<1>3. /\ sending' \in [Sender -> Transfer] /\ sending'[u].at = how
      /\ \A v \in Sender : v # u => sending'[v] = sending[v]
  BY <1>1, <1>2 DEF Ended, Transfer
<1>4. sending[u].at = "new" /\ u \notin Open /\ UNCHANGED faults
  BY DEF IngestBytes, Open
<1>5. Open' = Open
  BY <1>3, <1>4 DEF Open
<1>6. CASE Len(Body[u]) > Limit
  <2>1. Ended(u, "too large") /\ UNCHANGED <<inodes, staged, stored, owner, digests, disturbed>>
    BY <1>6 DEF IngestBytes
  <2>2. sending'[u].at = "too large"
    BY <1>1, <2>1 DEF Ended, Transfer
  <2>3. StageTypes'
    BY <1>1, <1>3, <1>4, <1>5, <2>1 DEF StageTypes, Open
  <2>4. Alone'
    BY <1>1, <1>3, <1>4, <1>5, <2>1 DEF Alone
  <2>5. Settled'
    BY <1>1, <1>3, <1>4, <1>5, <2>1 DEF Settled
  <2>6. NoOthersError'
    BY <1>1, <1>3, <1>4, <2>1, <2>2 DEF NoOthersError
  <2> QED BY <2>3, <2>4, <2>5, <2>6 DEF StageInv
<1>7. CASE ~(Len(Body[u]) > Limit)
  <2> DEFINE file == StagingInode
  <2>1. /\ inodes' = WithStaged(Body[u]) /\ Finalize(u, file)
        /\ disturbed' = IF Open = {} THEN disturbed ELSE disturbed \cup Open \cup {u}
    BY <1>7 DEF IngestBytes
  <2>2. Body[u] \in Seq(Data)
    BY BodyAssumption
  <2>3. /\ inodes' \in Seq(Seq(Data)) /\ file \in 1 .. Len(inodes') /\ Len(inodes) <= Len(inodes')
        /\ Len(inodes) \in Nat /\ Len(inodes') \in Nat
        /\ inodes'[file] = Body[u] /\ file # NoInode
        /\ \A k \in 1 .. Len(inodes) : k # file => inodes'[k] = inodes[k]
        /\ file = staged \/ file = Len(inodes) + 1
    BY <1>1, <2>1, <2>2, StagedFacts
  <2>4. /\ staged' = NoInode
        /\ \/ how # "error" /\ UNCHANGED <<stored, owner>>
           \/ how # "error" /\ stored' = file /\ owner' = u
    <3>1. CASE Ended(u, "duplicate") /\ UNCHANGED <<stored, owner>>
      <4>1. sending'[u].at = "duplicate"
        BY <1>1, <3>1 DEF Ended, Transfer
      <4> QED BY <1>3, <2>1, <3>1, <4>1 DEF Finalize
    <3>2. CASE Ended(u, "ok") /\ stored' = file /\ owner' = u
      <4>1. sending'[u].at = "ok"
        BY <1>1, <3>2 DEF Ended, Transfer
      <4> QED BY <1>3, <2>1, <3>2, <4>1 DEF Finalize
    <3> QED BY <2>1, <2>3, <3>1, <3>2 DEF Finalize
  <2> HIDE DEF file
  <2>5. StageTypes'
    <3>1. \A v \in Open' : sending'[v].ino \in 1 .. Len(inodes')
      <4> SUFFICES ASSUME NEW v \in Open PROVE sending'[v].ino \in 1 .. Len(inodes')
        BY <1>5
      <4>1. sending'[v] = sending[v] /\ sending[v].ino \in 1 .. Len(inodes)
        BY <1>1, <1>3, <1>4 DEF StageTypes
      <4> QED BY <2>3, <4>1, InRange
    <3>2. disturbed' \subseteq Sender /\ owner' \in Sender \cup {NoInode}
      BY <1>1, <2>1, <2>4 DEF StageTypes
    <3> QED BY <1>3, <2>3, <2>4, <3>1, <3>2 DEF StageTypes
  <2>6. Alone'
    <3>1. Open' \ disturbed' = {}
      BY <1>5, <2>1
    <3> QED BY <3>1 DEF Alone
  <2>7. Settled'
    <3> SUFFICES ASSUME owner' \notin disturbed' \cup {NoInode}
                 PROVE  /\ stored' \in 1 .. Len(inodes') /\ stored' # staged'
                        /\ inodes'[stored'] = Body[owner']
                        /\ \A v \in Open' : sending'[v].ino # stored'
      BY DEF Settled
    <3>1. CASE UNCHANGED <<stored, owner>>
      <4>1. /\ stored \in 1 .. Len(inodes) /\ stored # staged /\ inodes[stored] = Body[owner]
            /\ \A v \in Open : sending[v].ino # stored
        BY <1>1, <2>1, <3>1 DEF Settled
      <4>2. stored # file /\ stored \in Nat
        <5>1. stored \in Nat
          BY <2>3, <4>1, InRange, Zenon
        <5> QED BY <2>3, <4>1, <5>1, InRange
      <4>3. stored \in 1 .. Len(inodes') /\ inodes'[stored] = Body[owner] /\ stored # NoInode
        <5>1. stored \in 1 .. Len(inodes')
          BY <2>3, <4>1, InRange
        <5> QED BY <2>3, <4>1, <4>2, <5>1, NoInodeAssumption
      <4> QED BY <1>1, <1>3, <1>4, <1>5, <2>4, <3>1, <4>1, <4>3
    <3>2. CASE stored' = file /\ owner' = u
      <4>1. Open' = {}
        BY <1>5, <2>1, <3>2
      <4> QED BY <2>3, <2>4, <3>2, <4>1
    <3> QED BY <2>4, <3>1, <3>2
  <2>8. NoOthersError'
    BY <1>1, <1>3, <1>4, <2>1, <2>4 DEF NoOthersError
  <2> QED BY <2>5, <2>6, <2>7, <2>8 DEF StageInv
<1> QED BY <1>6, <1>7

(* An upload that was alone with its name is whole under the final name as  *)
(* long as it is the last one there, and fails only by its own write: for   *)
(* any number of uploads, bodies and limits, and whatever overlapping ones  *)
(* did before and after it (upload.py:47-82, 105-150).                      *)
THEOREM StagingUploadedWhole == StageSpec => []UploadedWhole
<1>1. StageInv /\ [StageNext]_stageVars => StageInv'
  <2> SUFFICES ASSUME StageInv, [StageNext]_stageVars PROVE StageInv'
    OBVIOUS
  <2>1. CASE StageNext
    BY <2>1, BeginKeeps, ChunkKeeps, FinishKeeps, IngestKeeps DEF StageNext
  <2>2. CASE UNCHANGED stageVars
    BY <2>2 DEF stageVars, StageInv, StageTypes, Alone, Settled, NoOthersError, Open
  <2> QED BY <2>1, <2>2
<1>2. StageInv => UploadedWhole
  BY NoInodeAssumption DEF StageInv, Settled, NoOthersError, UploadedWhole
<1> QED BY <1>1, <1>2, StageInitially, PTL DEF StageSpec


-----------------------------------------------------------------------------
(***************************************************************************)
(* A setup that comes to its end has repaired what earlier ones left.  A   *)
(* step that was never cut short has put all its facts there or none; what *)
(* a run has passed is repaired, and what the step at work has passed is   *)
(* of this version.                                                        *)
(***************************************************************************)
(* The facts in the order both programs make them.                          *)
Turn(f, r) ==
    \/ r = 1 /\ f = "hardware"
    \/ r = 2 /\ f \in {"user", "blanking", "console"}
    \/ r = 3 /\ f \in {"dirs", "mpv"}
    \/ r = 4 /\ f \in {"dataset", "playwright", "chromium"}
    \/ r = 5 /\ f = "allowed"
    \/ r = 6 /\ f = "config_dir"
    \/ r = 7 /\ f \in {"key", "cert", "key_mode"}
    \/ r = 8 /\ f \in {"unit", "unit_loaded"}
    \/ r = 9 /\ f = "service"
    \/ r = 10 /\ f = "firewall"
    \/ r = 11 /\ f = "cron"
    \/ r = 12 /\ f \in {"arc", "initramfs"}
    \/ r = 13 /\ f = "arc_now"
    \/ r = 14 /\ f = "scrubs"
    \/ r = 15 /\ f \in {"esp_script", "esp_service", "esp_timer", "esp_enabled", "esp_synced"}
    \/ r = 16 /\ f \in {"update_script", "update_service", "update_timer", "updates_enabled"}
    \/ r = 17 /\ f \in {"pin", "pin_mode"}

(* What is asked of a step that takes turn r: it makes something, what it   *)
(* looks at is of its own facts, and what is not looked at well is fragile. *)
Placed(s, r) ==
    /\ Len(s.makes) \in Nat \ {0} /\ DOMAIN s.makes = 1 .. Len(s.makes)
    /\ \A f \in ToSet(s.makes) : Turn(f, r)
    /\ \A f \in ToSet(s.makes) : \A q \in Nat : Turn(f, q) => q = r
    /\ \A n \in s.needs : \A q \in Nat : Turn(n, q) => q < r
    /\ s.onFail \in {"dies", "stops", "on"}
    /\ s.looks \subseteq ToSet(s.makes)
    /\ s.looks # {} => ToSet(s.makes) \subseteq Fragile \cup (IF s.wants = "there" THEN {} ELSE s.looks)

LEMMA FirstSteps ==
  /\ Placed(HardwareStep, 1)
  /\ Placed(UserStep, 2)
  /\ Placed(DirsStep, 3)
  /\ Placed(ZfsStep, 4)
  /\ Placed(ZfsPermissionsStep, 5)
  /\ Placed(ConfigStep, 6)
  /\ Placed(BlankingStep, 2)
  /\ Placed(MpvStep, 3)
  /\ Placed(PlaywrightStep, 4)
<1>1. Placed(HardwareStep, 1)
  BY DEF HardwareStep, Always, Step, ToSet, Placed, Turn
<1>2. Placed(UserStep, 2)
  BY DEF UserStep, Step, ToSet, Placed, Turn, Fragile
<1>3. Placed(DirsStep, 3)
  BY DEF DirsStep, Always, Step, ToSet, Placed, Turn
<1>4. Placed(ZfsStep, 4)
  BY DEF ZfsStep, Step, ToSet, Placed, Turn, Fragile
<1>5. Placed(ZfsPermissionsStep, 5)
  BY DEF ZfsPermissionsStep, Step, ToSet, Placed, Turn
<1>6. Placed(ConfigStep, 6)
  BY DEF ConfigStep, Always, Step, ToSet, Placed, Turn
<1>7. Placed(BlankingStep, 2)
  BY DEF BlankingStep, Step, ToSet, Placed, Turn, Fragile
<1>8. Placed(MpvStep, 3)
  BY DEF MpvStep, Always, Step, ToSet, Placed, Turn
<1>9. Placed(PlaywrightStep, 4)
  BY DEF PlaywrightStep, Step, ToSet, Placed, Turn, Fragile
<1> QED BY <1>1, <1>2, <1>3, <1>4, <1>5, <1>6, <1>7, <1>8, <1>9

LEMMA LaterSteps ==
  /\ Placed(TlsStep, 7)
  /\ Placed(UnitStep, 8)
  /\ Placed(EnableStep, 9)
  /\ Placed(FirewallStep, 10)
  /\ Placed(CronStep, 11)
  /\ Placed(ArcStep, 12)
  /\ Placed(ArcNowStep, 13)
  /\ Placed(ScrubStep, 14)
  /\ Placed(EspStep, 15)
  /\ Placed(AutoUpdate, 16)
  /\ Placed(PinStep, 17)
<1>1. Placed(TlsStep, 7)
  BY DEF TlsStep, Step, ToSet, Placed, Turn, Fragile
<1>2. Placed(UnitStep, 8)
  BY DEF UnitStep, Always, Step, ToSet, Placed, Turn
<1>3. Placed(EnableStep, 9)
  BY DEF EnableStep, Always, Step, ToSet, Placed, Turn
<1>4. Placed(FirewallStep, 10)
  BY DEF FirewallStep, Step, ToSet, Placed, Turn
<1>5. Placed(CronStep, 11)
  BY DEF CronStep, Step, ToSet, Placed, Turn, Fragile
<1>6. Placed(ArcStep, 12)
  BY DEF ArcStep, Step, ToSet, Placed, Turn, Fragile
<1>7. Placed(ArcNowStep, 13)
  BY DEF ArcNowStep, Step, ToSet, Placed, Turn
<1>8. Placed(ScrubStep, 14)
  BY DEF ScrubStep, Step, ToSet, Placed, Turn
<1>9. Placed(EspStep, 15)
  BY DEF EspStep, Step, ToSet, Placed, Turn
<1>10. Placed(AutoUpdate, 16)
  BY DEF AutoUpdate, Step, ToSet, Placed, Turn
<1>11. Placed(PinStep, 17)
  BY DEF PinStep, Step, ToSet, Placed, Turn, Fragile
<1> QED BY <1>1, <1>2, <1>3, <1>4, <1>5, <1>6, <1>7, <1>8, <1>9, <1>10, <1>11

(* A program whose steps take their turns.                                  *)
InTurn(program, turns) ==
    /\ Len(program) \in Nat \ {0} /\ DOMAIN program = 1 .. Len(program)
    /\ turns \in [1 .. Len(program) -> Nat]
    /\ \A i, j \in 1 .. Len(program) : i < j => turns[i] < turns[j]
    /\ \A i \in 1 .. Len(program) : Placed(program[i], turns[i])

LEMMA ServerInTurn == InTurn(ServerSteps, [i \in 1 .. 17 |-> i])
<1> DEFINE t == [i \in 1 .. 17 |-> i]
<1>1. Len(ServerSteps) = 17 /\ DOMAIN ServerSteps = 1 .. 17
  BY DEF ServerSteps
<1>2. \A i \in 1 .. 17 : Placed(ServerSteps[i], i)
  BY FirstSteps, LaterSteps DEF ServerSteps
<1>3. t \in [1 .. 17 -> Nat] /\ \A i \in 1 .. 17 : t[i] = i
  OBVIOUS
<1> HIDE DEF t
<1> QED BY <1>1, <1>2, <1>3 DEF InTurn

LEMMA DisplayInTurn == InTurn(DisplaySteps, <<1, 2, 3, 4, 8, 9, 16>>)
<1> DEFINE t == <<1, 2, 3, 4, 8, 9, 16>>
<1>1. Len(DisplaySteps) = 7 /\ DOMAIN DisplaySteps = 1 .. 7
  BY DEF DisplaySteps
<1>2. \A i \in 1 .. 7 : Placed(DisplaySteps[i], t[i])
  BY FirstSteps, LaterSteps DEF DisplaySteps
<1>3. t \in [1 .. 7 -> Nat] /\ \A i, j \in 1 .. 7 : i < j => t[i] < t[j]
  OBVIOUS
<1> HIDE DEF t
<1>4. InTurn(DisplaySteps, t)
  BY <1>1, <1>2, <1>3 DEF InTurn
<1> QED BY <1>4 DEF t

-----------------------------------------------------------------------------
MadeBy(i) == ToSet(Steps[i].makes)
AllOrNone(i) ==
    \/ MadeBy(i) \subseteq hurt
    \/ \A f \in MadeBy(i) : have[f] = 0
    \/ \A f \in MadeBy(i) : Right(f)
    \/ setup.at = i /\ setup.k > 1
Places == 1 .. Len(Steps)
Passed(i) == setup.at = 0 \/ i < setup.at

SetupType ==
    /\ role \in {"server", "display"}
    /\ have \in [Facts -> 0 .. Half] /\ version \in 1 .. MaxVersion
    /\ setup \in [at : {0} \cup Places, k : Nat \ {0}]
    /\ setup.at # 0 => setup.k <= Len(Steps[setup.at].makes)

SetupInv ==
    /\ SetupType
    /\ \A i \in Places : AllOrNone(i)
    /\ sound => \A i \in Places : Passed(i) => Repaired(Steps[i])
    /\ setup.at # 0 /\ (sound \/ ~(MadeBy(setup.at) \subseteq hurt)) =>
           \A j \in 1 .. setup.k - 1 : Renewed(Steps[setup.at].makes[j])

(* What the proofs need of the program.                                     *)
LEMMA ProgramFacts ==
  ASSUME role \in {"server", "display"}
  PROVE  /\ Len(Steps) \in Nat \ {0} /\ DOMAIN Steps = Places
         /\ \A i \in Places :
              /\ Len(Steps[i].makes) \in Nat \ {0}
              /\ DOMAIN Steps[i].makes = 1 .. Len(Steps[i].makes)
              /\ MadeBy(i) \subseteq Facts
              /\ Steps[i].onFail \in {"dies", "stops", "on"}
              /\ Steps[i].looks \subseteq MadeBy(i)
              /\ Steps[i].looks # {} =>
                   MadeBy(i) \subseteq Fragile \cup (IF Steps[i].wants = "there" THEN {} ELSE Steps[i].looks)
         /\ \A i, j \in Places : \A f : f \in MadeBy(i) /\ f \in MadeBy(j) => i = j
         /\ \A i, j \in Places : i < j => \A n \in Steps[i].needs : n \notin MadeBy(j)
<1>1. PICK t : InTurn(Steps, t)
  BY ServerInTurn, DisplayInTurn DEF Steps
<1>2. Len(Steps) \in Nat \ {0} /\ DOMAIN Steps = Places
  BY <1>1 DEF InTurn, Places
<1>3. \A i \in Places : t[i] \in Nat /\ Placed(Steps[i], t[i])
  BY <1>1 DEF InTurn, Places
<1>4. \A i \in Places : Steps[i] \in ToSet(ServerSteps) \cup ToSet(DisplaySteps)
  <2> HIDE DEF ServerSteps, DisplaySteps
  <2> QED BY <1>2 DEF Steps, ToSet
<1>5. \A i \in Places : MadeBy(i) \subseteq Facts
  BY <1>4 DEF Facts, MadeBy
<1>6. ASSUME NEW i \in Places, NEW j \in Places, NEW f, f \in MadeBy(i), f \in MadeBy(j)
      PROVE  i = j
  <2>1. Turn(f, t[i]) /\ Turn(f, t[j]) /\ t[i] = t[j]
    BY <1>3, <1>6 DEF Placed, MadeBy
  <2>2. ~(i < j) /\ ~(j < i)
    BY <1>1, <1>3, <2>1 DEF InTurn, Places
  <2> QED BY <1>2, <2>2 DEF Places
<1>7. ASSUME NEW i \in Places, NEW j \in Places, i < j, NEW n \in Steps[i].needs
      PROVE  n \notin MadeBy(j)
  <2>1. n \in MadeBy(j) => t[j] < t[i]
    BY <1>3 DEF Placed, MadeBy
  <2>2. t[i] < t[j]
    BY <1>1, <1>7 DEF InTurn, Places
  <2> QED BY <1>3, <2>1, <2>2
<1>8. \A i \in Places :
              /\ Len(Steps[i].makes) \in Nat \ {0}
              /\ DOMAIN Steps[i].makes = 1 .. Len(Steps[i].makes)
              /\ MadeBy(i) \subseteq Facts
              /\ Steps[i].onFail \in {"dies", "stops", "on"}
              /\ Steps[i].looks \subseteq MadeBy(i)
              /\ Steps[i].looks # {} =>
                   MadeBy(i) \subseteq Fragile \cup (IF Steps[i].wants = "there" THEN {} ELSE Steps[i].looks)
  BY <1>3, <1>5 DEF Placed, MadeBy
<1>9. \A i, j \in Places : \A f : f \in MadeBy(i) /\ f \in MadeBy(j) => i = j
  BY <1>6
<1>10. \A i, j \in Places : i < j => \A n \in Steps[i].needs : n \notin MadeBy(j)
  BY <1>7
<1> QED BY <1>2, <1>8, <1>9, <1>10

LEMMA SetupInitially == SetupInit => SetupInv
<1> SUFFICES ASSUME SetupInit PROVE SetupInv
  OBVIOUS
<1>1. SetupType
  BY SetupAssumption DEF SetupInit, SetupType, Idle, Half
<1>2. \A i \in Places : AllOrNone(i)
  <2>1. \A i \in Places : MadeBy(i) \subseteq Facts
    BY ProgramFacts DEF SetupInit
  <2> QED BY <2>1 DEF SetupInit, AllOrNone
<1> QED BY <1>1, <1>2 DEF SetupInv, SetupInit, Idle

(* Where the next step and the next fact are.                               *)
LEMMA NextStepIs ==
  ASSUME SetupType, setup.at # 0
  PROVE  /\ NextStep \in [at : {0} \cup Places, k : Nat \ {0}] /\ NextStep.k = 1
         /\ NextStep.at # 0 => NextStep.at = setup.at + 1 /\ Len(Steps[NextStep.at].makes) >= 1
         /\ \A i \in Places : (NextStep.at = 0 \/ i < NextStep.at) => i < setup.at \/ i = setup.at
<1>1. setup.at \in Places /\ Len(Steps) \in Nat
  BY ProgramFacts DEF SetupType
<1>2. CASE setup.at = Len(Steps)
  BY <1>1, <1>2 DEF NextStep, Idle, Places
<1>3. CASE setup.at # Len(Steps)
  <2>1. setup.at + 1 \in Places
    BY <1>1, <1>3 DEF Places
  <2>2. Len(Steps[setup.at + 1].makes) >= 1
    BY <2>1, ProgramFacts DEF SetupType
  <2>3. NextStep = [at |-> setup.at + 1, k |-> 1]
    BY <1>3 DEF NextStep
  <2> QED BY <1>1, <2>1, <2>2, <2>3 DEF Places
<1> QED BY <1>2, <1>3

LEMMA NextFactIs ==
  ASSUME SetupType, setup.at # 0, setup.k # Len(Steps[setup.at].makes)
  PROVE  /\ NextFact.at = setup.at /\ NextFact.k = setup.k + 1
         /\ NextFact \in [at : {0} \cup Places, k : Nat \ {0}]
         /\ NextFact.k <= Len(Steps[setup.at].makes)
<1>1. Len(Steps[setup.at].makes) \in Nat
  BY ProgramFacts DEF SetupType
<1> QED BY <1>1 DEF SetupType, NextFact

(* A step skipped because of what it looks at is repaired.                  *)
LEMMA SkippedRepaired ==
  ASSUME SetupInv, setup.at # 0, setup.k = 1, ~Applies(Steps[setup.at]) \/ Done(Steps[setup.at])
  PROVE  Repaired(Steps[setup.at])
<1> DEFINE i == setup.at
           s == Steps[i]
<1>1. i \in Places /\ have \in [Facts -> 0 .. Half]
  BY DEF SetupInv, SetupType
<1>2. /\ s.looks \subseteq MadeBy(i) /\ MadeBy(i) \subseteq Facts
      /\ s.looks # {} => MadeBy(i) \subseteq Fragile \cup (IF s.wants = "there" THEN {} ELSE s.looks)
  BY <1>1, ProgramFacts DEF SetupInv, SetupType
<1>3. AllOrNone(i)
  BY <1>1 DEF SetupInv
<1>4. MadeBy(i) = ToSet(s.makes)
  BY DEF MadeBy
<1> HIDE DEF i, s
<1>5. SUFFICES ASSUME Done(s), NEW f \in MadeBy(i)
               PROVE  Overlooked(s, f) \/ (s.looks # {} /\ Right(f))
  BY <1>4 DEF Repaired, i, s
<1>6. s.looks # {} /\ \A g \in s.looks : have[g] # 0
  BY <1>5 DEF Done, Right
<1>7. CASE MadeBy(i) \subseteq hurt
  <2>1. f \in Fragile \/ (s.wants # "there" /\ f \in s.looks)
    BY <1>2, <1>5, <1>6
  <2> QED BY <1>5, <1>6, <1>7, <2>1 DEF Done, Overlooked
<1>8. CASE ~(MadeBy(i) \subseteq hurt)
  <2>1. \A g \in MadeBy(i) : Right(g)
    BY <1>2, <1>3, <1>6, <1>8 DEF AllOrNone, i
  <2> QED BY <1>5, <1>6, <2>1
<1> QED BY <1>7, <1>8

LEMMA SkipKeeps == ASSUME SetupInv, SkipStep PROVE SetupInv'
<1>1. /\ setup.at # 0 /\ setup.k = 1 /\ setup' = NextStep
      /\ UNCHANGED <<role, have, tools, version, sound, hurt>>
  BY DEF SkipStep
<1>2. Steps' = Steps /\ Places' = Places
  BY <1>1 DEF Steps, Places
<1>3. SetupType'
  BY <1>1, <1>2, NextStepIs DEF SetupInv, SetupType
<1>4. ASSUME NEW i \in Places PROVE AllOrNone(i)'
  BY <1>1, <1>2 DEF SetupInv, AllOrNone, MadeBy, Right
<1>5. ASSUME sound, NEW i \in Places, Passed(i)' PROVE Repaired(Steps[i])'
  <2>1. Passed(i) \/ i = setup.at
    BY <1>1, <1>5, NextStepIs DEF SetupInv, Passed
  <2>2. Repaired(Steps[i])
    BY <1>1, <1>5, <2>1, SkippedRepaired DEF SetupInv, SkipStep
  <2> QED BY <1>1, <1>2, <2>2 DEF Repaired, Applies, Right, Renewed, Overlooked, Done
<1>6. 1 .. setup'.k - 1 = {}
  BY <1>1, NextStepIs DEF SetupInv
<1> QED BY <1>1, <1>2, <1>3, <1>4, <1>5, <1>6 DEF SetupInv

(* Only the present fact changes.                                           *)
LEMMA OthersStay ==
  ASSUME SetupType, Working, UNCHANGED role, NEW v, have' = [have EXCEPT ![Present] = v]
  PROVE  /\ Present \in MadeBy(setup.at) /\ Present \in Facts /\ setup.at \in Places
         /\ \A f \in Facts : f # Present => have'[f] = have[f]
         /\ \A i \in Places : i # setup.at => \A f \in MadeBy(i) : have'[f] = have[f]
<1>1. setup.at \in Places /\ setup.k \in 1 .. Len(Steps[setup.at].makes)
  <2>1. setup.at \in Places
    BY DEF SetupType, Working
  <2>2. Len(Steps[setup.at].makes) \in Nat
    BY <2>1, ProgramFacts DEF SetupType
  <2> QED BY <2>1, <2>2 DEF SetupType, Working
<1>2. Present \in MadeBy(setup.at)
  <2>1. DOMAIN Steps[setup.at].makes = 1 .. Len(Steps[setup.at].makes)
    BY <1>1, ProgramFacts DEF SetupType
  <2> QED BY <1>1, <2>1 DEF Present, MadeBy, ToSet
<1>3. Present \in Facts
  BY <1>1, <1>2, ProgramFacts DEF SetupType
<1>4. \A f \in Facts : f # Present => have'[f] = have[f]
  BY DEF SetupType
<1>5. ASSUME NEW i \in Places, i # setup.at, NEW f \in MadeBy(i) PROVE have'[f] = have[f]
  <2>1. f \in Facts /\ f # Present
    BY <1>1, <1>2, <1>5, ProgramFacts DEF SetupType
  <2> QED BY <1>4, <2>1
<1> QED BY <1>1, <1>2, <1>3, <1>4, <1>5

LEMMA MakeKeeps == ASSUME SetupInv, Make PROVE SetupInv'
<1> DEFINE v == IF Present \in Started /\ Right(Present) THEN have[Present] ELSE version
           New(f) == IF f \in Started THEN have'[f] \in 1 .. MaxVersion ELSE have'[f] = version'
<1>1. /\ Working /\ setup.at # 0 /\ setup' = NextFact /\ SetupType
      /\ have' = [have EXCEPT ![Present] = v]
      /\ hurt' = IF setup.k = 1 THEN hurt \ MadeBy(setup.at) ELSE hurt
      /\ UNCHANGED <<role, tools, version, sound>>
  BY DEF Make, Working, SetupInv, MadeBy
<1>2. Steps' = Steps /\ Places' = Places
  BY <1>1 DEF Steps, Places
<1>3. /\ Present \in MadeBy(setup.at) /\ Present \in Facts /\ setup.at \in Places
      /\ \A f \in Facts : f # Present => have'[f] = have[f]
      /\ \A i \in Places : i # setup.at => \A f \in MadeBy(i) : have'[f] = have[f]
  BY <1>1, OthersStay
<1>4. /\ have' \in [Facts -> 0 .. Half] /\ have'[Present] = v /\ version \in 1 .. MaxVersion
      /\ New(Present)
  <2>1. v \in 1 .. MaxVersion /\ version \in 1 .. MaxVersion
    BY <1>1 DEF SetupType, Right
  <2>2. v \in 0 .. Half
    BY <2>1, SetupAssumption DEF Half
  <2>3. have' \in [Facts -> 0 .. Half] /\ have'[Present] = v
    BY <1>1, <1>3, <2>2 DEF SetupType
  <2> QED BY <1>1, <2>1, <2>3 DEF Right
<1> DEFINE m == Steps[setup.at].makes
           ok == sound \/ ~(MadeBy(setup.at) \subseteq hurt')
<1>a. ASSUME NEW i \in Places, i # setup.at, NEW f \in MadeBy(i) PROVE f \in hurt' <=> f \in hurt
  BY <1>1, <1>3, <1>a, ProgramFacts DEF SetupType
<1>b. ok => sound \/ setup.k = 1 \/ ~(MadeBy(setup.at) \subseteq hurt)
  BY <1>1
<1>5. Len(m) \in Nat \ {0} /\ DOMAIN m = 1 .. Len(m) /\ MadeBy(setup.at) \subseteq Facts
  BY <1>1, <1>3, ProgramFacts DEF SetupType
<1>6. setup.k \in 1 .. Len(m) /\ m[setup.k] = Present
  BY <1>1, <1>5 DEF SetupType, Present
<1>7. ASSUME ok, NEW j \in 1 .. setup.k PROVE New(m[j])
  <2>1. m[j] \in Facts
    BY <1>5, <1>6 DEF MadeBy, ToSet
  <2>2. CASE m[j] = Present
    BY <1>4, <2>2
  <2>3. CASE m[j] # Present
    <3>1. j \in 1 .. setup.k - 1
      BY <1>6, <2>3
    <3>2. Renewed(m[j])
      BY <1>1, <1>7, <1>b, <3>1 DEF SetupInv
    <3> QED BY <1>1, <1>3, <2>1, <2>3, <3>2 DEF Renewed, Right
  <2> QED BY <2>2, <2>3
<1>8. ASSUME NEW i \in Places, i < setup.at PROVE Applies(Steps[i])' = Applies(Steps[i])
  <2>1. \A n \in Steps[i].needs : n # Present
    BY <1>1, <1>3, <1>8, ProgramFacts DEF SetupType
  <2>2. \A n \in Steps[i].needs : n \in Facts => have'[n] = have[n]
    BY <1>3, <2>1
  <2> QED BY <1>1, <1>2, <2>2 DEF Applies, Right
<1>9. ASSUME sound, NEW i \in Places, i < setup.at PROVE Repaired(Steps[i])'
  <2>1. Repaired(Steps[i])
    BY <1>1, <1>9 DEF SetupInv, Passed
  <2>2. \A f \in ToSet(Steps[i].makes) : have'[f] = have[f]
    BY <1>3, <1>9 DEF MadeBy, Places
  <2>3. i \in Places /\ i # setup.at /\ Steps[i].looks \subseteq MadeBy(i) /\ MadeBy(i) = ToSet(Steps[i].makes)
    BY <1>1, <1>3, <1>9, ProgramFacts DEF SetupType, MadeBy, Places
  <2>4. Done(Steps[i])' = Done(Steps[i])
    BY <1>2, <2>2, <2>3 DEF Done, Right
  <2>5. \A f \in ToSet(Steps[i].makes) : Overlooked(Steps[i], f) => Overlooked(Steps[i], f)'
    BY <1>2, <1>a, <2>3, <2>4 DEF Overlooked
  <2> QED BY <1>1, <1>2, <1>8, <1>9, <2>1, <2>2, <2>5 DEF Repaired, Renewed, Right
<1>10. ASSUME NEW i \in Places, i # setup.at PROVE AllOrNone(i)'
  <2>1. MadeBy(i) \subseteq hurt => MadeBy(i) \subseteq hurt'
    BY <1>a, <1>10
  <2>2. MadeBy(i)' = MadeBy(i)
    BY <1>2 DEF MadeBy
  <2> QED BY <1>1, <1>3, <1>10, <2>1, <2>2 DEF SetupInv, AllOrNone, Right
<1>11. CASE setup.k # Len(m)
  <2>1. /\ setup'.at = setup.at /\ setup'.k = setup.k + 1 /\ setup'.k <= Len(m)
        /\ setup' \in [at : {0} \cup Places, k : Nat \ {0}]
    BY <1>1, <1>11, NextFactIs
  <2>2. SetupType'
    BY <1>1, <1>2, <1>4, <2>1 DEF SetupType
  <2>3. \A i \in Places : AllOrNone(i)'
    <3>1. \A i \in Places : i = setup.at => AllOrNone(i)'
      BY <1>6, <2>1 DEF AllOrNone
    <3> QED BY <1>10, <3>1
  <2>4. sound => \A i \in Places : Passed(i)' => Repaired(Steps[i])'
    BY <1>1, <1>9, <2>1 DEF Passed
  <2>5. (setup'.at # 0 /\ (sound' \/ ~(MadeBy(setup.at)' \subseteq hurt'))) =>
           \A j \in 1 .. setup'.k - 1 : New(m[j])
    <3>1. MadeBy(setup.at)' = MadeBy(setup.at) /\ setup'.k - 1 = setup.k
      BY <1>2, <1>6, <2>1 DEF MadeBy
    <3> QED BY <1>1, <1>2, <1>7, <2>1, <3>1
  <2>6. \A j \in 1 .. setup'.k - 1 : New(m[j]) => Renewed(Steps[setup.at].makes[j])'
    BY <1>1, <1>2, <2>1 DEF Renewed, Right
  <2> HIDE DEF m, New, v, ok
  <2> QED BY <1>1, <1>2, <2>1, <2>2, <2>3, <2>4, <2>5, <2>6 DEF SetupInv
<1>12. CASE setup.k = Len(m)
  <2>1. setup' = NextStep
    BY <1>1, <1>12 DEF NextFact
  <2>2. SetupType'
    BY <1>1, <1>2, <1>4, <2>1, NextStepIs DEF SetupType
  <2>3. ok => \A f \in MadeBy(setup.at) : New(f)
    <3>1. ASSUME ok, NEW f \in MadeBy(setup.at) PROVE New(f)
      <4>1. PICK j \in 1 .. setup.k : f = m[j]
        BY <1>5, <1>12 DEF MadeBy, ToSet
      <4> QED BY <1>7, <3>1, <4>1
    <3> QED BY <3>1
  <2>4. \A i \in Places : AllOrNone(i)'
    <3>1. ASSUME NEW i \in Places, i = setup.at PROVE AllOrNone(i)'
      <4>1. MadeBy(i)' = MadeBy(i)
        BY <1>2 DEF MadeBy
      <4> QED BY <1>1, <1>4, <2>3, <3>1, <4>1 DEF AllOrNone, Renewed, Right
    <3> QED BY <1>10, <3>1
  <2>5. ASSUME sound, NEW i \in Places, Passed(i)' PROVE Repaired(Steps[i])'
    <3>1. i < setup.at \/ i = setup.at
      BY <1>1, <2>1, <2>5, NextStepIs DEF Passed
    <3>2. i = setup.at => Repaired(Steps[i])'
      BY <1>1, <1>2, <1>4, <2>3, <2>5 DEF Repaired, Renewed, MadeBy, Right
    <3> QED BY <1>9, <2>5, <3>1, <3>2
  <2>6. 1 .. setup'.k - 1 = {}
    BY <1>1, <2>1, NextStepIs
  <2> QED BY <1>1, <1>2, <2>2, <2>4, <2>5, <2>6 DEF SetupInv
<1> QED BY <1>11, <1>12

LEMMA FaultKeeps == ASSUME SetupInv, CommandFails \/ CutShort PROVE SetupInv'
<1>1. /\ Fault /\ LeftHalf /\ Working /\ setup.at # 0 /\ SetupType
      /\ ~sound' /\ hurt' = hurt \cup MadeBy(setup.at)
      /\ UNCHANGED <<role, tools, version>>
  BY DEF CommandFails, CutShort, Fault, Working, SetupInv, MadeBy
<1>2. Steps' = Steps /\ Places' = Places
  BY <1>1 DEF Steps, Places
<1>3. setup.at \in Places
  BY <1>1 DEF SetupType
<1>4. setup' \in {Idle, NextStep, NextFact}
  <2>1. CASE CutShort
    BY <2>1 DEF CutShort
  <2>2. CASE CommandFails
    <3>1. Steps[setup.at].onFail \in {"dies", "stops", "on"}
      BY <1>1, <1>3, ProgramFacts DEF SetupType
    <3> QED BY <2>2, <3>1 DEF CommandFails
  <2> QED BY <2>1, <2>2
<1>5. /\ setup' \in [at : {0} \cup Places, k : Nat \ {0}]
      /\ setup'.at # 0 => setup'.k <= Len(Steps[setup'.at].makes)
      /\ setup'.k = 1 \/ setup'.at = setup.at
  <2>1. CASE setup' = Idle
    BY <2>1 DEF Idle
  <2>2. CASE setup' = NextStep
    BY <1>1, <2>2, NextStepIs
  <2>3. CASE setup' = NextFact /\ setup.k # Len(Steps[setup.at].makes)
    BY <1>1, <2>3, NextFactIs
  <2>4. CASE setup' = NextFact /\ setup.k = Len(Steps[setup.at].makes)
    BY <2>2, <2>4 DEF NextFact
  <2> QED BY <1>4, <2>1, <2>2, <2>3, <2>4
<1>6. have' \in [Facts -> 0 .. Half] /\ \A i \in Places : i # setup.at => \A f \in MadeBy(i) : have'[f] = have[f]
  <2>1. CASE UNCHANGED have
    BY <1>1, <2>1 DEF SetupType
  <2>2. CASE have' = [have EXCEPT ![Present] = Half]
    <3>1. Half \in 0 .. Half
      BY SetupAssumption DEF Half
    <3>2. have' \in [Facts -> 0 .. Half]
      BY <1>1, <2>2, <3>1 DEF SetupType
    <3> QED BY <1>1, <2>2, <3>2, OthersStay
  <2> QED BY <1>1, <2>1, <2>2 DEF LeftHalf
<1>7. SetupType'
  BY <1>1, <1>2, <1>5, <1>6 DEF SetupType
<1>8. ASSUME NEW i \in Places PROVE AllOrNone(i)'
  <2>1. MadeBy(i)' = MadeBy(i)
    BY <1>2 DEF MadeBy
  <2>2. CASE i = setup.at
    BY <1>1, <2>1, <2>2 DEF AllOrNone
  <2>3. CASE i # setup.at
    BY <1>1, <1>6, <2>1, <2>3 DEF SetupInv, AllOrNone, Right
  <2> QED BY <2>2, <2>3
<1>9. setup'.at # 0 /\ ~(MadeBy(setup.at)' \subseteq hurt') => 1 .. setup'.k - 1 = {}
  <2>1. CASE setup'.k = 1
    BY <2>1
  <2>2. CASE setup'.at = setup.at
    BY <1>1, <1>2, <2>2 DEF MadeBy
  <2> QED BY <1>5, <2>1, <2>2
<1> QED BY <1>1, <1>2, <1>7, <1>8, <1>9 DEF SetupInv

(* A new run has passed nothing, and between runs the facts stay.           *)
LEMMA BetweenKeeps ==
  ASSUME SetupInv, StartSetup \/ Upgrade \/ InstallTools
  PROVE  SetupInv'
<1>1. setup.at = 0 /\ UNCHANGED <<role, have, hurt>>
  BY DEF StartSetup, Upgrade, InstallTools
<1>2. Steps' = Steps /\ Places' = Places
  BY <1>1 DEF Steps, Places
<1>3. SetupType /\ 0 \notin Places
  BY DEF SetupInv, Places
<1>4. \A i \in Places : AllOrNone(i)'
  BY <1>1, <1>2, <1>3 DEF SetupInv, AllOrNone, MadeBy, Right
<1>5. CASE StartSetup
  <2>1. setup' = [at |-> 1, k |-> 1] /\ version' = version
    BY <1>5 DEF StartSetup
  <2>2. 1 \in Places /\ Len(Steps[1].makes) >= 1
    <3>1. 1 \in Places
      BY <1>3, ProgramFacts DEF SetupType, Places
    <3> QED BY <1>3, <3>1, ProgramFacts DEF SetupType
  <2>3. SetupType'
    BY <1>1, <1>2, <1>3, <2>1, <2>2 DEF SetupType
  <2>4. \A i \in Places : ~Passed(i)'
    BY <2>1 DEF Passed, Places
  <2> QED BY <1>2, <1>4, <2>1, <2>3, <2>4 DEF SetupInv
<1>6. CASE Upgrade \/ InstallTools
  <2>1. ~sound' /\ setup' = setup
    BY <1>6 DEF Upgrade, InstallTools
  <2>2. version' \in 1 .. MaxVersion
    BY <1>3, <1>6, SetupAssumption DEF Upgrade, InstallTools, SetupType
  <2>3. SetupType'
    BY <1>1, <1>2, <1>3, <2>1, <2>2 DEF SetupType
  <2> QED BY <1>1, <1>2, <1>4, <2>1, <2>3 DEF SetupInv
<1> QED BY <1>5, <1>6

LEMMA SetupKept == SetupInv /\ [SetupNext]_setupVars => SetupInv'
<1>1. CASE UNCHANGED setupVars
  <2>1. UNCHANGED <<role, have, tools, version, setup, sound, hurt>>
    BY <1>1 DEF setupVars
  <2>2. Steps' = Steps /\ Places' = Places
    BY <2>1 DEF Steps, Places
  <2> QED BY <2>1, <2>2 DEF SetupInv, SetupType, AllOrNone, MadeBy, Right, Renewed, Overlooked, Done,
                            Repaired, Applies, Passed
<1> QED BY <1>1, SkipKeeps, MakeKeeps, FaultKeeps, BetweenKeeps DEF SetupNext

(* A run of the setup that comes to its end without a failure repairs what  *)
(* earlier runs left undone, half done or of an older version, but for what *)
(* it overlooks: the eight fragile facts, while a step broken off over them *)
(* takes what it sees for all its work.  After any number of upgrades,      *)
(* faults and runs (setup/__init__.py:7-8).                                 *)
THEOREM SetupRunRepairs == SetupSpec => []SetupRepairs
<1>1. SetupInv => SetupRepairs
  <2> SUFFICES ASSUME SetupInv, setup.at = 0, sound, NEW s \in ToSet(Steps) PROVE Repaired(s)
    BY DEF SetupRepairs
  <2>1. PICK i \in Places : s = Steps[i]
    BY ProgramFacts DEF SetupInv, SetupType, ToSet
  <2> QED BY <2>1 DEF SetupInv, Passed
<1> QED BY <1>1, SetupInitially, SetupKept, PTL DEF SetupSpec
=============================================================================
