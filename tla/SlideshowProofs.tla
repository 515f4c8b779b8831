-------------------------- MODULE SlideshowProofs --------------------------
(***************************************************************************)
(* Proofs about Slideshow, for every library, every set of programmed      *)
(* slideshows, every size of the queue and of the history, and any number  *)
(* of requests.                                                            *)
(***************************************************************************)
EXTENDS Slideshow, ListsProofs, FiniteSetTheorems, SequenceTheorems, TLAPS

-----------------------------------------------------------------------------
(* Type correctness, and the cursor that prev and next index with.          *)

TypeInv == SlideTypeOK /\ CursorInRange

(* The parts of the state, as the actions change them. *)
SourceOK ==
    /\ library \subseteq Photo
    /\ paired \in BOOLEAN
    /\ source \in Sources \cup {None}
    /\ producer \in [pc : {"take", "fetch", "load", "dead"}, live : BOOLEAN,
                     old : Sources \cup {None}, item : Photo \cup {None}]
    /\ (producer.pc = "load") = (producer.item # None)
    /\ (producer.pc = "fetch" /\ ~producer.live) = (producer.old # None)
    /\ producer.pc \in {"take", "dead"} => producer.live
    /\ producer.pc = "fetch" /\ producer.live => source # None

ScreenOK ==
    /\ queue \in Seq([item : Photo, live : BOOLEAN]) /\ Len(queue) <= MaxPreload
    /\ display \in [pc : {"top", "get", "show"},
                    turn : {"fresh", "preempted", "again"}]
    /\ current \in Photo \cup {None}
    /\ history \in Seq(Photo) /\ Len(history) <= HistoryLen
    /\ cursor \in 0..HistoryLen
    /\ override \in Photo \cup {None}
    /\ CursorInRange

ControlOK ==
    /\ paused \in BOOLEAN
    /\ mode \in {"all", "single", "playlist"}
    /\ timers \subseteq [kind : {"single", "playlist"}, begun : BOOLEAN, due : Nat]

PlayOK == play \in [shown : BOOLEAN, photos : Seq(Photo), ended : Nat, missed : Nat]
RequestsOK == requests \in 0..MaxRequests

LEMMA TypeParts ==
    TypeInv <=> SourceOK /\ ScreenOK /\ ControlOK /\ PlayOK /\ RequestsOK
BY DEF TypeInv, SlideTypeOK, SourceOK, ScreenOK, ControlOK, PlayOK, RequestsOK

LEMMA NextParts ==
    TypeInv' <=> SourceOK' /\ ScreenOK' /\ ControlOK' /\ PlayOK' /\ RequestsOK'
BY DEF TypeInv, SlideTypeOK, SourceOK, ScreenOK, ControlOK, PlayOK, RequestsOK

LEMMA PlaylistType == \A ids \in Playlists : ids \in Seq(Photo)
BY PlaylistsAssumption

LEMMA FunctionIsSeq ==
    ASSUME NEW S, NEW n \in Nat, NEW f \in [1..n -> S]
    PROVE  f \in Seq(S) /\ Len(f) = n
OBVIOUS

(* Sources: how they are made, and what is left of them. *)
LEMMA SourceFields ==
    ASSUME NEW s \in Sources
    PROVE  /\ s.rest \in Seq(Photo)
           /\ s.loop \in BOOLEAN /\ s.remote \in BOOLEAN
           /\ s.ids # None => s.ids \in Seq(Photo)
           /\ \A rest \in Seq(Photo) : [s EXCEPT !.rest = rest] \in Sources
<1>1. s.ids # None => s.ids \in Seq(Photo)
  <2>1. \A p \in Photo : <<p>> \in Seq(Photo)
    OBVIOUS
  <2> QED BY <2>1, PlaylistType DEF Sources
<1>2. ASSUME NEW rest \in Seq(Photo) PROVE [s EXCEPT !.rest = rest] \in Sources
  BY DEF Sources
<1> QED BY <1>1, <1>2 DEF Sources

LEMMA WholeLibraryType == WholeLibrary \in Sources /\ CachedFiles \in Sources
<1>1. <<>> \in Seq(Photo)
  OBVIOUS
<1> QED BY <1>1 DEF WholeLibrary, CachedFiles, Selection, Sources

LEMMA MadeType ==
    ASSUME NEW ids \in Playlists \cup {<<p>> : p \in Photo} \cup {None},
           NEW loop \in BOOLEAN, ids = None => loop
    PROVE  /\ ServerProducer(ids, loop) \in Sources \cup {None}
           /\ ~paired => ServerProducer(ids, loop) = None
<1>1. <<>> \in Seq(Photo)
  OBVIOUS
<1>2. ids # None => ids \in Seq(Photo)
  <2>1. \A p \in Photo : <<p>> \in Seq(Photo)
    OBVIOUS
  <2> QED BY <2>1, PlaylistType
<1>3. Selection(ids, loop) \in Sources
  BY <1>1, <1>2 DEF Selection, Sources
<1> QED BY <1>3 DEF ServerProducer

LEMMA TypeInit == Init => TypeInv
<1> SUFFICES ASSUME Init PROVE TypeInv
  OBVIOUS
<1>1. SourceOK
  BY WholeLibraryType, PhotoAssumption DEF Init, SourceOK
<1>2. ScreenOK
  <2>1. <<>> \in Seq([item : Photo, live : BOOLEAN]) /\ <<>> \in Seq(Photo) /\ Len(<<>>) = 0
    OBVIOUS
  <2> QED BY <2>1, BoundsAssumption DEF Init, ScreenOK, CursorInRange
<1>3. ControlOK
  BY DEF Init, ControlOK
<1>5. RequestsOK
  BY BoundsAssumption DEF Init, RequestsOK
<1>4. PlayOK
  BY DEF Init, PlayOK, NothingPlayed
<1> QED BY <1>1, <1>2, <1>3, <1>4, <1>5, TypeParts

(* What __anext__ runs on. *)
LEMMA RunningType ==
    ASSUME TypeInv, producer.pc = "fetch"
    PROVE  /\ Running \in Sources
           /\ producer.live => Running = source
           /\ ~producer.live => Running = producer.old
BY TypeParts DEF SourceOK, Running

LEMMA CyclesType ==
    ASSUME TypeInv, producer.pc = "fetch"
    PROVE  Cycles \subseteq Seq(Photo)
<1> SUFFICES ASSUME NEW list \in Cycles PROVE list \in Seq(Photo)
  OBVIOUS
<1>1. CASE Running.ids = None
  <2> DEFINE S == IF Running.remote THEN library ELSE Cached
  <2>1. S \subseteq Photo /\ IsFiniteSet(S)
    BY TypeParts, PhotoAssumption, FS_Subset DEF SourceOK
  <2>2. list \in Listings(S)
    BY <1>1 DEF Cycles
  <2>3. Cardinality(S) \in Nat
    BY <2>1, FS_CardinalityType
  <2>4. list \in [1..Cardinality(S) -> S]
    BY <2>2 DEF Listings
  <2> HIDE DEF S
  <2> QED BY <2>1, <2>3, <2>4
<1>2. CASE Running.ids # None
  <2> DEFINE ids == Running.ids
             found == {k \in DOMAIN ids : ids[k] \in library}
  <2>1. ids \in Seq(Photo)
    BY <1>2, RunningType, SourceFields
  <2>2. PICK l \in Listings(found) : list = [k \in DOMAIN l |-> ids[l[k]]]
    BY <1>2 DEF Cycles
  <2>3. IsFiniteSet(found)
    <3>1. IsFiniteSet(1..Len(ids))
      BY <2>1, FS_Interval
    <3> QED BY <2>1, <3>1, FS_Subset
  <2>4. Cardinality(found) \in Nat
    BY <2>3, FS_CardinalityType
  <2>5. l \in [1..Cardinality(found) -> found]
    BY <2>2 DEF Listings
  <2>6. \A k \in found : ids[k] \in Photo
    BY <2>1
  <2> HIDE DEF found, ids
  <2>7. list \in [1..Cardinality(found) -> Photo]
    BY <2>2, <2>5, <2>6
  <2> QED BY <2>4, <2>7
<1> QED BY <1>1, <1>2

(* A step of the generator: the photo it yields is to be loaded. *)
LEMMA FetchType ==
    ASSUME TypeInv, producer.pc = "fetch", NEW item \in Photo, NEW rest \in Seq(Photo),
           Loading(item), Advance(rest), UNCHANGED <<library, paired>>
    PROVE  SourceOK'
<1>1. source' \in Sources \cup {None}
  BY RunningType, SourceFields, TypeParts DEF Advance, SourceOK
<1>2. /\ producer' \in [pc : {"take", "fetch", "load", "dead"}, live : BOOLEAN,
                     old : Sources \cup {None}, item : Photo \cup {None}]
      /\ producer'.pc = "load" /\ producer'.item = item /\ producer'.old = None
  BY TypeParts DEF Loading, SourceOK
<1> QED BY <1>1, <1>2, TypeParts, PhotoAssumption DEF SourceOK

(* The producer's task reads the source anew. *)
LEMMA TakenType ==
    ASSUME TypeInv, producer' = Taken, UNCHANGED <<library, paired, source>>
    PROVE  SourceOK'
BY TypeParts DEF SourceOK, Taken

LEMMA SetProducerType ==
    ASSUME TypeInv, NEW src \in Sources \cup {None}, SetProducer(src)
    PROVE  /\ source' \in Sources \cup {None}
           /\ producer' \in [pc : {"take", "fetch", "load", "dead"}, live : BOOLEAN,
                     old : Sources \cup {None}, item : Photo \cup {None}]
           /\ (producer'.pc = "load") = (producer'.item # None)
           /\ (producer'.pc = "fetch" /\ ~producer'.live) = (producer'.old # None)
           /\ producer'.pc \in {"take", "dead"} => producer'.live
           /\ producer'.pc = "fetch" /\ producer'.live => source' # None
           /\ display' \in [pc : {"top", "get", "show"},
                    turn : {"fresh", "preempted", "again"}]
           /\ PlayOK'
<1>1. source' \in Sources \cup {None}
  BY DEF SetProducer
<1>2. PlayOK'
  <2>1. <<>> \in Seq(Photo)
    OBVIOUS
  <2> QED BY <2>1 DEF SetProducer, PlayOK, NothingPlayed
<1>3. display' \in [pc : {"top", "get", "show"}, turn : {"fresh", "preempted", "again"}]
  BY TypeParts DEF SetProducer, ScreenOK
<1>4. CASE producer.pc \in {"fetch", "load"} /\ producer.live
  BY <1>1, <1>2, <1>3, <1>4, TypeParts DEF SetProducer, SourceOK
<1>5. CASE ~(producer.pc \in {"fetch", "load"} /\ producer.live)
  BY <1>1, <1>2, <1>3, <1>5, TypeParts DEF SetProducer, SourceOK
<1> QED BY <1>4, <1>5

LEMMA SwitchType ==
    ASSUME TypeInv, NEW src \in Sources \cup {None}, NEW m \in {"all", "single", "playlist"},
           NEW started \in SUBSET [kind : {"single", "playlist"}, begun : BOOLEAN, due : Nat],
           Switch(src, m, started)
    PROVE  SourceOK' /\ ScreenOK' /\ ControlOK' /\ PlayOK'
<1>1. SetProducer(src)
  BY DEF Switch
<1>2. SourceOK'
  BY <1>1, SetProducerType, TypeParts DEF Switch, SourceOK
<1>3. queue' \in Seq([item : Photo, live : BOOLEAN]) /\ Len(queue') <= MaxPreload
  BY BoundsAssumption DEF Switch
<1>4. ScreenOK'
  BY <1>1, <1>3, SetProducerType, TypeParts DEF Switch, ScreenOK, CursorInRange
<1>5. ControlOK'
  BY DEF Switch, ControlOK
<1> QED BY <1>1, <1>2, <1>4, <1>5, SetProducerType

LEMMA ProduceType == ASSUME TypeInv, ProduceStep PROVE TypeInv'
<1>0. SourceOK /\ ScreenOK /\ ControlOK /\ PlayOK /\ RequestsOK
  BY TypeParts
<1>1. CASE Take
  <2>1. SourceOK'
    BY <1>1, TakenType DEF Take
  <2> QED BY <1>0, <1>1, <2>1, NextParts DEF Take, controlVars, ScreenOK, CursorInRange,
        ControlOK, PlayOK, RequestsOK
<1>2. CASE FetchLooping
  <2>1. PICK list \in IF Running.rest = <<>> THEN Cycles ELSE {Running.rest} :
          list # <<>> /\ Loading(Head(list)) /\ Advance(Tail(list))
    BY <1>2 DEF FetchLooping
  <2>2. list \in Seq(Photo)
    BY <1>2, <2>1, CyclesType, RunningType, SourceFields DEF FetchLooping
  <2>3. Head(list) \in Photo /\ Tail(list) \in Seq(Photo)
    BY <2>1, <2>2, HeadTailProperties
  <2>4. SourceOK'
    BY <1>2, <2>1, <2>3, FetchType DEF FetchLooping
  <2> QED BY <1>0, <1>2, <2>4, NextParts DEF FetchLooping, controlVars, ScreenOK, CursorInRange,
        ControlOK, PlayOK, RequestsOK
<1>3. CASE FetchNext
  <2>1. Running.rest \in Seq(Photo)
    BY <1>3, RunningType, SourceFields DEF FetchNext
  <2>2. Head(Running.rest) \in Photo /\ Tail(Running.rest) \in Seq(Photo)
    BY <1>3, <2>1, HeadTailProperties DEF FetchNext
  <2>3. SourceOK'
    BY <1>3, <2>2, FetchType DEF FetchNext
  <2> QED BY <1>0, <1>3, <2>3, NextParts DEF FetchNext, controlVars, ScreenOK, CursorInRange,
        ControlOK, PlayOK, RequestsOK
<1>4. CASE FetchMissing
  <2>1. Running.rest \in Seq(Photo)
    BY <1>4, RunningType, SourceFields DEF FetchMissing
  <2>2. Tail(Running.rest) \in Seq(Photo)
    BY <1>4, <2>1, HeadTailProperties DEF FetchMissing
  <2>3. SourceOK' /\ PlayOK'
    <3>1. CASE producer.live
      <4>1. source' \in Sources \cup {None} /\ source' # None
        <5>1. source \in Sources /\ source' = [source EXCEPT !.rest = Tail(Running.rest)]
          BY <1>4, <3>1, RunningType DEF FetchMissing, Advance
        <5> QED BY <2>2, <5>1, SourceFields, NoneSourceAssumption
      <4>2. PlayOK'
        BY <1>0, <1>4, <3>1 DEF FetchMissing, PlayOK
      <4> QED BY <1>0, <1>4, <3>1, <4>1, <4>2 DEF FetchMissing, SourceOK
    <3>2. CASE ~producer.live
      <4>1. [producer.old EXCEPT !.rest = Tail(@)] \in Sources
        BY <1>4, <2>2, <3>2, RunningType, SourceFields DEF FetchMissing
      <4> QED BY <1>0, <1>4, <3>2, <4>1, NoneSourceAssumption
           DEF FetchMissing, SourceOK, Advance, PlayOK
    <3> QED BY <3>1, <3>2
  <2> QED BY <1>0, <1>4, <2>3, NextParts DEF FetchMissing, controlVars, ScreenOK, CursorInRange,
        ControlOK, RequestsOK
<1>5. CASE FetchEnded
  <2>1. SourceOK'
    BY <1>0, <1>5 DEF FetchEnded, SourceOK
  <2> QED BY <1>0, <1>5, <2>1, NextParts DEF FetchEnded, controlVars, ScreenOK, CursorInRange,
        ControlOK, PlayOK, RequestsOK
<1>6. CASE Enqueue
  <2>1. SourceOK'
    BY <1>6, TakenType DEF Enqueue
  <2>2. [item |-> producer.item, live |-> producer.live] \in [item : Photo, live : BOOLEAN]
    BY <1>0, <1>6 DEF Enqueue, SourceOK
  <2>3. queue' \in Seq([item : Photo, live : BOOLEAN]) /\ Len(queue') = Len(queue) + 1
    BY <1>0, <1>6, <2>2, AppendProperties DEF Enqueue, ScreenOK
  <2>4. ScreenOK'
    BY <1>0, <1>6, <2>3, BoundsAssumption DEF Enqueue, ScreenOK, CursorInRange, controlVars
  <2> QED BY <1>0, <1>6, <2>1, <2>4, NextParts DEF Enqueue, controlVars,
        ControlOK, PlayOK, RequestsOK
<1> QED BY <1>1, <1>2, <1>3, <1>4, <1>5, <1>6 DEF ProduceStep

LEMMA DisplayType == ASSUME TypeInv, DisplayStep PROVE TypeInv'
<1>0. SourceOK /\ ScreenOK /\ ControlOK /\ PlayOK /\ RequestsOK
  BY TypeParts
<1>1. CASE ShowOverride
  BY <1>0, <1>1, NextParts DEF ShowOverride, SourceOK, ScreenOK, CursorInRange, ControlOK,
     PlayOK, RequestsOK
<1>2. CASE WaitForItem
  BY <1>0, <1>2, NextParts DEF WaitForItem, SourceOK, ScreenOK, CursorInRange, ControlOK,
     PlayOK, RequestsOK, controlVars
<1>3. ASSUME Getting
      PROVE  /\ Head(queue) \in [item : Photo, live : BOOLEAN]
             /\ Tail(queue) \in Seq([item : Photo, live : BOOLEAN])
             /\ Len(Tail(queue)) <= MaxPreload
  <2> DEFINE Q == [item : Photo, live : BOOLEAN]
  <2>1. queue \in Seq(Q) /\ queue # <<>> /\ Len(queue) <= MaxPreload
    BY <1>0, <1>3 DEF Getting, ScreenOK
  <2>2. Len(queue) \in Nat
    BY <2>1, LenProperties
  <2>3. Head(queue) \in Q /\ Tail(queue) \in Seq(Q) /\ Len(Tail(queue)) = Len(queue) - 1
    BY <2>1, HeadTailProperties
  <2> QED BY <2>1, <2>2, <2>3, BoundsAssumption
<1>4. CASE DropStale
  BY <1>0, <1>3, <1>4, NextParts DEF DropStale, SourceOK, ScreenOK, CursorInRange, ControlOK,
     PlayOK, RequestsOK, controlVars
<1>5. CASE ShowFresh
  <2> DEFINE item == Head(queue).item
  <2>1. item \in Photo
    BY <1>3, <1>5 DEF ShowFresh
  <2>2. Append(history, item) \in Seq(Photo) /\ Len(Append(history, item)) = Len(history) + 1
    BY <1>0, <2>1, AppendProperties DEF ScreenOK
  <2>3. /\ Recorded(item) \in Seq(Photo)
        /\ Len(Recorded(item)) \in 1..HistoryLen
    <3>1. CASE Len(Append(history, item)) > HistoryLen
      BY <1>0, <2>2, <3>1, HeadTailProperties, LenProperties, BoundsAssumption
         DEF Recorded, ScreenOK
    <3>2. CASE ~(Len(Append(history, item)) > HistoryLen)
      BY <1>0, <2>2, <3>2, LenProperties, BoundsAssumption DEF Recorded, ScreenOK
    <3> QED BY <3>1, <3>2
  <2>4. ScreenOK'
    BY <1>0, <1>3, <1>5, <2>1, <2>3, EmptySeq DEF ShowFresh, ScreenOK, CursorInRange
  <2>5. PlayOK'
    <3>1. Append(play.photos, item) \in Seq(Photo)
      BY <1>0, <2>1, AppendProperties DEF PlayOK
    <3> QED BY <1>0, <1>5, <3>1 DEF ShowFresh, PlayOK
  <2> QED BY <1>0, <1>5, <2>4, <2>5, NextParts DEF ShowFresh, SourceOK, ControlOK, RequestsOK
<1>6. CASE EndShow
  <2>1. display' \in [pc : {"top", "get", "show"}, turn : {"fresh", "preempted", "again"}]
    BY <1>0, <1>6 DEF EndShow, ScreenOK
  <2>2. ControlOK'
    <3>1. CASE timers' = timers
      BY <1>0, <1>6, <3>1 DEF EndShow, ControlOK
    <3>2. CASE OneMorePlayed
      BY <1>0, <1>6, <3>2 DEF EndShow, ControlOK, OneMorePlayed
    <3> QED BY <1>6, <3>1, <3>2 DEF EndShow
  <2>3. PlayOK'
    BY <1>0, <1>6 DEF EndShow, TurnEnded, PlayOK
  <2> QED BY <1>0, <1>6, <2>1, <2>2, <2>3, NextParts DEF EndShow, SourceOK, ScreenOK,
        CursorInRange, RequestsOK
<1> QED BY <1>1, <1>2, <1>4, <1>5, <1>6 DEF DisplayStep

LEMMA RevertType == ASSUME TypeInv, RevertStep \/ Pair PROVE TypeInv'
<1>0. SourceOK /\ ScreenOK /\ ControlOK /\ PlayOK /\ RequestsOK
  BY TypeParts
<1>1. CASE PlaylistTimerBegins
  <2>1. ControlOK'
    BY <1>0, <1>1 DEF PlaylistTimerBegins, ControlOK
  <2> QED BY <1>0, <1>1, <2>1, NextParts DEF PlaylistTimerBegins, SourceOK, ScreenOK,
        CursorInRange, PlayOK, RequestsOK
<1>2. ASSUME NEW kind \in {"single", "playlist"}, Revert(kind) PROVE TypeInv'
  <2>1. PICK t \in timers :
          IF mode = kind /\ paired
          THEN Switch(WholeLibrary, "all", timers \ {t})
          ELSE /\ timers' = timers \ {t}
               /\ UNCHANGED <<library, paired, source, producer, queue, display,
                              current, history, cursor, override, paused, mode, play>>
    BY <1>2 DEF Revert
  <2>2. RequestsOK'
    BY <1>0, <1>2 DEF Revert, RequestsOK
  <2>3. CASE mode = kind /\ paired
    <3>1. timers \ {t} \in SUBSET [kind : {"single", "playlist"}, begun : BOOLEAN, due : Nat]
      BY <1>0 DEF ControlOK
    <3> QED BY <2>1, <2>2, <2>3, <3>1, SwitchType, WholeLibraryType, NextParts
  <2>4. CASE ~(mode = kind /\ paired)
    BY <1>0, <2>1, <2>2, <2>4, NextParts DEF SourceOK, ScreenOK, CursorInRange, ControlOK, PlayOK
  <2> QED BY <2>3, <2>4
<1>3. CASE Pair
  <2>1. SetProducer(WholeLibrary) /\ UNCHANGED <<library, current, history, controlVars, requests>>
    BY <1>3 DEF Pair
  <2>2. /\ queue' \in Seq([item : Photo, live : BOOLEAN])
        /\ Len(queue') = Len(queue)
    <3>1. queue' = [k \in DOMAIN queue |-> [queue[k] EXCEPT !.live = FALSE]]
      BY <1>3 DEF Pair
    <3>2. queue \in [1..Len(queue) -> [item : Photo, live : BOOLEAN]] /\ Len(queue) \in Nat
      BY <1>0, LenProperties DEF ScreenOK
    <3>3. queue' \in [1..Len(queue) -> [item : Photo, live : BOOLEAN]]
      BY <3>1, <3>2
    <3> QED BY <3>2, <3>3, FunctionIsSeq
  <2>3. SourceOK' /\ PlayOK'
    BY <1>0, <1>3, <2>1, SetProducerType, WholeLibraryType DEF Pair, SourceOK
  <2>4. ScreenOK'
    BY <1>0, <2>1, <2>2, SetProducerType, WholeLibraryType
       DEF ScreenOK, CursorInRange, controlVars
  <2> QED BY <1>0, <2>1, <2>3, <2>4, NextParts DEF ControlOK, RequestsOK, controlVars
<1> QED BY <1>1, <1>2, <1>3 DEF RevertStep

LEMMA ClientType == ASSUME TypeInv, ClientStep PROVE TypeInv'
<1>0. SourceOK /\ ScreenOK /\ ControlOK /\ PlayOK /\ RequestsOK
  BY TypeParts
<1>1. ASSUME Request PROVE RequestsOK'
  BY <1>0, <1>1, BoundsAssumption DEF Request, RequestsOK
<1>2. ASSUME NEW p \in Photo, ShowItem(p) PROVE TypeInv'
  <2>1. ServerProducer(<<p>>, TRUE) \in Sources \cup {None}
    BY MadeType
  <2>2. {[kind |-> "single", begun |-> TRUE, due |-> 0]} \in
          SUBSET [kind : {"single", "playlist"}, begun : BOOLEAN, due : Nat]
    OBVIOUS
  <2>3. Switch(ServerProducer(<<p>>, TRUE), "single",
               {[kind |-> "single", begun |-> TRUE, due |-> 0]})
    BY <1>2 DEF ShowItem
  <2> QED BY <1>1, <1>2, <2>1, <2>2, <2>3, SwitchType, NextParts DEF ShowItem
<1>3. ASSUME NEW ids \in Playlists, NEW loop \in BOOLEAN, PlayPlaylist(ids, loop)
      PROVE  TypeInv'
  <2> DEFINE started == IF loop \/ ids = <<>> THEN {}
                        ELSE {[kind |-> "playlist", begun |-> FALSE, due |-> Len(ids)]}
  <2>1. ServerProducer(ids, loop) \in Sources \cup {None}
    <3>1. ids # None
      BY PlaylistsAssumption, NonePlaylistAssumption
    <3> QED BY <3>1, MadeType
  <2>2. started \in SUBSET [kind : {"single", "playlist"}, begun : BOOLEAN, due : Nat]
    BY PlaylistType, LenProperties
  <2>3. Switch(ServerProducer(ids, loop), "playlist", started)
    BY <1>3 DEF PlayPlaylist
  <2> HIDE DEF started
  <2> QED BY <1>1, <1>3, <2>1, <2>2, <2>3, SwitchType, NextParts DEF PlayPlaylist
<1>4. CASE PlayAll
  <2>1. ServerProducer(None, TRUE) \in Sources \cup {None}
    BY MadeType
  <2>2. Switch(ServerProducer(None, TRUE), "all", {})
    BY <1>4 DEF PlayAll
  <2> QED BY <1>1, <1>4, <2>1, <2>2, SwitchType, NextParts DEF PlayAll
<1>5. CASE NextItem
  <2>1. ScreenOK'
    BY <1>0, <1>5, ElementOfSeq, LenProperties, BoundsAssumption
       DEF NextItem, ScreenOK, CursorInRange
  <2> QED BY <1>0, <1>1, <1>5, <2>1, NextParts DEF NextItem, SourceOK, ControlOK, PlayOK
<1>6. CASE PrevItem
  <2>1. ScreenOK'
    BY <1>0, <1>6, ElementOfSeq, LenProperties, BoundsAssumption
       DEF PrevItem, ScreenOK, CursorInRange
  <2> QED BY <1>0, <1>1, <1>6, <2>1, NextParts DEF PrevItem, SourceOK, ControlOK, PlayOK
<1>7. CASE TogglePause
  BY <1>0, <1>1, <1>7, NextParts DEF TogglePause, SourceOK, ScreenOK, CursorInRange,
     ControlOK, PlayOK
<1>8. ASSUME NEW p \in Photo, LibraryChanges(p) PROVE TypeInv'
  <2>1. SourceOK'
    BY <1>0, <1>8 DEF LibraryChanges, SourceOK
  <2> QED BY <1>0, <1>1, <1>8, <2>1, NextParts DEF LibraryChanges, ScreenOK, CursorInRange,
        ControlOK, PlayOK, controlVars
<1> QED BY <1>2, <1>3, <1>4, <1>5, <1>6, <1>7, <1>8 DEF ClientStep

LEMMA TypeStep == ASSUME TypeInv, [Next]_vars PROVE TypeInv'
<1>1. CASE UNCHANGED vars
  BY <1>1 DEF vars, controlVars, TypeInv, SlideTypeOK, CursorInRange
<1> QED BY <1>1, ProduceType, DisplayType, RevertType, ClientType DEF Next

LEMMA TypeAlways == Spec => []TypeInv
<1> QED BY TypeInit, TypeStep, PTL DEF Spec

(* Every variable keeps its type, whatever the tasks, the clients and the   *)
(* server do in whatever order.                                             *)
THEOREM SlideTypeCorrect == Spec => []SlideTypeOK
<1>1. TypeInv => SlideTypeOK
  BY DEF TypeInv
<1> QED BY <1>1, TypeAlways, PTL

(* prev and next never index outside the history.                           *)
THEOREM SlideCursorInRange == Spec => []CursorInRange
<1>1. TypeInv => CursorInRange
  BY DEF TypeInv
<1> QED BY <1>1, TypeAlways, PTL

-----------------------------------------------------------------------------
(* What the tasks leave alone, and what a switch of the source sets.        *)

SameSource ==
    /\ source' = None <=> source = None
    /\ source # None => source'.ids = source.ids /\ source'.loop = source.loop

LEMMA AdvanceSame ==
    ASSUME TypeInv, producer.pc = "fetch", NEW rest \in Seq(Photo), Advance(rest)
    PROVE  /\ SameSource
           /\ producer.live => source # None /\ source'.rest = rest
           /\ ~producer.live => source' = source
<1>1. CASE producer.live
  <2>1. source \in Sources /\ source' = [source EXCEPT !.rest = rest]
    BY <1>1, RunningType DEF Advance
  <2>2. source' \in Sources
    BY <2>1, SourceFields
  <2>3. source'.ids = source.ids /\ source'.loop = source.loop /\ source'.rest = rest
    BY <2>1 DEF Sources
  <2> QED BY <1>1, <2>1, <2>2, <2>3, NoneSourceAssumption DEF SameSource
<1>2. CASE ~producer.live
  BY <1>2 DEF Advance, SameSource
<1> QED BY <1>1, <1>2

(* The photo and the rest a fetch leaves are those of the list it takes.    *)
LEMMA FetchSteps ==
    ASSUME TypeInv, FetchLooping \/ FetchNext
    PROVE  \E list \in Seq(Photo) :
             /\ list # <<>>
             /\ list = Running.rest \/ list \in Cycles
             /\ Loading(Head(list)) /\ Advance(Tail(list))
             /\ Head(list) \in Photo /\ Tail(list) \in Seq(Photo)
<1>1. CASE FetchLooping
  <2>1. PICK list \in IF Running.rest = <<>> THEN Cycles ELSE {Running.rest} :
          list # <<>> /\ Loading(Head(list)) /\ Advance(Tail(list))
    BY <1>1 DEF FetchLooping
  <2>2. list \in Seq(Photo)
    BY <1>1, <2>1, CyclesType, RunningType, SourceFields DEF FetchLooping
  <2>3. Head(list) \in Photo /\ Tail(list) \in Seq(Photo)
    BY <2>1, <2>2, HeadTailProperties
  <2> QED BY <2>1, <2>2, <2>3
<1>2. CASE FetchNext
  <2>1. Running.rest \in Seq(Photo)
    BY <1>2, RunningType, SourceFields DEF FetchNext
  <2>2. Head(Running.rest) \in Photo /\ Tail(Running.rest) \in Seq(Photo)
    BY <1>2, <2>1, HeadTailProperties DEF FetchNext
  <2> QED BY <1>2, <2>1, <2>2 DEF FetchNext
<1> QED BY <1>1, <1>2

LEMMA ProduceFrame ==
    ASSUME TypeInv, ProduceStep
    PROVE  /\ SameSource
           /\ play'.ended = play.ended
           /\ UNCHANGED <<library, paired, display, current, history, controlVars, requests>>
<1>1. CASE FetchLooping \/ FetchNext
  BY <1>1, FetchSteps, AdvanceSame DEF FetchLooping, FetchNext
<1>2. CASE FetchMissing
  <2>1. Tail(Running.rest) \in Seq(Photo)
    BY <1>2, RunningType, SourceFields, HeadTailProperties DEF FetchMissing
  <2>2. play'.ended = play.ended
    BY <1>2, TypeParts DEF FetchMissing, PlayOK
  <2> QED BY <1>2, <2>1, <2>2, AdvanceSame DEF FetchMissing
<1>3. CASE Take \/ FetchEnded \/ Enqueue
  BY <1>3 DEF Take, FetchEnded, Enqueue, SameSource
<1> QED BY <1>1, <1>2, <1>3 DEF ProduceStep

(* A request that changes neither the source nor a revert task. *)
LEMMA ViewerFrame ==
    ASSUME NextItem \/ PrevItem \/ TogglePause \/ \E p \in Photo : LibraryChanges(p)
    PROVE  UNCHANGED <<paired, source, producer, queue, display, current, history, mode,
                       timers, play>>
BY DEF NextItem, PrevItem, TogglePause, LibraryChanges, controlVars

(* The requests that choose a source, and what they choose. *)
LEMMA SwitchSteps ==
    ASSUME ClientStep
    PROVE  \/ NextItem \/ PrevItem \/ TogglePause \/ \E p \in Photo : LibraryChanges(p)
           \/ \E p \in Photo : Switch(ServerProducer(<<p>>, TRUE), "single",
                                      {[kind |-> "single", begun |-> TRUE, due |-> 0]})
           \/ \E ids \in Playlists, loop \in BOOLEAN :
                Switch(ServerProducer(ids, loop), "playlist",
                       IF loop \/ ids = <<>> THEN {}
                       ELSE {[kind |-> "playlist", begun |-> FALSE, due |-> Len(ids)]})
           \/ Switch(ServerProducer(None, TRUE), "all", {})
BY DEF ClientStep, ShowItem, PlayPlaylist, PlayAll

(* A revert task that ends, alone or with the return to the whole library.  *)
LEMMA RevertSteps ==
    ASSUME NEW kind \in {"single", "playlist"}, Revert(kind)
    PROVE  \E t \in timers :
             /\ t.kind = kind /\ t.begun /\ t.due = 0
             /\ \/ /\ mode = kind /\ paired
                   /\ Switch(WholeLibrary, "all", timers \ {t})
                \/ /\ ~(mode = kind /\ paired)
                   /\ timers' = timers \ {t}
                   /\ UNCHANGED <<library, paired, source, producer, queue, display,
                                  current, history, cursor, override, paused, mode, play>>
BY DEF Revert

-----------------------------------------------------------------------------
(* Revert tasks.  A display without a server has no selection playing.      *)

TimerInv ==
    /\ TimersMatchMode
    /\ ~paired => source = None \/ source.ids = None

LEMMA TimerStep == ASSUME TypeInv, TimerInv, [Next]_vars PROVE TimerInv'
<1>1. CASE ProduceStep
  BY <1>1, ProduceFrame DEF SameSource, TimerInv, TimersMatchMode, controlVars
<1>2. CASE DisplayStep
  <2>1. UNCHANGED <<paired, source, mode>>
    BY <1>2 DEF DisplayStep, ShowOverride, WaitForItem, DropStale, ShowFresh, EndShow,
       controlVars
  <2>2. CASE timers' = timers
    BY <2>1, <2>2 DEF TimerInv, TimersMatchMode
  <2>3. CASE OneMorePlayed
    <3> DEFINE Seen(t) == [t EXCEPT !.due = IF t.begun /\ @ > 0 THEN @ - 1 ELSE @]
    <3>1. timers' = {Seen(t) : t \in timers}
      BY <2>3 DEF OneMorePlayed
    <3>2. \A t \in timers : Seen(t).kind = t.kind
      BY TypeParts DEF ControlOK
    <3> HIDE DEF Seen
    <3>3. \A t, u \in timers' : t = u
      BY <3>1 DEF TimerInv, TimersMatchMode
    <3>4. \A t \in timers' : t.kind = mode
      BY <3>1, <3>2 DEF TimerInv, TimersMatchMode
    <3>5. timers # {} => timers' # {}
      BY <3>1
    <3> QED BY <2>1, <3>3, <3>4, <3>5 DEF TimerInv, TimersMatchMode
  <2> QED BY <1>2, <2>2, <2>3 DEF DisplayStep, ShowOverride, WaitForItem, DropStale, ShowFresh,
        EndShow, controlVars
<1>3. CASE PlaylistTimerBegins
  <2>1. PICK t \in timers : timers' = (timers \ {t}) \cup {[t EXCEPT !.begun = TRUE]}
    BY <1>3 DEF PlaylistTimerBegins
  <2>2. [t EXCEPT !.begun = TRUE].kind = t.kind
    BY TypeParts DEF ControlOK
  <2>3. timers = {t}
    BY DEF TimerInv, TimersMatchMode
  <2>4. timers' = {[t EXCEPT !.begun = TRUE]}
    BY <2>1, <2>3
  <2> QED BY <1>3, <2>2, <2>4 DEF PlaylistTimerBegins, TimerInv, TimersMatchMode
<1>4. ASSUME NEW kind \in {"single", "playlist"}, Revert(kind) PROVE TimerInv'
  <2>1. PICK t \in timers :
          /\ t.kind = kind
          /\ \/ /\ mode = kind /\ paired
                /\ Switch(WholeLibrary, "all", timers \ {t})
             \/ /\ ~(mode = kind /\ paired)
                /\ timers' = timers \ {t}
                /\ UNCHANGED <<library, paired, source, producer, queue, display,
                               current, history, cursor, override, paused, mode, play>>
    BY <1>4, RevertSteps
  <2>2. timers \ {t} = {} /\ mode = kind
    BY <2>1 DEF TimerInv, TimersMatchMode
  <2>3. CASE Switch(WholeLibrary, "all", timers \ {t})
    BY <2>2, <2>3, WholeLibraryType, NoneSourceAssumption
       DEF Switch, SetProducer, WholeLibrary, Selection, TimerInv, TimersMatchMode
  <2>4. CASE ~paired /\ timers' = timers \ {t} /\ UNCHANGED <<paired, source, mode>>
    BY <2>2, <2>4 DEF TimerInv, TimersMatchMode
  <2> QED BY <2>1, <2>2, <2>3, <2>4
<1>5. CASE Pair
  BY <1>5 DEF Pair, SetProducer, WholeLibrary, Selection, TimerInv, TimersMatchMode, controlVars
<1>6. CASE NextItem \/ PrevItem \/ TogglePause \/ \E p \in Photo : LibraryChanges(p)
  BY <1>6, ViewerFrame DEF TimerInv, TimersMatchMode
<1>7. ASSUME NEW p \in Photo,
             Switch(ServerProducer(<<p>>, TRUE), "single",
                    {[kind |-> "single", begun |-> TRUE, due |-> 0]})
      PROVE  TimerInv'
  <2>1. /\ source' = ServerProducer(<<p>>, TRUE) /\ paired' = paired /\ mode' = "single"
        /\ timers' = {[kind |-> "single", begun |-> TRUE, due |-> 0]}
    BY <1>7 DEF Switch, SetProducer
  <2>2. TimersMatchMode'
    BY <2>1 DEF TimersMatchMode
  <2>3. ~paired' => source' = None
    BY <2>1 DEF ServerProducer
  <2> QED BY <2>2, <2>3 DEF TimerInv
<1>8. ASSUME NEW ids \in Playlists, NEW loop \in BOOLEAN,
             Switch(ServerProducer(ids, loop), "playlist",
                    IF loop \/ ids = <<>> THEN {}
                    ELSE {[kind |-> "playlist", begun |-> FALSE, due |-> Len(ids)]})
      PROVE  TimerInv'
  <2>1. /\ source' = ServerProducer(ids, loop) /\ paired' = paired /\ mode' = "playlist"
        /\ timers' = IF loop \/ ids = <<>> THEN {}
                   ELSE {[kind |-> "playlist", begun |-> FALSE, due |-> Len(ids)]}
    BY <1>8 DEF Switch, SetProducer
  <2>2. mode' = "playlist" /\ mode' # "single"
    BY <2>1
  <2>3. CASE loop \/ ids = <<>>
    <3>1. timers' = {}
      BY <2>1, <2>3
    <3> QED BY <2>1, <2>2, <3>1 DEF TimerInv, TimersMatchMode, ServerProducer
  <2>4. CASE ~(loop \/ ids = <<>>)
    <3>1. timers' = {[kind |-> "playlist", begun |-> FALSE, due |-> Len(ids)]}
      BY <2>1, <2>4
    <3> DEFINE started == [kind |-> "playlist", begun |-> FALSE, due |-> Len(ids)]
    <3>2. started.kind = "playlist" /\ timers' = {started}
      BY <3>1
    <3> HIDE DEF started
    <3> QED BY <2>1, <2>2, <3>2 DEF TimerInv, TimersMatchMode, ServerProducer
  <2> QED BY <2>3, <2>4
<1>9. CASE Switch(ServerProducer(None, TRUE), "all", {})
  BY <1>9 DEF Switch, SetProducer, ServerProducer, TimerInv, TimersMatchMode
<1>10. CASE UNCHANGED vars
  BY <1>10 DEF vars, controlVars, TimerInv, TimersMatchMode
<1> QED BY <1>1, <1>2, <1>3, <1>4, <1>5, <1>6, <1>7, <1>8, <1>9, <1>10, SwitchSteps
      DEF Next, RevertStep

(* At most one revert task runs, it is the current mode's, and a photo      *)
(* chosen by hand always has one.                                           *)
THEOREM SlideTimersMatchMode == Spec => []TimersMatchMode
<1>1. Init => TimerInv
  BY DEF Init, WholeLibrary, CachedFiles, Selection, TimerInv, TimersMatchMode
<1>2. TimerInv => TimersMatchMode
  BY DEF TimerInv
<1> QED BY <1>1, <1>2, TimerStep, TypeAlways, PTL DEF Spec

-----------------------------------------------------------------------------
(* What comes up after a switch is of the selection: of the current source, *)
(* so is all that is queued, being loaded or still to come.                 *)

Chosen(s, p) ==
    s # None /\ s.ids # None => \E k \in DOMAIN s.ids : s.ids[k] = p

SelectedInv ==
    /\ \A k \in DOMAIN queue : queue[k].live => Chosen(source, queue[k].item)
    /\ producer.pc = "load" /\ producer.live => Chosen(source, producer.item)
    /\ source # None => \A k \in DOMAIN source.rest : Chosen(source, source.rest[k])

LEMMA ChosenSame ==
    ASSUME SameSource, NEW p
    PROVE  Chosen(source', p) <=> Chosen(source, p)
<1>1. CASE source = None
  BY <1>1 DEF SameSource, Chosen
<1>2. CASE source # None
  BY <1>2 DEF SameSource, Chosen
<1> QED BY <1>1, <1>2

(* A cycle of the current source holds only ids it was made for.            *)
LEMMA CyclesChosen ==
    ASSUME TypeInv, producer.pc = "fetch", producer.live, NEW list \in Cycles,
           NEW k \in DOMAIN list
    PROVE  Chosen(source, list[k])
<1>1. Running = source
  BY RunningType
<1>2. CASE source.ids = None
  BY <1>2 DEF Chosen
<1>3. CASE source.ids # None
  <2> DEFINE found == {i \in DOMAIN source.ids : source.ids[i] \in library}
  <2>1. PICK l \in Listings(found) : list = [i \in DOMAIN l |-> source.ids[l[i]]]
    BY <1>1, <1>3 DEF Cycles
  <2>2. l \in [1..Cardinality(found) -> found]
    BY <2>1 DEF Listings
  <2> HIDE DEF found
  <2>3. l[k] \in found /\ list[k] = source.ids[l[k]]
    BY <2>1, <2>2
  <2>4. l[k] \in DOMAIN source.ids
    BY <2>3 DEF found
  <2> QED BY <2>3, <2>4 DEF Chosen
<1> QED BY <1>2, <1>3

LEMMA ProduceSelected == ASSUME TypeInv, SelectedInv, ProduceStep PROVE SelectedInv'
<1>0. SameSource /\ SourceOK /\ ScreenOK
  BY ProduceFrame, TypeParts
<1>1. \A p : Chosen(source', p) <=> Chosen(source, p)
  BY <1>0, ChosenSame
<1>2. CASE FetchLooping \/ FetchNext
  <2>1. PICK list \in Seq(Photo) :
          /\ list # <<>>
          /\ list = Running.rest \/ list \in Cycles
          /\ Loading(Head(list)) /\ Advance(Tail(list))
          /\ Head(list) \in Photo /\ Tail(list) \in Seq(Photo)
    BY <1>2, FetchSteps
  <2>2. producer.pc = "fetch" /\ queue' = queue
    BY <1>2 DEF FetchLooping, FetchNext
  <2>3. /\ producer.live => source # None /\ source'.rest = Tail(list)
        /\ ~producer.live => source' = source
    BY <2>1, <2>2, AdvanceSame
  <2>4. producer' = [producer EXCEPT !.pc = "load", !.item = Head(list), !.old = None]
    BY <2>1 DEF Loading
  <2>5. producer'.live = producer.live /\ producer'.item = Head(list)
    BY <1>0, <2>4 DEF SourceOK
  <2>6. \A k \in DOMAIN queue' : queue'[k].live => Chosen(source', queue'[k].item)
    BY <1>1, <2>2 DEF SelectedInv
  <2>7. CASE producer.live
    <3>1. \A k \in DOMAIN list : Chosen(source, list[k])
      BY <2>1, <2>2, <2>3, <2>7, CyclesChosen, RunningType DEF SelectedInv
    <3>2. /\ Head(list) = list[1] /\ 1 \in DOMAIN list
          /\ \A k \in DOMAIN Tail(list) : Tail(list)[k] = list[k + 1] /\ k + 1 \in DOMAIN list
      BY <2>1, HeadTailProperties, LenProperties
    <3>3. Chosen(source, Head(list)) /\ \A k \in DOMAIN Tail(list) : Chosen(source, Tail(list)[k])
      BY <3>1, <3>2
    <3> QED BY <1>1, <2>3, <2>5, <2>6, <2>7, <3>3 DEF SelectedInv
  <2>8. CASE ~producer.live
    BY <1>1, <2>3, <2>5, <2>6, <2>8 DEF SelectedInv
  <2> QED BY <2>7, <2>8
<1>3. CASE FetchMissing
  <2>1. Running.rest \in Seq(Photo) /\ Running.rest # <<>> /\ producer.pc = "fetch"
    BY <1>3, RunningType, SourceFields DEF FetchMissing
  <2>2. /\ Tail(Running.rest) \in Seq(Photo)
        /\ \A k \in DOMAIN Tail(Running.rest) :
             /\ Tail(Running.rest)[k] = Running.rest[k + 1]
             /\ k + 1 \in DOMAIN Running.rest
    BY <2>1, HeadTailProperties, LenProperties
  <2>3. queue' = queue /\ producer'.pc = "fetch" /\ Advance(Tail(Running.rest))
    BY <1>0, <1>3, <2>1 DEF FetchMissing, SourceOK
  <2>4. /\ producer.live => source # None /\ source'.rest = Tail(Running.rest)
        /\ ~producer.live => source' = source
    BY <2>1, <2>2, <2>3, AdvanceSame
  <2>5. source' # None => \A k \in DOMAIN source'.rest : Chosen(source', source'.rest[k])
    <3>1. CASE producer.live
      <4>1. \A k \in DOMAIN Running.rest : Chosen(source, Running.rest[k])
        BY <2>1, <2>4, <3>1, RunningType DEF SelectedInv
      <4> QED BY <1>1, <2>2, <2>4, <3>1, <4>1
    <3>2. CASE ~producer.live
      BY <1>1, <2>4, <3>2 DEF SelectedInv
    <3> QED BY <3>1, <3>2
  <2>6. \A k \in DOMAIN queue' : queue'[k].live => Chosen(source', queue'[k].item)
    BY <1>1, <2>3 DEF SelectedInv
  <2> QED BY <2>3, <2>5, <2>6 DEF SelectedInv
<1>4. CASE Enqueue
  <2> DEFINE entry == [item |-> producer.item, live |-> producer.live]
  <2>1. queue' = Append(queue, entry) /\ producer'.pc # "load" /\ source' = source
    BY <1>4 DEF Enqueue, Taken
  <2>2. entry.live => Chosen(source, entry.item)
    BY <1>4 DEF Enqueue, SelectedInv
  <2> HIDE DEF entry
  <2>3. \A k \in DOMAIN queue' : (k \in DOMAIN queue /\ queue'[k] = queue[k]) \/ queue'[k] = entry
    BY <1>0, <2>1, AppendProperties, LenProperties DEF ScreenOK
  <2>4. \A k \in DOMAIN queue' : queue'[k].live => Chosen(source, queue'[k].item)
    BY <2>2, <2>3 DEF SelectedInv
  <2> QED BY <1>1, <2>1, <2>4 DEF SelectedInv
<1>5. CASE Take \/ FetchEnded
  <2>1. queue' = queue /\ source' = source
    BY <1>5 DEF Take, FetchEnded
  <2>2. producer'.pc # "load"
    <3>1. CASE Take
      BY <3>1 DEF Take, Taken
    <3>2. CASE FetchEnded
      BY <1>0, <3>2 DEF FetchEnded, SourceOK
    <3> QED BY <1>5, <3>1, <3>2
  <2> QED BY <1>1, <2>1, <2>2 DEF SelectedInv
<1> QED BY <1>2, <1>3, <1>4, <1>5 DEF ProduceStep

LEMMA DisplaySelected == ASSUME TypeInv, SelectedInv, DisplayStep PROVE SelectedInv'
<1>0. SourceOK /\ ScreenOK
  BY TypeParts
<1>1. UNCHANGED <<source, producer>>
  BY DEF DisplayStep, ShowOverride, WaitForItem, DropStale, ShowFresh, EndShow
<1>2. \A p : Chosen(source', p) <=> Chosen(source, p)
  BY <1>1 DEF Chosen
<1>3. CASE queue' = queue
  BY <1>1, <1>2, <1>3 DEF SelectedInv
<1>4. CASE DropStale \/ ShowFresh
  <2>1. queue # <<>> /\ queue' = Tail(queue)
    BY <1>4 DEF DropStale, ShowFresh, Getting
  <2>2. \A k \in DOMAIN queue' : queue'[k] = queue[k + 1] /\ k + 1 \in DOMAIN queue
    BY <1>0, <2>1, HeadTailProperties, LenProperties DEF ScreenOK
  <2> QED BY <1>1, <1>2, <2>2 DEF SelectedInv
<1> QED BY <1>3, <1>4 DEF DisplayStep, ShowOverride, WaitForItem, EndShow

(* A new source has nothing on the way yet, and its rest is its ids.        *)
LEMMA SourceSelected ==
    ASSUME TypeInv, NEW src, SetProducer(src), \A k \in DOMAIN queue' : ~queue'[k].live,
           src # None /\ src.ids # None => src.rest = <<>> \/ src.rest = src.ids
    PROVE  SelectedInv'
<1>1. ~(producer'.pc = "load" /\ producer'.live)
  BY TypeParts DEF SetProducer, SourceOK
<1>2. source' = src
  BY DEF SetProducer
<1>3. source' # None => \A k \in DOMAIN source'.rest : Chosen(source', source'.rest[k])
  BY <1>2 DEF Chosen
<1> QED BY <1>1, <1>3 DEF SelectedInv

LEMMA MadeSelected ==
    ASSUME NEW ids, NEW loop \in BOOLEAN, NEW src,
           src = ServerProducer(ids, loop) \/ src = Selection(ids, loop)
    PROVE  src # None /\ src.ids # None => src.rest = <<>> \/ src.rest = src.ids
BY DEF ServerProducer, Selection

LEMMA SwitchSelected ==
    ASSUME TypeInv, NEW src, NEW md, NEW started, Switch(src, md, started),
           src # None /\ src.ids # None => src.rest = <<>> \/ src.rest = src.ids
    PROVE  SelectedInv'
<1>1. SetProducer(src) /\ \A k \in DOMAIN queue' : ~queue'[k].live
  BY DEF Switch
<1> QED BY <1>1, SourceSelected

LEMMA SelectedStep == ASSUME TypeInv, SelectedInv, [Next]_vars PROVE SelectedInv'
<1>1. ASSUME UNCHANGED <<source, producer, queue>> PROVE SelectedInv'
  BY <1>1 DEF SelectedInv, Chosen
<1>2. ASSUME NEW kind \in {"single", "playlist"}, Revert(kind) PROVE SelectedInv'
  <2>1. CASE UNCHANGED <<source, producer, queue>>
    BY <1>1, <2>1
  <2>2. CASE \E t \in timers : Switch(WholeLibrary, "all", timers \ {t})
    <3>1. WholeLibrary # None /\ WholeLibrary.ids # None =>
            WholeLibrary.rest = <<>> \/ WholeLibrary.rest = WholeLibrary.ids
      BY MadeSelected DEF WholeLibrary
    <3> QED BY <2>2, <3>1, SwitchSelected
  <2> QED BY <1>2, <2>1, <2>2, RevertSteps
<1>3. CASE Pair
  <2>1. SetProducer(WholeLibrary)
        /\ queue' = [k \in DOMAIN queue |-> [queue[k] EXCEPT !.live = FALSE]]
    BY <1>3 DEF Pair
  <2>2. \A k \in DOMAIN queue' : ~queue'[k].live
    <3>1. queue \in [1..Len(queue) -> [item : Photo, live : BOOLEAN]]
      BY TypeParts, LenProperties DEF ScreenOK
    <3> QED BY <2>1, <3>1
  <2>3. WholeLibrary # None /\ WholeLibrary.ids # None =>
          WholeLibrary.rest = <<>> \/ WholeLibrary.rest = WholeLibrary.ids
    BY MadeSelected DEF WholeLibrary
  <2> QED BY <2>1, <2>2, <2>3, SourceSelected
<1>4. CASE NextItem \/ PrevItem \/ TogglePause \/ \E p \in Photo : LibraryChanges(p)
  BY <1>1, <1>4, ViewerFrame
<1>5. ASSUME NEW p \in Photo, NEW started, Switch(ServerProducer(<<p>>, TRUE), "single", started)
      PROVE  SelectedInv'
  BY <1>5, MadeSelected, SwitchSelected
<1>6. ASSUME NEW ids \in Playlists, NEW loop \in BOOLEAN, NEW started,
             Switch(ServerProducer(ids, loop), "playlist", started)
      PROVE  SelectedInv'
  BY <1>6, MadeSelected, SwitchSelected
<1>7. CASE Switch(ServerProducer(None, TRUE), "all", {})
  BY <1>7, MadeSelected, SwitchSelected
<1>8. CASE PlaylistTimerBegins \/ UNCHANGED vars
  BY <1>1, <1>8 DEF PlaylistTimerBegins, vars
<1>9. CASE ClientStep
  BY <1>4, <1>5, <1>6, <1>7, <1>9, SwitchSteps
<1> QED BY <1>2, <1>3, <1>8, <1>9, ProduceSelected, DisplaySelected DEF Next, RevertStep

(* A photo comes up from the queue in one step, and is then of the          *)
(* selection.                                                               *)
LEMMA ShownChosen ==
    ASSUME TypeInv, SelectedInv, [Next]_vars, display.pc # "show",
           display' = [pc |-> "show", turn |-> "fresh"]
    PROVE  Chosen(source, current')
<1>0. SourceOK /\ ScreenOK
  BY TypeParts
<1>1. CASE ShowFresh
  <2>1. queue # <<>> /\ Head(queue).live /\ current' = Head(queue).item
    BY <1>1 DEF ShowFresh, Getting
  <2>2. Head(queue) = queue[1] /\ 1 \in DOMAIN queue
    BY <1>0, <2>1, LenProperties DEF ScreenOK
  <2> QED BY <2>1, <2>2 DEF SelectedInv
<1>2. ~(ShowOverride \/ WaitForItem \/ DropStale \/ EndShow)
  BY <1>0 DEF ShowOverride, WaitForItem, DropStale, EndShow, ScreenOK
<1>3. ASSUME NEW src, SetProducer(src) PROVE FALSE
  BY <1>0, <1>3 DEF SetProducer, ScreenOK
<1>4. display' # display
  BY <1>0 DEF ScreenOK
<1>5. ~ProduceStep
  BY <1>4, ProduceFrame
<1>6. ~RevertStep
  BY <1>3, <1>4, RevertSteps DEF RevertStep, PlaylistTimerBegins, Switch
<1>7. ~Pair
  BY <1>3 DEF Pair
<1>8. ~ClientStep
  BY <1>3, <1>4, ViewerFrame, SwitchSteps DEF Switch
<1> QED BY <1>1, <1>2, <1>4, <1>5, <1>6, <1>7, <1>8 DEF Next, DisplayStep, vars

(* After a switch no photo preloaded from the source before it comes up     *)
(* from the queue, whatever the tasks were doing when the switch came.      *)
THEOREM SlideOnlySelectedShown == Spec => OnlySelectedShown
<1>1. Init => SelectedInv
  <2> SUFFICES ASSUME Init PROVE SelectedInv
    OBVIOUS
  <2>1. source.rest = <<>> /\ queue = <<>> /\ producer.pc = "take"
    BY DEF Init, WholeLibrary, CachedFiles, Selection
  <2> QED BY <2>1 DEF SelectedInv
<1> DEFINE Up == display.pc # "show" /\ display' = [pc |-> "show", turn |-> "fresh"]
                 /\ source # None /\ source.ids # None
            Of == \E k \in DOMAIN source.ids : source.ids[k] = current'
<1>2. TypeInv /\ SelectedInv /\ [Next]_vars => [Up => Of]_vars
  BY ShownChosen DEF Chosen
<1>3. TypeInv /\ SelectedInv /\ [Next]_vars => SelectedInv'
  BY SelectedStep
<1>4. Spec => [][Up => Of]_vars
  <2> HIDE DEF Up, Of
  <2> QED BY <1>1, <1>2, <1>3, TypeAlways, PTL DEF Spec
<1> QED BY <1>4 DEF OnlySelectedShown

-----------------------------------------------------------------------------
(* How long a programmed slideshow stays: what its revert task still waits  *)
(* for and what had its turn make up the list, but for the photo that was   *)
(* on the screen when the list was chosen.                                  *)

Slack == IF display.pc = "show" /\ display.turn = "preempted" THEN 0 ELSE 1

Waiting(t) ==
    IF t.begun
    THEN t.due + play.ended + Slack >= Len(source.ids)
    ELSE /\ t.due = Len(source.ids)
         /\ play.ended = 0
         /\ display.turn # "fresh"
         /\ \A k \in DOMAIN queue : ~queue[k].live

DueInv == OnePass => \A t \in timers : t.kind = "playlist" => Waiting(t)

LEMMA OnePassIds ==
    ASSUME TypeInv, OnePass
    PROVE  source \in Sources /\ Len(source.ids) \in Nat
<1>1. source \in Sources /\ source.ids # None
  BY TypeParts DEF SourceOK, OnePass, Sources
<1> QED BY <1>1, SourceFields, LenProperties

LEMMA NumbersType ==
    ASSUME TypeInv
    PROVE  play.ended \in Nat /\ \A t \in timers : t.due \in Nat /\ t.begun \in BOOLEAN
BY TypeParts DEF PlayOK, ControlOK

LEMMA ProduceDue == ASSUME TypeInv, DueInv, ProduceStep PROVE DueInv'
<1>1. SameSource /\ play'.ended = play.ended /\ UNCHANGED <<display, timers>>
  BY ProduceFrame DEF controlVars
<1>2. OnePass' => OnePass /\ source'.ids = source.ids
  BY <1>1 DEF SameSource, OnePass
<1>3. Slack' = Slack
  BY <1>1 DEF Slack
<1>4. ASSUME NEW t \in timers, ~t.begun, \A k \in DOMAIN queue : ~queue[k].live
      PROVE  \A k \in DOMAIN queue' : ~queue'[k].live
  <2>1. CASE Enqueue
    <3> DEFINE entry == [item |-> producer.item, live |-> producer.live]
    <3>1. ~entry.live /\ queue' = Append(queue, entry)
      BY <1>4, <2>1 DEF Enqueue
    <3> HIDE DEF entry
    <3>2. \A k \in DOMAIN queue' : (k \in DOMAIN queue /\ queue'[k] = queue[k]) \/ queue'[k] = entry
      BY <3>1, TypeParts, AppendProperties, LenProperties DEF ScreenOK
    <3> QED BY <1>4, <3>1, <3>2
  <2>2. CASE queue' = queue
    BY <1>4, <2>2
  <2> QED BY <2>1, <2>2
       DEF ProduceStep, Take, FetchLooping, FetchNext, FetchMissing, FetchEnded
<1> QED BY <1>1, <1>2, <1>3, <1>4 DEF DueInv, Waiting

LEMMA DisplayDue == ASSUME TypeInv, DueInv, DisplayStep PROVE DueInv'
<1>0. ScreenOK /\ ControlOK /\ PlayOK
  BY TypeParts
<1>1. source' = source
  BY DEF DisplayStep, ShowOverride, WaitForItem, DropStale, ShowFresh, EndShow
<1> SUFFICES ASSUME OnePass, NEW u \in timers', u.kind = "playlist" PROVE Waiting(u)'
  BY <1>1 DEF DueInv, OnePass
<1>2. Len(source.ids) \in Nat /\ play.ended \in Nat
  BY OnePassIds, NumbersType
<1>3. CASE ShowOverride \/ WaitForItem \/ DropStale \/ ShowFresh
  <2>1. timers' = timers /\ play'.ended = play.ended
    BY <1>0, <1>3 DEF ShowOverride, WaitForItem, DropStale, ShowFresh, controlVars, PlayOK
  <2>2. Waiting(u)
    BY <2>1 DEF DueInv
  <2>3. Slack = 1 /\ Slack' = 1
    BY <1>0, <1>3 DEF ShowOverride, WaitForItem, DropStale, ShowFresh, Getting, AtTop, Slack,
       ScreenOK
  <2>4. ASSUME ~u.begun
        PROVE  display'.turn # "fresh" /\ \A k \in DOMAIN queue' : ~queue'[k].live
    <3>1. display.turn # "fresh" /\ \A k \in DOMAIN queue : ~queue[k].live
      BY <2>2, <2>4 DEF Waiting
    <3>2. CASE ShowOverride \/ WaitForItem
      BY <1>0, <3>1, <3>2 DEF ShowOverride, WaitForItem, ScreenOK
    <3>3. ~ShowFresh
      <4>1. queue # <<>> => Head(queue) = queue[1] /\ 1 \in DOMAIN queue
        BY <1>0, LenProperties DEF ScreenOK
      <4> QED BY <3>1, <4>1 DEF ShowFresh, Getting
    <3>4. CASE DropStale
      <4>1. queue # <<>> /\ queue' = Tail(queue) /\ display'.turn = display.turn
        BY <1>0, <3>4 DEF DropStale, Getting, ScreenOK
      <4>2. \A k \in DOMAIN queue' : queue'[k] = queue[k + 1] /\ k + 1 \in DOMAIN queue
        BY <1>0, <4>1, HeadTailProperties, LenProperties DEF ScreenOK
      <4> QED BY <3>1, <4>1, <4>2
    <3> QED BY <1>3, <3>2, <3>3, <3>4
  <2> QED BY <1>1, <2>1, <2>2, <2>3, <2>4 DEF Waiting
<1>4. CASE EndShow
  <2>1. /\ display.pc = "show" /\ display'.pc = "top" /\ display'.turn = display.turn
        /\ queue' = queue
    BY <1>0, <1>4 DEF EndShow, ScreenOK
  <2>2. Slack' = 1
    BY <2>1 DEF Slack
  <2>3. display.turn # "fresh" => play' = play
    BY <1>4 DEF EndShow, TurnEnded
  <2>4. display.turn = "fresh" => play'.ended = play.ended + 1
    BY <1>0, <1>4 DEF EndShow, TurnEnded, PlayOK
  <2>5. CASE display.turn = "again"
    <3>1. u \in timers /\ Slack = 1 /\ play' = play
      BY <1>4, <2>3, <2>5 DEF EndShow, Slack
    <3> QED BY <1>1, <2>1, <2>2, <2>5, <3>1 DEF DueInv, Waiting
  <2>6. CASE display.turn # "again"
    <3>1. PICK t \in timers : u = [t EXCEPT !.due = IF t.begun /\ @ > 0 THEN @ - 1 ELSE @]
      BY <1>4, <2>6 DEF EndShow, OneMorePlayed
    <3>2. /\ u.kind = t.kind /\ u.begun = t.begun /\ t.due \in Nat
          /\ ~t.begun => u.due = t.due
          /\ t.begun => u.due + 1 >= t.due /\ u.due \in Nat
      BY <1>0, <3>1 DEF ControlOK
    <3>3. Waiting(t)
      BY <3>2 DEF DueInv
    <3>4. CASE ~t.begun
      BY <1>1, <2>1, <2>3, <3>2, <3>3, <3>4 DEF Waiting
    <3>5. CASE t.begun /\ display.turn = "fresh"
      <4>1. Slack = 1
        BY <3>5 DEF Slack
      <4> QED BY <1>1, <1>2, <2>2, <2>4, <3>2, <3>3, <3>5, <4>1 DEF Waiting
    <3>6. CASE t.begun /\ display.turn = "preempted"
      <4>1. Slack = 0
        BY <2>1, <3>6 DEF Slack
      <4> QED BY <1>1, <1>2, <2>2, <2>3, <3>2, <3>3, <3>6, <4>1 DEF Waiting
    <3> QED BY <1>0, <2>6, <3>4, <3>5, <3>6, NumbersType DEF ScreenOK
  <2> QED BY <2>5, <2>6
<1> QED BY <1>3, <1>4 DEF DisplayStep

LEMMA DueStep == ASSUME TypeInv, DueInv, [Next]_vars PROVE DueInv'
<1>1. ASSUME UNCHANGED <<source, queue, display, play>>, timers' \subseteq timers PROVE DueInv'
  BY <1>1 DEF DueInv, OnePass, Waiting, Slack
<1>2. ASSUME source' = None \/ source'.loop PROVE DueInv'
  BY <1>2 DEF DueInv, OnePass
<1>3. CASE PlaylistTimerBegins
  <2>1. PICK t \in timers : ~t.begun /\ timers' = (timers \ {t}) \cup {[t EXCEPT !.begun = TRUE]}
    BY <1>3 DEF PlaylistTimerBegins
  <2>2. UNCHANGED <<source, queue, display, play>>
    BY <1>3 DEF PlaylistTimerBegins
  <2> DEFINE b == [t EXCEPT !.begun = TRUE]
  <2>3. b.begun /\ b.kind = t.kind /\ b.due = t.due
    BY TypeParts DEF ControlOK
  <2> SUFFICES ASSUME OnePass, NEW u \in timers', u.kind = "playlist" PROVE Waiting(u)'
    BY <2>2 DEF DueInv, OnePass
  <2>4. CASE u \in timers
    BY <2>2, <2>4 DEF DueInv, Waiting, Slack
  <2>5. CASE u = b
    <3>1. t.due = Len(source.ids) /\ play.ended = 0
      BY <2>1, <2>3, <2>5 DEF DueInv, Waiting
    <3>2. Slack' \in {0, 1} /\ Len(source.ids) \in Nat
      BY OnePassIds DEF Slack
    <3> HIDE DEF b
    <3> QED BY <2>2, <2>3, <2>5, <3>1, <3>2 DEF Waiting
  <2> QED BY <2>1, <2>4, <2>5
<1>4. ASSUME NEW kind \in {"single", "playlist"}, Revert(kind) PROVE DueInv'
  <2>1. CASE \E t \in timers : Switch(WholeLibrary, "all", timers \ {t})
    <3>1. source' = WholeLibrary
      BY <2>1 DEF Switch, SetProducer
    <3> QED BY <1>2, <3>1 DEF WholeLibrary, Selection
  <2> QED BY <1>1, <1>4, <2>1, RevertSteps
<1>5. CASE Pair
  <2>1. source' = WholeLibrary
    BY <1>5 DEF Pair, SetProducer
  <2> QED BY <1>2, <2>1 DEF WholeLibrary, Selection
<1>6. CASE NextItem \/ PrevItem \/ TogglePause \/ \E p \in Photo : LibraryChanges(p)
  BY <1>1, <1>6, ViewerFrame
<1>7. ASSUME NEW ids, NEW md, NEW started, Switch(ServerProducer(ids, TRUE), md, started)
      PROVE  DueInv'
  <2>1. source' = ServerProducer(ids, TRUE)
    BY <1>7 DEF Switch, SetProducer
  <2> QED BY <1>2, <2>1 DEF ServerProducer, Selection
<1>8. ASSUME NEW ids \in Playlists, NEW loop \in BOOLEAN,
             Switch(ServerProducer(ids, loop), "playlist",
                    IF loop \/ ids = <<>> THEN {}
                    ELSE {[kind |-> "playlist", begun |-> FALSE, due |-> Len(ids)]})
      PROVE  DueInv'
  <2>1. CASE loop
    BY <1>7, <1>8, <2>1
  <2>2. CASE ~loop
    <3> DEFINE started == [kind |-> "playlist", begun |-> FALSE, due |-> Len(ids)]
    <3>1. /\ timers' \subseteq {started} /\ SetProducer(ServerProducer(ids, loop))
          /\ queue' = <<>>
      BY <1>8, <2>2 DEF Switch
    <3>2. ~started.begun /\ started.due = Len(ids)
      OBVIOUS
    <3>3. OnePass' => source'.ids = ids
      BY <3>1 DEF SetProducer, OnePass, ServerProducer, Selection
    <3>4. play'.ended = 0
      BY <3>1 DEF SetProducer, NothingPlayed
    <3>5. display'.turn # "fresh"
      BY <3>1, TypeParts DEF SetProducer, ScreenOK
    <3> HIDE DEF started
    <3> QED BY <3>1, <3>2, <3>3, <3>4, <3>5 DEF DueInv, Waiting
  <2> QED BY <2>1, <2>2
<1>9. CASE ClientStep
  BY <1>6, <1>7, <1>8, <1>9, SwitchSteps
<1>10. CASE UNCHANGED vars
  BY <1>1, <1>10 DEF vars, controlVars
<1> QED BY <1>3, <1>4, <1>5, <1>9, <1>10, ProduceDue, DisplayDue DEF Next, RevertStep

(* A programmed slideshow is not left before all its photos but the last    *)
(* had their turn, for lists of every length.                               *)
THEOREM SlidePlaysAllButLast == Spec => PlaysAllButLast
<1>1. Init => DueInv
  BY DEF Init, DueInv
<1> DEFINE Left == OnePass /\ Revert("playlist")
           Played == play.ended >= Len(source.ids) - 1
<1>2. TypeInv /\ DueInv /\ [Next]_vars => [Left => Played]_vars
  <2> SUFFICES ASSUME TypeInv, DueInv, Left PROVE Played
    OBVIOUS
  <2>1. PICK t \in timers : t.kind = "playlist" /\ t.begun /\ t.due = 0
    BY DEF Revert
  <2>2. play.ended + Slack >= Len(source.ids) /\ Slack \in {0, 1}
    <3>1. Waiting(t)
      BY <2>1 DEF DueInv
    <3> QED BY <2>1, <3>1, NumbersType DEF Waiting, Slack
  <2> QED BY <2>2, OnePassIds, NumbersType
<1>3. TypeInv /\ DueInv /\ [Next]_vars => DueInv'
  BY DueStep
<1>4. Spec => [][Left => Played]_vars
  <2> HIDE DEF Left, Played
  <2> QED BY <1>1, <1>2, <1>3, TypeAlways, PTL DEF Spec
<1> QED BY <1>4 DEF PlaysAllButLast

-----------------------------------------------------------------------------
(* A programmed slideshow is played in order.  What came up, what is queued *)
(* and alive, what is being loaded and what is left are the ids asked for,  *)
(* but for those the server did not have: every step moves a photo from one *)
(* of the four to the one before it, or drops it from the last.             *)
Queued == [item : Photo, live : BOOLEAN]
Fresh  == [item : Photo, live : {TRUE}]
Items(s) == [k \in 1..Len(s) |-> s[k].item]
Loads == IF producer.pc = "load" /\ producer.live THEN <<producer.item>> ELSE <<>>
Line(shown, own, load, rest) == shown \o own \o load \o rest

LEMMA InOrderIs == InOrder = Line(play.photos, Items(Own), Loads, source.rest)
  BY DEF InOrder, Line, Items, Loads

LEMMA ItemsType ==
  ASSUME NEW s \in Seq(Queued)
  PROVE  /\ Items(s) \in Seq(Photo) /\ Len(Items(s)) = Len(s)
         /\ \A k \in 1..Len(s) : Items(s)[k] = s[k].item
<1>1. Len(s) \in Nat /\ \A k \in 1..Len(s) : s[k].item \in Photo
  <2>1. Len(s) \in Nat /\ \A k \in 1..Len(s) : s[k] \in Queued
    OBVIOUS
  <2> QED BY <2>1 DEF Queued
<1>2. Items(s) \in [1..Len(s) -> Photo]
  BY <1>1 DEF Items
<1> QED BY <1>1, <1>2, FunctionIsSeq DEF Items

LEMMA ItemsEmpty == Items(<<>>) = <<>>
  BY DEF Items

LEMMA ItemsAppend ==
  ASSUME NEW s \in Seq(Queued), NEW x \in Queued
  PROVE  Items(Append(s, x)) = Append(Items(s), x.item)
<1>1. x.item \in Photo
  BY DEF Queued
<1>2. /\ Append(s, x) \in Seq(Queued) /\ Len(s) \in Nat /\ Len(Append(s, x)) = Len(s) + 1
      /\ \A k \in 1..Len(s) : Append(s, x)[k] = s[k]
      /\ Append(s, x)[Len(s) + 1] = x
  BY AppendProperties, LenProperties
<1>3. /\ Items(Append(s, x)) \in Seq(Photo) /\ Len(Items(Append(s, x))) = Len(s) + 1
      /\ \A k \in 1..(Len(s) + 1) : Items(Append(s, x))[k] = Append(s, x)[k].item
  BY <1>2, ItemsType
<1>4. /\ Append(Items(s), x.item) \in Seq(Photo)
      /\ Len(Append(Items(s), x.item)) = Len(s) + 1
      /\ \A k \in 1..Len(s) : Append(Items(s), x.item)[k] = s[k].item
      /\ Append(Items(s), x.item)[Len(s) + 1] = x.item
  BY <1>1, ItemsType, AppendProperties
<1>5. \A k \in 1..(Len(s) + 1) : Items(Append(s, x))[k] = Append(Items(s), x.item)[k]
  <2> SUFFICES ASSUME NEW k \in 1..(Len(s) + 1)
               PROVE  Items(Append(s, x))[k] = Append(Items(s), x.item)[k]
    OBVIOUS
  <2>1. k \in 1..Len(s) \/ k = Len(s) + 1
    BY <1>2
  <2> QED BY <1>2, <1>3, <1>4, <2>1
<1> QED BY <1>3, <1>4, <1>5, SeqEqual

LEMMA ItemsFront ==
  ASSUME NEW s \in Seq(Queued), NEW x \in Queued
  PROVE  Items(<<x>> \o s) = <<x.item>> \o Items(s)
<1>1. x.item \in Photo /\ <<x>> \in Seq(Queued) /\ <<x.item>> \in Seq(Photo) /\ Len(s) \in Nat
  BY DEF Queued
<1>2. /\ <<x>> \o s \in Seq(Queued) /\ Len(<<x>> \o s) = 1 + Len(s)
      /\ \A k \in 1..(1 + Len(s)) : (<<x>> \o s)[k] = IF k <= 1 THEN x ELSE s[k - 1]
  BY <1>1, ConcatProperties
<1>3. /\ Items(<<x>> \o s) \in Seq(Photo) /\ Len(Items(<<x>> \o s)) = 1 + Len(s)
      /\ \A k \in 1..(1 + Len(s)) : Items(<<x>> \o s)[k] = (<<x>> \o s)[k].item
  BY <1>2, ItemsType
<1>4. /\ <<x.item>> \o Items(s) \in Seq(Photo) /\ Len(<<x.item>> \o Items(s)) = 1 + Len(s)
      /\ \A k \in 1..(1 + Len(s)) :
            (<<x.item>> \o Items(s))[k] = IF k <= 1 THEN x.item ELSE Items(s)[k - 1]
  BY <1>1, ItemsType, ConcatProperties
<1>5. \A k \in 1..(1 + Len(s)) : Items(<<x>> \o s)[k] = (<<x.item>> \o Items(s))[k]
  <2> SUFFICES ASSUME NEW k \in 1..(1 + Len(s))
               PROVE  Items(<<x>> \o s)[k] = (<<x.item>> \o Items(s))[k]
    OBVIOUS
  <2>1. k <= 1 \/ (~(k <= 1) /\ k - 1 \in 1..Len(s))
    BY <1>1
  <2> QED BY <1>2, <1>3, <1>4, <2>1, ItemsType
<1> QED BY <1>3, <1>4, <1>5, SeqEqual

LEMMA FrontOf ==
  ASSUME NEW T, NEW s \in Seq(T), s # <<>>
  PROVE  s = <<Head(s)>> \o Tail(s) /\ Head(s) \in T /\ Tail(s) \in Seq(T)
  BY HeadTailProperties

LEMMA Itself == ASSUME NEW T, NEW s \in Seq(T) PROVE SubsequenceOf(s, s)
<1> DEFINE f == [k \in DOMAIN s |-> k]
<1>1. f \in [DOMAIN s -> DOMAIN s]
  OBVIOUS
<1>2. \A a, b \in DOMAIN s : a < b => f[a] < f[b]
  OBVIOUS
<1>3. \A a \in DOMAIN s : s[a] = s[f[a]]
  OBVIOUS
<1> QED BY <1>1, <1>2, <1>3 DEF SubsequenceOf

(* A subsequence with an element dropped is one.                            *)
LEMMA DropOne ==
  ASSUME NEW T, NEW a \in Seq(T), NEW x \in T, NEW b \in Seq(T), NEW t \in Seq(T),
         SubsequenceOf(a \o (<<x>> \o b), t)
  PROVE  SubsequenceOf(a \o b, t) /\ Len(a \o b) + 1 = Len(a \o (<<x>> \o b))
<1> DEFINE s == a \o (<<x>> \o b)
           r == a \o b
           n == Len(a)
           m == Len(b)
           Old(k) == IF k <= n THEN k ELSE k + 1
<1>1. n \in Nat /\ m \in Nat /\ <<x>> \in Seq(T)
  OBVIOUS
<1>2. /\ <<x>> \o b \in Seq(T) /\ Len(<<x>> \o b) = 1 + m
      /\ \A k \in 1..(1 + m) : (<<x>> \o b)[k] = IF k <= 1 THEN x ELSE b[k - 1]
  BY <1>1, ConcatProperties
<1>3. /\ s \in Seq(T) /\ Len(s) = n + (1 + m)
      /\ \A k \in 1..(n + (1 + m)) : s[k] = IF k <= n THEN a[k] ELSE (<<x>> \o b)[k - n]
  BY <1>2, ConcatProperties
<1>4. /\ r \in Seq(T) /\ Len(r) = n + m
      /\ \A k \in 1..(n + m) : r[k] = IF k <= n THEN a[k] ELSE b[k - n]
  BY ConcatProperties
<1>5. DOMAIN s = 1..(n + (1 + m)) /\ DOMAIN r = 1..(n + m)
  BY <1>3, <1>4, LenProperties
<1>6. ASSUME NEW k \in 1..(n + m)
      PROVE  Old(k) \in 1..(n + (1 + m)) /\ s[Old(k)] = r[k]
  <2>1. CASE k <= n
    <3>1. k \in 1..(n + (1 + m))
      BY <1>1
    <3> QED BY <1>3, <1>4, <2>1, <3>1
  <2>2. CASE ~(k <= n)
    <3>1. k + 1 \in 1..(n + (1 + m)) /\ ~(k + 1 <= n) /\ (k + 1) - n \in 1..(1 + m)
          /\ ~((k + 1) - n <= 1) /\ ((k + 1) - n) - 1 = k - n
      BY <1>1, <2>2
    <3>2. s[k + 1] = (<<x>> \o b)[(k + 1) - n]
      BY <1>3, <3>1
    <3>3. (<<x>> \o b)[(k + 1) - n] = b[k - n]
      BY <1>2, <3>1
    <3> QED BY <1>4, <2>2, <3>1, <3>2, <3>3
  <2> QED BY <2>1, <2>2
<1>7. \A k, l \in 1..(n + m) : k < l => Old(k) < Old(l)
  BY <1>1
<1>8. SubsequenceOf(s, t)
  OBVIOUS
<1> HIDE DEF s, r, n, m
<1>9. PICK f \in [DOMAIN s -> DOMAIN t] :
        /\ \A c, d \in DOMAIN s : c < d => f[c] < f[d]
        /\ \A c \in DOMAIN s : s[c] = t[f[c]]
  BY <1>8 DEF SubsequenceOf
<1> DEFINE g == [k \in 1..(n + m) |-> f[Old(k)]]
<1>10. \A k \in 1..(n + m) : Old(k) \in DOMAIN s
  BY <1>5, <1>6
<1> HIDE DEF Old
<1>11. g \in [DOMAIN r -> DOMAIN t]
  BY <1>5, <1>9, <1>10
<1>12. \A k, l \in DOMAIN r : k < l => g[k] < g[l]
  BY <1>5, <1>7, <1>9, <1>10
<1>13. \A k \in DOMAIN r : r[k] = t[g[k]]
  BY <1>5, <1>6, <1>9, <1>10
<1>14. SubsequenceOf(r, t)
  BY <1>11, <1>12, <1>13 DEF SubsequenceOf
<1> QED BY <1>1, <1>3, <1>4, <1>14 DEF s, r, n, m

(* The moves along the line.                                                *)
LEMMA Regrouping ==
  /\ \A s, t \in Seq(Photo) : s \o t \in Seq(Photo)
  /\ \A s, t, u \in Seq(Photo) : (s \o t) \o u = s \o (t \o u)
  BY ConcatProperties, ConcatAssociative

LEMMA LineType ==
  \A p, i, l, r \in Seq(Photo) : Line(p, i, l, r) \in Seq(Photo)
  BY Regrouping DEF Line

LEMMA Singles ==
  /\ \E e \in Seq(Photo) : e = <<>> /\ \A r \in Seq(Photo) : e \o r = r /\ r \o e = r
  /\ \A x \in Photo : \E e \in Seq(Photo) : e = <<x>>
<1>1. <<>> \in Seq(Photo) /\ \A r \in Seq(Photo) : <<>> \o r = r /\ r \o <<>> = r
  BY ConcatEmptySeq
<1>2. \A x \in Photo : <<x>> \in Seq(Photo)
  OBVIOUS
<1> QED BY <1>1, <1>2

LEMMA OneFetched ==
  ASSUME NEW p \in Seq(Photo), NEW i \in Seq(Photo), NEW r \in Seq(Photo), r # <<>>
  PROVE  Line(p, i, <<Head(r)>>, Tail(r)) = Line(p, i, <<>>, r)
<1>1. r = <<Head(r)>> \o Tail(r) /\ Head(r) \in Photo /\ Tail(r) \in Seq(Photo)
  BY FrontOf
<1>2. PICK e \in Seq(Photo) : e = <<>> /\ \A q \in Seq(Photo) : e \o q = q /\ q \o e = q
  BY Singles
<1>3. PICK h \in Seq(Photo) : h = <<Head(r)>>
  BY <1>1, Singles
<1>4. PICK a \in Seq(Photo) : a = p \o i
  BY Regrouping
<1>5. r = h \o Tail(r) /\ (a \o h) \o Tail(r) = a \o (h \o Tail(r)) /\ a \o e = a
  BY <1>1, <1>2, <1>3, Regrouping
<1> QED BY <1>2, <1>3, <1>4, <1>5 DEF Line

LEMMA OneQueued ==
  ASSUME NEW p \in Seq(Photo), NEW i \in Seq(Photo), NEW x \in Photo, NEW r \in Seq(Photo)
  PROVE  Line(p, Append(i, x), <<>>, r) = Line(p, i, <<x>>, r)
<1>1. PICK e \in Seq(Photo) : e = <<>> /\ \A q \in Seq(Photo) : e \o q = q /\ q \o e = q
  BY Singles
<1>2. PICK h \in Seq(Photo) : h = <<x>>
  BY Singles
<1>3. PICK j \in Seq(Photo) : j = Append(i, x) /\ j = i \o h
  BY <1>2, AppendIsConcat, AppendProperties
<1>4. (p \o i) \o h = p \o (i \o h)
  BY Regrouping
<1>5. PICK a \in Seq(Photo) : a = p \o j
  BY Regrouping
<1>6. a \o e = a
  BY <1>1
<1>7. (p \o j) \o e = (p \o i) \o h
  BY <1>3, <1>4, <1>5, <1>6
<1> QED BY <1>1, <1>2, <1>3, <1>7 DEF Line

LEMMA OneShown ==
  ASSUME NEW p \in Seq(Photo), NEW i \in Seq(Photo), NEW x \in Photo,
         NEW l \in Seq(Photo), NEW r \in Seq(Photo)
  PROVE  Line(Append(p, x), i, l, r) = Line(p, <<x>> \o i, l, r)
<1>1. PICK h \in Seq(Photo) : h = <<x>>
  BY Singles
<1>2. PICK s \in Seq(Photo) : s = Append(p, x) /\ s = p \o h
  BY <1>1, AppendIsConcat, AppendProperties
<1>3. (p \o h) \o i = p \o (h \o i)
  BY Regrouping
<1> QED BY <1>1, <1>2, <1>3 DEF Line

LEMMA OneMissed ==
  ASSUME NEW p \in Seq(Photo), NEW i \in Seq(Photo), NEW r \in Seq(Photo), r # <<>>,
         NEW t \in Seq(Photo), SubsequenceOf(Line(p, i, <<>>, r), t)
  PROVE  /\ SubsequenceOf(Line(p, i, <<>>, Tail(r)), t)
         /\ Len(Line(p, i, <<>>, Tail(r))) + 1 = Len(Line(p, i, <<>>, r))
<1>1. r = <<Head(r)>> \o Tail(r) /\ Head(r) \in Photo /\ Tail(r) \in Seq(Photo)
  BY FrontOf
<1>2. PICK e \in Seq(Photo) : e = <<>> /\ \A q \in Seq(Photo) : e \o q = q /\ q \o e = q
  BY Singles
<1>3. PICK x \in Photo : x = Head(r)
  BY <1>1
<1>4. PICK b \in Seq(Photo) : b = Tail(r)
  BY <1>1
<1>5. PICK a \in Seq(Photo) : a = p \o i
  BY Regrouping
<1>6. a \o e = a
  BY <1>2
<1>7. Line(p, i, e, r) = a \o r /\ Line(p, i, e, b) = a \o b
  BY <1>5, <1>6 DEF Line
<1>8. SubsequenceOf(a \o (<<x>> \o b), t)
  BY <1>1, <1>2, <1>3, <1>4, <1>7
<1>9. SubsequenceOf(a \o b, t) /\ Len(a \o b) + 1 = Len(a \o (<<x>> \o b))
  BY <1>8, DropOne
<1> QED BY <1>1, <1>2, <1>3, <1>4, <1>7, <1>9

-----------------------------------------------------------------------------
LEMMA LineNow ==
  ASSUME TypeInv
  PROVE  /\ queue \in Seq(Queued) /\ play.photos \in Seq(Photo)
         /\ Own \in Seq(Queued) /\ Items(Own) \in Seq(Photo) /\ Loads \in Seq(Photo)
         /\ OnePass => source \in Sources /\ source.rest \in Seq(Photo) /\ source.ids \in Seq(Photo)
<1>1. queue \in Seq(Queued) /\ play.photos \in Seq(Photo)
  BY TypeParts DEF ScreenOK, PlayOK, Queued
<1>2. Own \in Seq(Queued)
  BY <1>1, OnlyType DEF Own
<1>3. producer.pc = "load" => producer.item \in Photo
  BY TypeParts DEF SourceOK
<1>4. Loads \in Seq(Photo)
  BY <1>3 DEF Loads
<1>5. source # None => source \in Sources
  BY TypeParts DEF SourceOK
<1>6. OnePass => source \in Sources /\ source.ids # None
  BY <1>5 DEF OnePass, Sources
<1> QED BY <1>1, <1>2, <1>4, <1>6, ItemsType, SourceFields

(* What does not touch the line keeps the order.                            *)
LEMMA SameLine ==
  ASSUME PlayedInOrder, OnePass' => OnePass, OnePass' => source'.ids = source.ids,
         OnePass' => InOrder' = InOrder /\ play'.missed = play.missed
  PROVE  PlayedInOrder'
<1> SUFFICES ASSUME OnePass'
             PROVE  /\ Len(InOrder') + play'.missed = Len(source'.ids)
                    /\ SubsequenceOf(InOrder', source'.ids)
  BY DEF PlayedInOrder, SubsequenceOf
<1> QED BY DEF PlayedInOrder

LEMMA SameParts ==
  ASSUME PlayedInOrder, UNCHANGED source, play'.photos = play.photos, play'.missed = play.missed,
         Own' = Own, Loads' = Loads
  PROVE  PlayedInOrder'
<1>1. InOrder' = InOrder
  BY InOrderIs DEF InOrder, Loads
<1> QED BY <1>1, SameLine DEF OnePass

LEMMA ProduceOrder == ASSUME TypeInv, PlayedInOrder, ProduceStep PROVE PlayedInOrder'
<1>1. CASE Take \/ FetchEnded
  <2>1. Own' = Own
    BY <1>1 DEF Take, FetchEnded, Own
  <2>2. Loads = <<>> /\ Loads' = <<>>
    <3>1. producer.pc # "load" /\ (Take => producer'.pc # "load")
      BY <1>1 DEF Take, Taken, FetchEnded
    <3>2. FetchEnded => producer'.pc # "load"
      BY TypeParts DEF FetchEnded, SourceOK
    <3> QED BY <1>1, <3>1, <3>2 DEF Loads
  <2> QED BY <1>1, <2>1, <2>2, SameParts DEF Take, FetchEnded
<1>2. CASE FetchLooping \/ FetchNext
  <2>1. PICK list \in Seq(Photo) :
             /\ list # <<>>
             /\ list = Running.rest \/ list \in Cycles
             /\ Loading(Head(list)) /\ Advance(Tail(list))
             /\ Head(list) \in Photo /\ Tail(list) \in Seq(Photo)
    BY <1>2, FetchSteps
  <2>2. producer.pc = "fetch" /\ UNCHANGED <<queue, play>>
    BY <1>2 DEF FetchLooping, FetchNext
  <2>3. Own' = Own
    BY <2>2 DEF Own
  <2>4. Loads = <<>> /\ Loads' = IF producer.live THEN <<Head(list)>> ELSE <<>>
    BY <2>1, <2>2, TypeParts DEF Loading, Loads, SourceOK
  <2>5. CASE ~producer.live
    BY <2>1, <2>2, <2>3, <2>4, <2>5, SameParts DEF Advance
  <2>6. CASE producer.live
    <3>1. SameSource /\ source # None /\ source'.rest = Tail(list)
      BY <2>1, <2>2, <2>6, AdvanceSame
    <3>2. OnePass' => OnePass /\ source'.ids = source.ids
      BY <3>1 DEF OnePass, SameSource
    <3>3. OnePass => FetchNext /\ Running.rest = source.rest /\ source.rest # <<>>
                     /\ source'.rest = Tail(source.rest) /\ Loads' = <<Head(source.rest)>>
      <4>1. Running = source
        BY <2>6 DEF Running
      <4>2. OnePass => FetchNext
        BY <1>2, <4>1 DEF OnePass, FetchLooping
      <4>3. FetchNext => /\ Running.rest # <<>> /\ Loading(Head(Running.rest))
                         /\ Advance(Tail(Running.rest))
        BY DEF FetchNext
      <4>4. FetchNext => Tail(Running.rest) \in Seq(Photo) /\ Head(Running.rest) \in Photo
        BY <4>3, <2>2, RunningType, SourceFields, HeadTailProperties
      <4>5. FetchNext => source'.rest = Tail(Running.rest)
        BY <2>2, <2>6, <4>3, <4>4, AdvanceSame
      <4>6. FetchNext => Loads' = <<Head(Running.rest)>>
        BY <2>2, <2>6, <4>3, TypeParts DEF Loading, Loads, SourceOK
      <4> QED BY <4>1, <4>2, <4>3, <4>5, <4>6
    <3>4. OnePass => InOrder' = InOrder
      <4> SUFFICES ASSUME OnePass PROVE InOrder' = InOrder
        OBVIOUS
      <4>1. play.photos \in Seq(Photo) /\ Items(Own) \in Seq(Photo) /\ source.rest \in Seq(Photo)
        BY LineNow
      <4>2. InOrder' = Line(play'.photos, Items(Own'), Loads', source'.rest)
        BY DEF InOrder, Line, Items, Loads
      <4>3. InOrder' = Line(play.photos, Items(Own), <<Head(source.rest)>>, Tail(source.rest))
        BY <2>2, <2>3, <3>3, <4>2
      <4>4. InOrder = Line(play.photos, Items(Own), <<>>, source.rest)
        BY <2>4, InOrderIs
      <4> QED BY <3>3, <4>1, <4>3, <4>4, OneFetched
    <3> QED BY <2>2, <3>2, <3>4, SameLine
  <2> QED BY <2>5, <2>6
<1>3. CASE FetchMissing
  <2>1. /\ producer.pc = "fetch" /\ ~Running.loop /\ Running.rest # <<>>
        /\ Advance(Tail(Running.rest)) /\ UNCHANGED queue
    BY <1>3 DEF FetchMissing
  <2>2. Own' = Own
    BY <2>1 DEF Own
  <2>3. Tail(Running.rest) \in Seq(Photo)
    BY <2>1, RunningType, SourceFields, HeadTailProperties
  <2>4. Loads = <<>> /\ Loads' = <<>>
    BY <1>3, <2>1, TypeParts DEF FetchMissing, Loads, SourceOK
  <2>5. CASE ~producer.live
    BY <1>3, <2>1, <2>2, <2>4, <2>5, SameParts DEF Advance, FetchMissing
  <2>6. CASE producer.live
    <3>1. Running = source /\ source # None /\ OnePass
      BY <2>1, <2>6, RunningType, TypeParts DEF Running, SourceOK, OnePass
    <3>2. source'.rest = Tail(source.rest) /\ source'.ids = source.ids
      BY <2>1, <2>3, <2>6, <3>1, AdvanceSame DEF SameSource
    <3>3. play'.photos = play.photos /\ play'.missed = play.missed + 1 /\ play.missed \in Nat
      BY <1>3, <2>6, TypeParts DEF FetchMissing, PlayOK
    <3>4. /\ play.photos \in Seq(Photo) /\ Items(Own) \in Seq(Photo)
          /\ source.rest \in Seq(Photo) /\ source.ids \in Seq(Photo)
      BY <3>1, LineNow
    <3>5. InOrder = Line(play.photos, Items(Own), <<>>, source.rest)
      BY <2>4, InOrderIs
    <3>6. InOrder' = Line(play.photos, Items(Own), <<>>, Tail(source.rest))
      <4>1. InOrder' = Line(play'.photos, Items(Own'), Loads', source'.rest)
        BY DEF InOrder, Line, Items, Loads
      <4> QED BY <2>2, <2>4, <3>2, <3>3, <4>1
    <3>7. Len(InOrder) + play.missed = Len(source.ids) /\ SubsequenceOf(InOrder, source.ids)
      BY <3>1 DEF PlayedInOrder
    <3>8. SubsequenceOf(InOrder', source.ids) /\ Len(InOrder') + 1 = Len(InOrder)
      BY <2>1, <3>1, <3>4, <3>5, <3>6, <3>7, OneMissed
    <3>9. InOrder' \in Seq(Photo)
      <4>1. <<>> \in Seq(Photo) /\ Tail(source.rest) \in Seq(Photo)
        BY <2>3, <3>1
      <4> QED BY <3>4, <3>6, <4>1, LineType
    <3>10. Len(InOrder') + play'.missed = Len(source.ids)
      <4>1. Len(InOrder') \in Nat
        BY <3>9, LenProperties
      <4> QED BY <3>3, <3>7, <3>8, <4>1
    <3> QED BY <3>2, <3>8, <3>10 DEF PlayedInOrder, SubsequenceOf
  <2> QED BY <2>5, <2>6
<1>4. CASE Enqueue
  <2> DEFINE x == [item |-> producer.item, live |-> producer.live]
  <2>1. x \in Queued /\ producer.item \in Photo /\ producer.pc = "load" /\ producer.live \in BOOLEAN
    BY <1>4, TypeParts DEF Enqueue, SourceOK, Queued
  <2>2. queue' = Append(queue, x) /\ UNCHANGED <<source, play>> /\ producer' = Taken
    BY <1>4 DEF Enqueue
  <2>3. Loads' = <<>>
    BY <2>2 DEF Loads, Taken
  <2>4. x \in Fresh <=> producer.live
    BY <2>1 DEF Fresh
  <2>5. x.item = producer.item
    OBVIOUS
  <2> HIDE DEF x
  <2>6. Own' = IF producer.live THEN Append(Own, x) ELSE Own
    <3>1. queue \in Seq(Queued)
      BY LineNow
    <3>2. Only(Append(queue, x), Fresh) = IF x \in Fresh THEN Append(Only(queue, Fresh), x)
                                          ELSE Only(queue, Fresh)
      BY <2>1, <3>1, OnlyAppend, Zenon
    <3> QED BY <2>2, <2>4, <3>2 DEF Own, Fresh
  <2>7. CASE ~producer.live
    BY <2>2, <2>3, <2>6, <2>7, SameParts DEF Loads
  <2>8. CASE producer.live
    <3>1. Items(Own') = Append(Items(Own), producer.item)
      BY <2>1, <2>5, <2>6, <2>8, LineNow, ItemsAppend
    <3>2. InOrder' = Line(play.photos, Append(Items(Own), producer.item), <<>>, source.rest)
      <4>1. InOrder' = Line(play'.photos, Items(Own'), Loads', source'.rest)
        BY DEF InOrder, Line, Items, Loads
      <4> QED BY <2>2, <2>3, <3>1, <4>1
    <3>3. InOrder = Line(play.photos, Items(Own), <<producer.item>>, source.rest)
      BY <2>1, <2>8, InOrderIs DEF Loads
    <3>4. OnePass => InOrder' = InOrder
      BY <2>1, <3>2, <3>3, LineNow, OneQueued
    <3> QED BY <2>2, <3>4, SameLine DEF OnePass
  <2> QED BY <2>7, <2>8
<1> QED BY <1>1, <1>2, <1>3, <1>4 DEF ProduceStep

LEMMA StaleFront ==
  ASSUME NEW y \in Queued, NEW s \in Seq(Queued), y \notin Fresh
  PROVE  Only(<<y>> \o s, Fresh) = Only(s, Fresh)
<1> DEFINE S == Fresh
<1>1. y \notin S
  OBVIOUS
<1> HIDE DEF S
<1>2. Only(<<y>> \o s, S) = Only(s, S)
  BY <1>1, OnlyFront
<1> QED BY <1>2 DEF S

LEMMA DisplayOrder == ASSUME TypeInv, PlayedInOrder, DisplayStep PROVE PlayedInOrder'
<1>1. CASE ShowOverride \/ WaitForItem \/ EndShow
  <2>1. UNCHANGED <<source, producer, queue>> /\ play'.photos = play.photos /\ play'.missed = play.missed
    BY <1>1, TypeParts DEF ShowOverride, WaitForItem, EndShow, TurnEnded, PlayOK
  <2>2. Own' = Own /\ Loads' = Loads
    BY <2>1 DEF Own, Loads
  <2> QED BY <2>1, <2>2, SameParts
<1>2. ASSUME Getting
      PROVE  /\ queue = <<Head(queue)>> \o Tail(queue)
             /\ Head(queue) \in Queued /\ Tail(queue) \in Seq(Queued)
  BY <1>2, LineNow, FrontOf DEF Getting
<1>3. CASE DropStale
  <2>1. Getting /\ ~Head(queue).live /\ queue' = Tail(queue) /\ UNCHANGED <<source, producer, play>>
    BY <1>3 DEF DropStale
  <2> DEFINE x == Head(queue)
  <2>2. x \in Queued /\ x \notin Fresh
    BY <1>2, <2>1 DEF Fresh
  <2>3. Own = Only(queue', Fresh)
    <3>1. Only(<<x>> \o Tail(queue), Fresh) = Only(Tail(queue), Fresh)
      BY <1>2, <2>1, <2>2, StaleFront
    <3>2. Only(queue, Fresh) = Only(<<x>> \o Tail(queue), Fresh)
      BY <1>2, <2>1, Zenon
    <3>3. Only(queue, Fresh) = Only(Tail(queue), Fresh)
      BY <3>1, <3>2
    <3> QED BY <2>1, <3>3 DEF Own, Fresh
  <2>4. Own' = Own
    BY <2>3 DEF Own, Fresh
  <2>5. Loads' = Loads
    BY <2>1 DEF Loads
  <2> QED BY <2>1, <2>4, <2>5, SameParts
<1>4. CASE ShowFresh
  <2>1. /\ Getting /\ Head(queue).live /\ queue' = Tail(queue) /\ UNCHANGED <<source, producer>>
        /\ play' = [play EXCEPT !.shown = TRUE,
                     !.photos = IF OnePass THEN Append(@, Head(queue).item) ELSE @]
    BY <1>4 DEF ShowFresh
  <2> DEFINE x == Head(queue)
  <2>2. x \in Queued /\ x \in Fresh /\ x.item \in Photo
    BY <1>2, <2>1 DEF Fresh, Queued
  <2>3. Own = <<x>> \o Own'
    <3>1. Only(queue, Fresh) = <<x>> \o Only(Tail(queue), Fresh)
      BY <1>2, <2>1, <2>2, OnlyFront
    <3> QED BY <2>1, <3>1 DEF Own, Fresh
  <2>4. Own' \in Seq(Queued)
    BY <1>2, <2>1, OnlyType DEF Own
  <2>5. Loads' = Loads
    BY <2>1 DEF Loads
  <2>6. OnePass => play'.photos = Append(play.photos, x.item) /\ play'.missed = play.missed
    BY <2>1, TypeParts DEF PlayOK
  <2> HIDE DEF x
  <2>7. Items(Own) = <<x.item>> \o Items(Own')
    BY <2>2, <2>3, <2>4, ItemsFront
  <2>8. OnePass => InOrder' = InOrder
    <3> SUFFICES ASSUME OnePass PROVE InOrder' = InOrder
      OBVIOUS
    <3>1. InOrder' = Line(play'.photos, Items(Own'), Loads', source'.rest)
      BY DEF InOrder, Line, Items, Loads
    <3>2. InOrder' = Line(Append(play.photos, x.item), Items(Own'), Loads, source.rest)
      BY <2>1, <2>5, <2>6, <3>1
    <3>3. InOrder = Line(play.photos, <<x.item>> \o Items(Own'), Loads, source.rest)
      BY <2>7, InOrderIs
    <3>4. Items(Own') \in Seq(Photo)
      BY <2>4, ItemsType
    <3> QED BY <2>2, <3>2, <3>3, <3>4, LineNow, OneShown
  <2> QED BY <2>1, <2>6, <2>8, SameLine DEF OnePass
<1> QED BY <1>1, <1>3, <1>4 DEF DisplayStep

(* A new source begins with all its ids to come.                            *)
LEMMA NewSource ==
  ASSUME TypeInv, NEW src \in Sources \cup {None}, SetProducer(src), queue' = <<>>,
         src # None /\ ~src.loop => src.rest = src.ids
  PROVE  PlayedInOrder'
<1> SUFFICES ASSUME OnePass'
             PROVE  Len(InOrder') + play'.missed = Len(source'.ids) /\ SubsequenceOf(InOrder', source'.ids)
  BY DEF PlayedInOrder, SubsequenceOf
<1>1. source' = src /\ play' = NothingPlayed /\ src \in Sources /\ src.rest = src.ids
  BY DEF SetProducer, OnePass
<1>2. src.rest \in Seq(Photo)
  BY <1>1, SourceFields
<1>3. Loads' = <<>>
  BY TypeParts DEF SetProducer, Loads, SourceOK
<1>4. Own' = <<>>
  BY OnlyEmpty DEF Own
<1>5. InOrder' = Line(<<>>, <<>>, <<>>, src.rest)
  <2>1. InOrder' = Line(play'.photos, Items(Own'), Loads', source'.rest)
    BY DEF InOrder, Line, Items, Loads
  <2> QED BY <1>1, <1>3, <1>4, <2>1, ItemsEmpty DEF NothingPlayed
<1>6. InOrder' = src.rest
  <2>1. PICK e \in Seq(Photo) : e = <<>> /\ \A r \in Seq(Photo) : e \o r = r /\ r \o e = r
    BY Singles
  <2>2. Line(e, e, e, src.rest) = src.rest
    <3>1. ((e \o e) \o e) \o src.rest = src.rest
      BY <1>2, <2>1
    <3> QED BY <3>1 DEF Line
  <2> QED BY <1>5, <2>1, <2>2
<1>7. Len(src.rest) + 0 = Len(src.rest)
  BY <1>2, LenProperties
<1> QED BY <1>1, <1>2, <1>6, <1>7, Itself DEF NothingPlayed

LEMMA FreshSource ==
  ASSUME NEW ids, NEW loop \in BOOLEAN, ServerProducer(ids, loop) # None, ~ServerProducer(ids, loop).loop
  PROVE  ServerProducer(ids, loop).rest = ServerProducer(ids, loop).ids
  BY DEF ServerProducer, Selection

LEMMA OrderStep == ASSUME TypeInv, PlayedInOrder, [Next]_vars PROVE PlayedInOrder'
<1>1. ASSUME UNCHANGED <<source, producer, queue, play>> PROVE PlayedInOrder'
  <2>1. Own' = Own /\ Loads' = Loads
    BY <1>1 DEF Own, Loads
  <2> QED BY <1>1, <2>1, SameParts
<1>2. ASSUME NEW src \in Sources \cup {None}, NEW m, NEW started, Switch(src, m, started),
             src # None /\ ~src.loop => src.rest = src.ids
      PROVE  PlayedInOrder'
  BY <1>2, NewSource DEF Switch
<1>3. ASSUME SetProducer(WholeLibrary) PROVE PlayedInOrder'
  BY <1>3 DEF SetProducer, PlayedInOrder, OnePass, WholeLibrary, Selection
<1>4. CASE RevertStep
  <2>1. CASE PlaylistTimerBegins
    BY <1>1, <2>1 DEF PlaylistTimerBegins
  <2>2. ASSUME NEW kind \in {"single", "playlist"}, Revert(kind) PROVE PlayedInOrder'
    <3>1. SetProducer(WholeLibrary) \/ UNCHANGED <<source, producer, queue, play>>
      BY <2>2 DEF Revert, Switch
    <3> QED BY <1>1, <1>3, <3>1
  <2> QED BY <1>4, <2>1, <2>2 DEF RevertStep
<1>5. CASE Pair
  BY <1>3, <1>5 DEF Pair
<1>6. CASE ClientStep
  <2>1. CASE NextItem \/ PrevItem \/ TogglePause \/ \E p \in Photo : LibraryChanges(p)
    BY <1>1, <2>1, ViewerFrame
  <2>2. ASSUME NEW p \in Photo, Switch(ServerProducer(<<p>>, TRUE), "single",
                                      {[kind |-> "single", begun |-> TRUE, due |-> 0]})
        PROVE  PlayedInOrder'
    BY <1>2, <2>2, MadeType, FreshSource
  <2>3. ASSUME NEW ids \in Playlists, NEW loop \in BOOLEAN,
               Switch(ServerProducer(ids, loop), "playlist",
                       IF loop \/ ids = <<>> THEN {}
                       ELSE {[kind |-> "playlist", begun |-> FALSE, due |-> Len(ids)]})
        PROVE  PlayedInOrder'
    <3>1. ids # None
      BY NonePlaylistAssumption
    <3> QED BY <1>2, <2>3, <3>1, MadeType, FreshSource
  <2>4. ASSUME Switch(ServerProducer(None, TRUE), "all", {}) PROVE PlayedInOrder'
    BY <1>2, <2>4, MadeType, FreshSource
  <2> QED BY <1>6, <2>1, <2>2, <2>3, <2>4, SwitchSteps
<1>7. CASE UNCHANGED vars
  BY <1>1, <1>7 DEF vars
<1> QED BY <1>4, <1>5, <1>6, <1>7, ProduceOrder, DisplayOrder DEF Next

(* A programmed slideshow plays its ids in order, none twice, none skipped  *)
(* but those the server does not have, for every list, queue and history,   *)
(* through every switch, pause and back-navigation (routes.py:141;          *)
(* app.py:127-129 "once in order").                                         *)
THEOREM SlidePlayedInOrder == Spec => []PlayedInOrder
<1>1. Init => PlayedInOrder
  BY DEF Init, PlayedInOrder, OnePass, WholeLibrary, CachedFiles, Selection
<1>2. TypeInv /\ PlayedInOrder /\ [Next]_vars => PlayedInOrder'
  BY OrderStep
<1> QED BY <1>1, <1>2, TypeAlways, PTL DEF Spec
=============================================================================
