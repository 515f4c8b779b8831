----------------------------- MODULE Slideshow -----------------------------
(***************************************************************************)
(* The display's slideshow: the produce and display tasks of Slideshow     *)
(* (slideshow/slideshow.py), the sources they play (ServerProducer.items   *)
(* inside async_load_infinite or on its own; the cached files of a display *)
(* without a server), the remote-control handlers with the two tasks that  *)
(* bring the display back to the whole library (api/routes.py), and the    *)
(* pairing with a server that is discovered (app/app.py).                  *)
(*                                                                         *)
(* Everything runs on one asyncio loop, so a step is what runs between two *)
(* awaits.                                                                 *)
(*                                                                         *)
(* Abstractions.  The generation only grows, so the number an item is      *)
(* tagged with is kept as `live': still the current one.  A dwell may end  *)
(* at any time, which covers its timeout, skip() and an item that cannot   *)
(* be shown, so the skip event is left out.  A collection of one cycle of  *)
(* a looping source (several HTTP requests) is one step; a photo whose     *)
(* request fails is out of `library' for that long.  displayed_count is    *)
(* kept as what the revert task still waits for.                           *)
(***************************************************************************)
EXTENDS Naturals, Sequences, FiniteSets, Lists

CONSTANTS
    Photo,        \* media ids
    Cached,       \* the photos whose files a display without a server plays
    Playlists,    \* the id lists a client may program
    MaxPreload,   \* max_preload_queue of the hardware profile
    HistoryLen,   \* history_len
    MaxRequests,  \* bound: client requests and library changes in a run
    None          \* Python's None

ASSUME PhotoAssumption ==
    IsFiniteSet(Photo) /\ None \notin Photo /\ Cached \subseteq Photo
ASSUME PlaylistsAssumption == Playlists \subseteq Seq(Photo)
ASSUME NonePlaylistAssumption == None \notin Playlists
ASSUME BoundsAssumption ==
    /\ MaxPreload \in Nat \ {0}
    /\ HistoryLen \in Nat \ {0}
    /\ MaxRequests \in Nat

VARIABLES
    library,   \* the photos the server would serve now
    paired,    \* whether server_url is set
    source,    \* _producer; None when it is Python's None
    producer,  \* where produce_target is
    queue,     \* _queue
    display,   \* where display_target is, and whose turn it is on the screen:
               \* "fresh", "preempted" by a newer source, or shown "again"
    current,   \* _current
    history,   \* _history, oldest first
    cursor,    \* _cursor + 1
    override,  \* _override
    paused,    \* _paused
    mode,      \* state["mode"]
    timers,    \* the revert tasks that run; the one in revert["task"]
    play,      \* history: what the current source has had on the screen
    requests   \* bound: requests so far

controlVars == <<cursor, override, paused, mode, timers>>
vars == <<library, paired, source, producer, queue, display, current, history,
          controlVars, play, requests>>

(* A source: the ids it was made for (None: all there are), whether it      *)
(* loops, whether it asks the server or reads the cache, and what is left   *)
(* of its cycle.                                                            *)
Selection(ids, loop) ==
    [ids |-> ids, loop |-> loop, remote |-> TRUE,
     rest |-> IF loop THEN <<>> ELSE ids]
WholeLibrary == Selection(None, TRUE)
CachedFiles == [WholeLibrary EXCEPT !.remote = FALSE]

(* make_server_producer: without a server there is nothing to make. *)
ServerProducer(ids, loop) == IF paired THEN Selection(ids, loop) ELSE None

(* The sources there can be; a cached one plays all there is.               *)
Sources ==
    {s \in [ids : Playlists \cup {<<p>> : p \in Photo} \cup {None}, loop : BOOLEAN,
            remote : BOOLEAN, rest : Seq(Photo)] :
        /\ s.ids = None => s.loop
        /\ ~s.remote => s.ids = None}

ASSUME NoneSourceAssumption == None \notin Sources

OnePass == source # None /\ ~source.loop

(* What the current source did: `shown' that a photo of it came up and, of  *)
(* a one-pass source, the photos that came up, how many of them had their   *)
(* whole turn, and how many ids it dropped.                                 *)
NothingPlayed == [shown |-> FALSE, photos |-> <<>>, ended |-> 0, missed |-> 0]

-----------------------------------------------------------------------------
(* produce_target. *)

(* Reading the current producer and generation, and calling __anext__.      *)
(* next(None) raises TypeError, and the task group takes the process down.  *)
Taken == [pc |-> IF source = None THEN "dead" ELSE "fetch", live |-> TRUE,
          old |-> None, item |-> None]

Take ==
    /\ producer.pc = "take"
    /\ producer' = Taken
    /\ UNCHANGED <<library, paired, source, queue, display, current, history,
                   controlVars, play, requests>>

(* The generator __anext__ runs on: the current source, or the one that     *)
(* has been replaced since.                                                 *)
Running == IF producer.live THEN source ELSE producer.old

(* It is left with `rest' to go. *)
Advance(rest) ==
    IF producer.live
    THEN source' = [source EXCEPT !.rest = rest]
    ELSE UNCHANGED source

Loading(item) ==
    producer' = [producer EXCEPT !.pc = "load", !.item = item, !.old = None]

(* Every way to list a set, each member once: what random.shuffle may leave.*)
Listings(S) ==
    {l \in [1..Cardinality(S) -> S] : \A a, b \in DOMAIN l : l[a] = l[b] => a = b}

(* One cycle of async_load_infinite's factory, shuffled: all the photos     *)
(* there are, or those of the ids asked for that are there.                 *)
Cycles ==
    IF Running.ids = None
    THEN Listings(IF Running.remote THEN library ELSE Cached)
    ELSE LET ids == Running.ids
             found == {k \in DOMAIN ids : ids[k] \in library}
         IN  {[k \in DOMAIN l |-> ids[l[k]]] : l \in Listings(found)}

(* A looping source yields the next photo of its cycle or of a new one.  An *)
(* empty cycle is collected again and again inside the same __anext__.      *)
FetchLooping ==
    /\ producer.pc = "fetch"
    /\ Running.loop
    /\ \E list \in IF Running.rest = <<>> THEN Cycles ELSE {Running.rest} :
         /\ list # <<>>
         /\ Loading(Head(list))
         /\ Advance(Tail(list))
    /\ UNCHANGED <<library, paired, queue, display, current, history, controlVars,
                   play, requests>>

(* A one-pass source yields its next id if the server still has it. *)
FetchNext ==
    /\ producer.pc = "fetch"
    /\ ~Running.loop
    /\ Running.rest # <<>>
    /\ Head(Running.rest) \in library
    /\ Loading(Head(Running.rest))
    /\ Advance(Tail(Running.rest))
    /\ UNCHANGED <<library, paired, queue, display, current, history, controlVars,
                   play, requests>>

(* ... drops it if not, and goes on to the next ... *)
FetchMissing ==
    /\ producer.pc = "fetch"
    /\ ~Running.loop
    /\ Running.rest # <<>>
    /\ Head(Running.rest) \notin library
    /\ Advance(Tail(Running.rest))
    /\ IF producer.live
       THEN /\ play' = [play EXCEPT !.missed = @ + 1]
            /\ UNCHANGED producer
       ELSE /\ producer' = [producer EXCEPT !.old.rest = Tail(@)]
            /\ UNCHANGED play
    /\ UNCHANGED <<library, paired, queue, display, current, history, controlVars,
                   requests>>

(* A slip of FetchEnded: the task ends with its generator.                  *)
FetchEndedReturns ==
    /\ producer.pc = "fetch"
    /\ \/ ~Running.loop /\ Running.rest = <<>>
       \/ ~Running.remote /\ Cached = {}
    /\ producer' = [pc |-> "dead", live |-> TRUE, old |-> None, item |-> None]
    /\ UNCHANGED <<library, paired, source, queue, display, current, history,
                   controlVars, play, requests>>

(* ... and ends with StopAsyncIteration, after which the task looks for     *)
(* the current producer again; load_infinite ends when nothing is cached.   *)
FetchEnded ==
    /\ producer.pc = "fetch"
    /\ \/ ~Running.loop /\ Running.rest = <<>>
       \/ ~Running.remote /\ Cached = {}
    /\ producer' = [producer EXCEPT !.pc = "take", !.live = TRUE, !.old = None]
    /\ UNCHANGED <<library, paired, source, queue, display, current, history,
                   controlVars, play, requests>>

(* A slip of Enqueue: the item is tagged with the generation current now.   *)
EnqueueRetagged ==
    /\ producer.pc = "load"
    /\ Len(queue) < MaxPreload
    /\ producer.live => \A t \in timers : t.begun
    /\ queue' = Append(queue, [item |-> producer.item, live |-> TRUE])
    /\ producer' = Taken
    /\ UNCHANGED <<library, paired, source, display, current, history, controlVars,
                   play, requests>>

(* A slip of Enqueue: the item goes to the front.                           *)
EnqueueFirst ==
    /\ producer.pc = "load"
    /\ Len(queue) < MaxPreload
    /\ producer.live => \A t \in timers : t.begun
    /\ queue' = <<[item |-> producer.item, live |-> producer.live]>> \o queue
    /\ producer' = Taken
    /\ UNCHANGED <<library, paired, source, display, current, history, controlVars,
                   play, requests>>

(* The loaded item is put, with the generation read before it was fetched,  *)
(* as soon as the queue has room; the task reads the producer again at once.*)
(* A revert task begins in the loop's next iteration, before the requests   *)
(* and the decoding of the new source's first photo can be over.            *)
Enqueue ==
    /\ producer.pc = "load"
    /\ Len(queue) < MaxPreload
    /\ producer.live => \A t \in timers : t.begun
    /\ queue' = Append(queue, [item |-> producer.item, live |-> producer.live])
    /\ producer' = Taken
    /\ UNCHANGED <<library, paired, source, display, current, history, controlVars,
                   play, requests>>

ProduceStep ==
    \/ Take
    \/ FetchLooping
    \/ FetchNext
    \/ FetchMissing
    \/ FetchEnded
    \/ Enqueue

-----------------------------------------------------------------------------
(* display_target. *)

(* Every task ends with the first that raises. *)
Alive == producer.pc # "dead"

AtTop == Alive /\ display.pc = "top" /\ ~paused

(* Back-navigation comes before the queue, and is not recorded.             *)
ShowOverride ==
    /\ AtTop
    /\ override # None
    /\ display' = [pc |-> "show", turn |-> "again"]
    /\ current' = override
    /\ override' = None
    /\ UNCHANGED <<library, paired, source, producer, queue, history, cursor, paused,
                   mode, timers, play, requests>>

(* The queue is empty: the task waits in queue.get(), and looks at neither  *)
(* the pause nor the override until an item comes.                          *)
WaitForItem ==
    /\ AtTop
    /\ override = None
    /\ queue = <<>>
    /\ display' = [display EXCEPT !.pc = "get"]
    /\ UNCHANGED <<library, paired, source, producer, queue, current, history,
                   controlVars, play, requests>>

Getting ==
    /\ Alive
    /\ queue # <<>>
    /\ \/ display.pc = "get"
       \/ AtTop /\ override = None

DropStale ==
    /\ Getting
    /\ ~Head(queue).live
    /\ queue' = Tail(queue)
    /\ display' = [display EXCEPT !.pc = "top"]
    /\ UNCHANGED <<library, paired, source, producer, current, history, controlVars,
                   play, requests>>

(* A history of at most HistoryLen items with one more. *)
Recorded(item) ==
    LET longer == Append(history, item)
    IN  IF Len(longer) > HistoryLen THEN Tail(longer) ELSE longer

(* A slip of ShowFresh: the cursor is set before the oldest item is dropped.*)
ShowFreshCursorFirst ==
    /\ Getting
    /\ Head(queue).live
    /\ queue' = Tail(queue)
    /\ display' = [pc |-> "show", turn |-> "fresh"]
    /\ current' = Head(queue).item
    /\ history' = Recorded(Head(queue).item)
    /\ cursor' = Len(history) + 1
    /\ play' = [play EXCEPT !.shown = TRUE,
                            !.photos = IF OnePass THEN Append(@, Head(queue).item) ELSE @]
    /\ UNCHANGED <<library, paired, source, producer, override, paused, mode, timers,
                   requests>>

(* The next item of the current source is recorded and shown.               *)
ShowFresh ==
    /\ Getting
    /\ Head(queue).live
    /\ queue' = Tail(queue)
    /\ display' = [pc |-> "show", turn |-> "fresh"]
    /\ current' = Head(queue).item
    /\ history' = Recorded(Head(queue).item)
    /\ cursor' = Len(history')
    /\ play' = [play EXCEPT !.shown = TRUE,
                            !.photos = IF OnePass THEN Append(@, Head(queue).item) ELSE @]
    /\ UNCHANGED <<library, paired, source, producer, override, paused, mode, timers,
                   requests>>

(* A revert task that has read displayed_count sees one more. *)
OneMorePlayed ==
    timers' = {[t EXCEPT !.due = IF t.begun /\ @ > 0 THEN @ - 1 ELSE @] : t \in timers}

(* The turn of a photo of a one-pass source is over. *)
TurnEnded ==
    play' = IF display.turn = "fresh" /\ OnePass
            THEN [play EXCEPT !.ended = @ + 1]
            ELSE play

(* A slip of EndShow: a photo shown again counts as well.                   *)
EndShowCountsAll ==
    /\ Alive /\ display.pc = "show"
    /\ display' = [display EXCEPT !.pc = "top"]
    /\ OneMorePlayed
    /\ TurnEnded
    /\ UNCHANGED <<library, paired, source, producer, queue, current, history, cursor,
                   override, paused, mode, requests>>

(* item.display returns.  One from the queue counts, also if its source has *)
(* been replaced while it was up.                                           *)
EndShow ==
    /\ Alive /\ display.pc = "show"
    /\ display' = [display EXCEPT !.pc = "top"]
    /\ IF display.turn = "again" THEN UNCHANGED timers ELSE OneMorePlayed
    /\ TurnEnded
    /\ UNCHANGED <<library, paired, source, producer, queue, current, history, cursor,
                   override, paused, mode, requests>>

DisplayStep ==
    \/ ShowOverride
    \/ WaitForItem
    \/ DropStale
    \/ ShowFresh
    \/ EndShow
-----------------------------------------------------------------------------
(* The handlers and the revert tasks. *)

(* set_producer: what is being fetched, loaded or shown is of the source    *)
(* before.                                                                  *)
SetProducer(src) ==
    /\ source' = src
    /\ producer' = IF producer.pc \in {"fetch", "load"} /\ producer.live
                   THEN [producer EXCEPT !.live = FALSE,
                           !.old = IF producer.pc = "fetch" THEN source ELSE None]
                   ELSE producer
    /\ display' = IF display.turn = "fresh"
                  THEN [display EXCEPT !.turn = "preempted"]
                  ELSE display
    /\ play' = NothingPlayed

(* A slip of Switch: the pending revert task is not cancelled.              *)
SwitchKeepsTimer(src, m, started) ==
    /\ SetProducer(src)
    /\ queue' = <<>>
    /\ paused' = FALSE
    /\ mode' = m
    /\ timers' = timers \cup started
    /\ UNCHANGED <<library, paired, current, history, cursor, override>>

(* _switch and what its callers start: the source is replaced, the queue is *)
(* flushed, the slideshow resumed, the photo on the screen cut short, the   *)
(* revert task that is pending cancelled.                                   *)
Switch(src, m, started) ==
    /\ SetProducer(src)
    /\ queue' = <<>>
    /\ paused' = FALSE
    /\ mode' = m
    /\ timers' = started
    /\ UNCHANGED <<library, paired, current, history, cursor, override>>

Request ==
    /\ Alive
    /\ requests < MaxRequests
    /\ requests' = requests + 1

(* POST /slideshow/show/{id}: a looping source of one photo, for a minute.  *)
ShowItem(p) ==
    /\ Request
    /\ Switch(ServerProducer(<<p>>, TRUE), "single",
              {[kind |-> "single", begun |-> TRUE, due |-> 0]})

(* A slip of PlayPlaylist: the revert task counts the preempted photo in.   *)
PlayPlaylistOneMore(ids, loop) ==
    /\ Request
    /\ Switch(ServerProducer(ids, loop), "playlist",
              IF loop \/ ids = <<>> THEN {}
              ELSE {[kind |-> "playlist", begun |-> FALSE, due |-> Len(ids) + 1]})

(* POST /slideshow/playlist. *)
PlayPlaylist(ids, loop) ==
    /\ Request
    /\ Switch(ServerProducer(ids, loop), "playlist",
              IF loop \/ ids = <<>> THEN {}
              ELSE {[kind |-> "playlist", begun |-> FALSE, due |-> Len(ids)]})

(* POST /slideshow/all. *)
PlayAll ==
    /\ Request
    /\ Switch(ServerProducer(None, TRUE), "all", {})

(* The first step of _revert_after_playlist reads displayed_count: from now *)
(* on it waits for `due' more.                                              *)
PlaylistTimerBegins ==
    /\ Alive
    /\ \E t \in timers :
        /\ ~t.begun
        /\ timers' = (timers \ {t}) \cup {[t EXCEPT !.begun = TRUE]}
    /\ UNCHANGED <<library, paired, source, producer, queue, display, current,
                   history, cursor, override, paused, mode, play, requests>>

(* A revert task wakes up for the last time: it goes back to the whole      *)
(* library, unless the mode is no longer the one it was started for or      *)
(* there is no server.                                                      *)
Revert(kind) ==
    /\ Alive
    /\ \E t \in timers :
        /\ t.kind = kind /\ t.begun /\ t.due = 0
        /\ IF mode = kind /\ paired
           THEN Switch(WholeLibrary, "all", timers \ {t})
           ELSE /\ timers' = timers \ {t}
                /\ UNCHANGED <<library, paired, source, producer, queue, display,
                               current, history, cursor, override, paused,
                               mode, play>>
    /\ UNCHANGED requests

(* _pairing_task hears a server's broadcast.  The queue is not flushed: its *)
(* items are of an older generation now.                                    *)
Pair ==
    /\ Alive
    /\ ~paired
    /\ paired' = TRUE
    /\ SetProducer(WholeLibrary)
    /\ queue' = [k \in DOMAIN queue |-> [queue[k] EXCEPT !.live = FALSE]]
    /\ UNCHANGED <<library, current, history, controlVars, requests>>

(* POST /slideshow/next: forward in the rewound history, or just skip.      *)
NextItem ==
    /\ Request
    /\ paused' = FALSE
    /\ IF cursor < Len(history)
       THEN cursor' = cursor + 1 /\ override' = history[cursor + 1]
       ELSE UNCHANGED <<cursor, override>>
    /\ UNCHANGED <<library, paired, source, producer, queue, display, current, history,
                   mode, timers, play>>

(* POST /slideshow/prev; at the start of the history it is refused (409).   *)
PrevItem ==
    /\ Request
    /\ cursor > 1
    /\ cursor' = cursor - 1
    /\ override' = history[cursor - 1]
    /\ paused' = FALSE
    /\ UNCHANGED <<library, paired, source, producer, queue, display, current, history,
                   mode, timers, play>>

(* POST /slideshow/pause. *)
TogglePause ==
    /\ Request
    /\ paused' = ~paused
    /\ UNCHANGED <<library, paired, source, producer, queue, display, current, history,
                   cursor, override, mode, timers, play>>

(* The server gains, loses or does not answer for a photo.                  *)
LibraryChanges(p) ==
    /\ Request
    /\ library' = IF p \in library THEN library \ {p} ELSE library \cup {p}
    /\ UNCHANGED <<paired, source, producer, queue, display, current, history,
                   controlVars, play>>

RevertStep ==
    \/ PlaylistTimerBegins
    \/ \E kind \in {"single", "playlist"} : Revert(kind)

ClientStep ==
    \/ \E p \in Photo : ShowItem(p)
    \/ \E ids \in Playlists, loop \in BOOLEAN : PlayPlaylist(ids, loop)
    \/ PlayAll
    \/ NextItem
    \/ PrevItem
    \/ TogglePause
    \/ \E p \in Photo : LibraryChanges(p)

(* The display starts with a configured server's whole library, or with     *)
(* what it has cached.                                                      *)
Init ==
    /\ library \in {Photo, {}}
    /\ paired \in BOOLEAN
    /\ source = IF paired THEN WholeLibrary ELSE CachedFiles
    /\ producer = [pc |-> "take", live |-> TRUE, old |-> None, item |-> None]
    /\ queue = <<>>
    /\ display = [pc |-> "top", turn |-> "again"]
    /\ current = None
    /\ history = <<>>
    /\ cursor = 0
    /\ override = None
    /\ paused = FALSE
    /\ mode = "all"
    /\ timers = {}
    /\ play = NothingPlayed
    /\ requests = 0

Next == ProduceStep \/ DisplayStep \/ RevertStep \/ Pair \/ ClientStep

Spec == Init /\ [][Next]_vars

(* The loop runs every task that is ready; a dwell, a load, a request and a *)
(* timer end.  Clients owe nothing.                                         *)
Fairness ==
    /\ WF_vars(ProduceStep)
    /\ WF_vars(DisplayStep)
    /\ WF_vars(RevertStep)

FairSpec == Spec /\ Fairness

-----------------------------------------------------------------------------
(* Properties. *)

(* The state has the types the code gives it.                               *)
SlideTypeOK ==
    /\ library \subseteq Photo
    /\ paired \in BOOLEAN
    /\ source \in Sources \cup {None}
    /\ producer \in [pc : {"take", "fetch", "load", "dead"}, live : BOOLEAN,
                     old : Sources \cup {None}, item : Photo \cup {None}]
    /\ (producer.pc = "load") = (producer.item # None)
    /\ (producer.pc = "fetch" /\ ~producer.live) = (producer.old # None)
    /\ producer.pc \in {"take", "dead"} => producer.live
    /\ producer.pc = "fetch" /\ producer.live => source # None
    /\ queue \in Seq([item : Photo, live : BOOLEAN]) /\ Len(queue) <= MaxPreload
    /\ display \in [pc : {"top", "get", "show"},
                    turn : {"fresh", "preempted", "again"}]
    /\ current \in Photo \cup {None}
    /\ history \in Seq(Photo) /\ Len(history) <= HistoryLen
    /\ cursor \in 0..HistoryLen
    /\ override \in Photo \cup {None}
    /\ paused \in BOOLEAN
    /\ mode \in {"all", "single", "playlist"}
    /\ timers \subseteq [kind : {"single", "playlist"}, begun : BOOLEAN, due : Nat]
    /\ play \in [shown : BOOLEAN, photos : Seq(Photo), ended : Nat, missed : Nat]
    /\ requests \in 0..MaxRequests

(* The cursor always names an entry of the history (slideshow.py:72-92),    *)
(* whatever the mix of prev, next, fresh photos and dropped entries.        *)
CursorInRange ==
    /\ cursor <= Len(history)
    /\ cursor = 0 <=> history = <<>>

(* Of the source that is current: shown, queued, being loaded, to come.     *)
Own == Only(queue, [item : Photo, live : {TRUE}])
InOrder ==
    play.photos
    \o [k \in 1..Len(Own) |-> Own[k].item]
    \o (IF producer.pc = "load" /\ producer.live THEN <<producer.item>> ELSE <<>>)
    \o source.rest

SubsequenceOf(s, t) ==
    \E f \in [DOMAIN s -> DOMAIN t] :
        /\ \A a, b \in DOMAIN s : a < b => f[a] < f[b]
        /\ \A a \in DOMAIN s : s[a] = t[f[a]]

(* A programmed slideshow plays its ids in order, none twice, none skipped  *)
(* but those the server does not have, through every switch, pause and      *)
(* back-navigation (routes.py:141; app.py:127-129 "once in order").         *)
PlayedInOrder ==
    OnePass =>
        /\ Len(InOrder) + play.missed = Len(source.ids)
        /\ SubsequenceOf(InOrder, source.ids)

(* After a switch no photo preloaded from the source before it comes up     *)
(* from the queue: what does is of the ids selected (slideshow.py:40-41).   *)
OnlySelectedShown ==
    [][(display.pc # "show" /\ display' = [pc |-> "show", turn |-> "fresh"]
        /\ source # None /\ source.ids # None)
         => \E k \in DOMAIN source.ids : source.ids[k] = current']_vars

(* At most one revert task runs, and it is the current mode's: none can     *)
(* take the display away from what the viewer chose after it was started    *)
(* (routes.py:166-168).                                                     *)
TimersMatchMode ==
    /\ \A t, u \in timers : t = u
    /\ \A t \in timers : t.kind = mode
    /\ mode = "single" /\ source # None /\ source.ids # None => timers # {}

(* A programmed slideshow is not left before all its photos but the last    *)
(* have had their turn (routes.py:138-153).                                 *)
PlaysAllButLast ==
    [][OnePass /\ Revert("playlist") => play.ended >= Len(source.ids) - 1]_vars

(* The server has every photo, and no empty list is looped over.            *)
SourcesYield ==
    paired /\ library = Photo /\ (source.loop => source.ids # <<>>)

(* While that is so, whatever source was chosen last comes  *)
(* to the screen, unless the viewer pauses or it has no photos.             *)
SelectionComesUp ==
    []SourcesYield => (~play.shown ~> play.shown \/ paused \/ source.ids = <<>>)

(* A photo shown by hand does not stay up forever (routes.py:102-104), and  *)
(* while sources yield a programmed slideshow that does not loop is         *)
(* followed by the whole library, unless the viewer pauses (routes.py:139-  *)
(* 146).                                                                    *)
RevertsToLibrary ==
    /\ []paired => (mode = "single" ~> mode # "single")
    /\ []SourcesYield =>
        (OnePass /\ source.ids # <<>> ~>
            mode = "all" \/ paused \/ source.loop \/ source.ids = <<>>)

(* "Play all" brings up a photo of the library, if there are any and the    *)
(* viewer neither pauses nor chooses something else.                        *)
LibraryComesUp ==
    paired /\ mode = "all" /\ ~play.shown ~>
        play.shown \/ paused \/ mode # "all" \/ library = {} \/ ~Alive

(* "Display is not in server mode; cannot switch source" (routes.py:214-220):*)
(* such a request is refused, and the display goes on.                      *)
StaysAlive == Alive

=============================================================================
