----------------------------- MODULE DashControl ----------------------------
(***************************************************************************)
(* Controlling the frames from the dashboard: the script's status poll,    *)
(* display list and control buttons (api/web.py, "Now playing" and         *)
(* runControl), and the server's proxy to the frames (api/routes.py,       *)
(* /control/...), which reads the selected frame before it waits for it.   *)
(*                                                                         *)
(* One callback of the script, or one stretch of a handler between awaits, *)
(* is one action.  Answers come in any order; a request may be lost.       *)
(*                                                                         *)
(* Abstractions.  What a frame shows is an item of a small set.  Two       *)
(* buttons stand for all: "pause", whose label the poll writes too, and    *)
(* "play", for those that make the frame show something (next, previous,   *)
(* show, a slideshow, a search, everything).  What the frame makes of them *)
(* is the subject of module Slideshow.                                     *)
(***************************************************************************)
EXTENDS Naturals, FiniteSets, SequencesExt, TLC

CONSTANTS
    Frame,      \* the configured displays, possibly none
    NoFrame,
    Picture,
    NoPicture,
    MaxPolls,   \* bound: status requests in flight (polled every 5 s)
    MaxTurns,   \* bound: presses, selections and changes of a frame
    MaxLosses   \* bound: requests lost

VARIABLES
    frames,     \* [Frame -> [up, paused, picture]]
    chosen,     \* _selected["name"], NoFrame without displays
    status,     \* the page: [thumb, last, label, off, listed]
    calls,      \* requests in flight
    turns, losses

controlVars == <<frames, chosen, status, calls, turns, losses>>

Buttons == {"pause", "play"}
Turning == turns < MaxTurns /\ turns' = turns + 1

-----------------------------------------------------------------------------
(* The page sends. *)

(* refreshStatus, every five seconds and after every control. *)
Polled(net) ==
    IF Len(SelectSeq(net, LAMBDA c : c.kind = "status")) < MaxPolls
    THEN Append(net, [kind |-> "status", at |-> "sent"]) ELSE net

Poll ==
    /\ calls' = Polled(calls)
    /\ UNCHANGED <<frames, chosen, status, turns, losses>>

(* runControl: the button is disabled and says "..." until the end, when    *)
(* the label it had is put back.                                            *)
RunControl(button) ==
    /\ Turning
    /\ button \notin status.off
    /\ calls' = Append(calls, [kind |-> button, at |-> "sent",
                               was |-> IF button = "pause" THEN status.label ELSE ""])
    /\ status' = [status EXCEPT !.off = @ \cup {button},
                                !.label = IF button = "pause" THEN "..." ELSE @]
    /\ UNCHANGED <<frames, chosen, losses>>

(* The display list's change event; it is filled by the first answer. *)
SelectFrame(d) ==
    /\ Turning
    /\ status.listed
    /\ calls' = Append(calls, [kind |-> "select", at |-> "sent", name |-> d])
    /\ UNCHANGED <<frames, chosen, status, losses>>

-----------------------------------------------------------------------------
(* The server. *)

(* The handler runs up to its call of the frame: the roster and the target  *)
(* are the frame selected now; select is done at once.                      *)
Take(k) ==
    LET c == calls[k]
    IN  /\ c.at = "sent"
        /\ chosen' = IF c.kind = "select" THEN c.name ELSE chosen
        /\ calls' = [calls EXCEPT ![k] =
              CASE c.kind = "select" -> [c EXCEPT !.at = "done"]
                [] c.kind # "select" /\ chosen = NoFrame -> [c EXCEPT !.at = "unset"]
                [] OTHER -> [c EXCEPT !.at = "asked"] @@ [target |-> chosen]]
        /\ UNCHANGED <<frames, status, turns, losses>>

(* What the asked frame becomes. *)
Played(f, kind) ==
    CASE f.up /\ kind = "pause" -> {[f EXCEPT !.paused = ~@]}
      [] f.up /\ kind = "play" -> {[f EXCEPT !.picture = p] : p \in Picture}
      [] OTHER -> {f}

(* The target answers, or cannot be reached: status then says only that.    *)
Forward(k) ==
    LET c == calls[k]
        f == frames[c.target]
    IN  /\ c.at = "asked"
        /\ calls' = [calls EXCEPT ![k] =
              IF c.kind = "status"
              THEN [c EXCEPT !.at = "done"] @@
                   [paused |-> f.up /\ f.paused,
                    picture |-> IF f.up THEN f.picture ELSE NoPicture]
              ELSE [c EXCEPT !.at = IF f.up THEN "done" ELSE "failed"]]
        /\ \E g \in Played(f, c.kind) : frames' = [frames EXCEPT ![c.target] = g]
        /\ UNCHANGED <<chosen, status, turns, losses>>

(* On its own a frame goes away, comes back, or turns to another picture.   *)
FrameChanges(d) ==
    /\ Turning
    /\ \/ frames' = [frames EXCEPT ![d].up = ~@]
       \/ /\ frames[d].up
          /\ \E p \in Picture : frames' = [frames EXCEPT ![d].picture = p]
    /\ UNCHANGED <<chosen, status, calls, losses>>

(* The page never learns what became of a request. *)
LoseCall(k) ==
    /\ losses < MaxLosses
    /\ calls[k].at # "lost"
    /\ losses' = losses + 1
    /\ calls' = [calls EXCEPT ![k].at = "lost"]
    /\ UNCHANGED <<frames, chosen, status, turns>>

-----------------------------------------------------------------------------
(* The page hears. *)

(* A slip of SetNowThumb: "nothing" does not forget what was drawn last.    *)
SetNowThumbForgetful(page, picture) ==
    IF picture = page.last THEN page
    ELSE [page EXCEPT !.thumb = picture,
                      !.last = IF picture = NoPicture THEN @ ELSE picture]

(* setNowThumb draws only what differs from what it drew last. *)
SetNowThumb(page, picture) ==
    IF picture = page.last THEN page
    ELSE [page EXCEPT !.last = picture, !.thumb = picture]

(* refreshStatus' answer; unreachable and unconfigured look alike here.     *)
StatusArrives(k) ==
    LET c == calls[k]
        told == c.at = "done"
    IN  /\ c.kind = "status"
        /\ c.at \in {"done", "unset", "lost"}
        /\ status' =
              IF told
              THEN [SetNowThumb(status, c.picture) EXCEPT
                       !.off = {}, !.listed = Cardinality(Frame) > 1,
                       !.label = IF c.paused THEN "Resume" ELSE "Pause"]
              ELSE [SetNowThumb(status, NoPicture) EXCEPT !.off = Buttons]
        /\ calls' = RemoveAt(calls, k)
        /\ UNCHANGED <<frames, chosen, turns, losses>>

(* runControl's last callback, whatever came back. *)
ControlArrives(k) ==
    LET c == calls[k]
    IN  /\ c.kind \in Buttons
        /\ c.at \in {"done", "unset", "failed", "lost"}
        /\ status' = [status EXCEPT !.off = @ \ {c.kind},
                         !.label = IF c.kind = "pause" THEN c.was ELSE @]
        /\ calls' = Polled(RemoveAt(calls, k))
        /\ UNCHANGED <<frames, chosen, turns, losses>>

SelectArrives(k) ==
    /\ calls[k].kind = "select"
    /\ calls[k].at \in {"done", "lost"}
    /\ calls' = Polled(RemoveAt(calls, k))
    /\ UNCHANGED <<frames, chosen, status, turns, losses>>

-----------------------------------------------------------------------------
ControlInit ==
    /\ frames = [d \in Frame |-> [up |-> TRUE, paused |-> FALSE, picture |-> NoPicture]]
    /\ chosen = IF Frame = {} THEN NoFrame ELSE CHOOSE d \in Frame : TRUE
    /\ status = [thumb |-> NoPicture, last |-> NoPicture, label |-> "Pause",
                 off |-> {}, listed |-> FALSE]
    /\ calls = <<>>
    /\ turns = 0
    /\ losses = 0

Moves(k) ==
    Take(k) \/ Forward(k) \/ StatusArrives(k) \/ ControlArrives(k) \/ SelectArrives(k)

ControlNext ==
    \/ Poll
    \/ \E b \in Buttons : RunControl(b)
    \/ \E d \in Frame : SelectFrame(d) \/ FrameChanges(d)
    \/ \E k \in DOMAIN calls : Moves(k) \/ LoseCall(k)

(* Fairness, for a page that is open: it polls for ever (weakly fair Poll), *)
(* and every request sent ends, the oldest at last (weakly fair Oldest).    *)
Oldest == calls # <<>> /\ Moves(1)

-----------------------------------------------------------------------------
(* What the page says of the selected frame. *)
StatusTrue ==
    IF chosen = NoFrame THEN status.off = Buttons /\ status.thumb = NoPicture
    ELSE LET f == frames[chosen]
         IN  /\ status.off = {}
             /\ status.thumb = IF f.up THEN f.picture ELSE NoPicture
             /\ status.label = IF f.up /\ f.paused THEN "Resume" ELSE "Pause"

(* However answers overtake one another and whatever was lost, once the     *)
(* frames are left alone the page comes to show the picture, the pause      *)
(* button and the state of the frame selected (refreshStatus, setNowThumb,  *)
(* runControl: web.py:2920-2992, 3219-3262).                                *)
StatusComesTrue == <>[]StatusTrue
=============================================================================
