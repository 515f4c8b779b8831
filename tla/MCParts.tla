------------------------------- MODULE MCParts -------------------------------
(***************************************************************************)
(* Ten small parts of the system: the four parts of the dashboard's        *)
(* script, programmed slideshows, the staging of uploads, the thumbnail    *)
(* cache, a frame's photo cache, unattended updates and the setup          *)
(* programs.  They do not share state, so one of them is watched at a time.*)
(***************************************************************************)
EXTENDS DashGrid, DashCard, DashUpload, DashControl, Playlists, Thumbs, Staging, FrameCache,
        Updater, Provision
CONSTANTS m1, m2, m3, any, sunny, den, hall, trip, xmas, f1, f2, f3, f4, f5, f6, b1, b2
VARIABLE part
pageVars == <<gridVars, cardVars, uploadVars, controlVars>>
fileVars == <<thumbVars, stageVars, cacheVars>>
hostVars == <<playlistVars, updaterVars, setupVars>>
vars == <<pageVars, fileVars, hostVars, part>>

MCOrder == <<m1, m2, m3>>
MCMatches == [k \in {any, sunny} |-> IF k = sunny THEN {m2, m3} ELSE {m1, m2, m3}]
MCBody == [k \in {f3, f4, f5, f6} |->
              CASE k = f3 -> <<b1, b2>> [] k = f4 -> <<>> [] k = f5 -> <<b1, b1, b2>> [] k = f6 -> <<b1, b2>>]
MCBunch == {<<f1>>, <<f2, f1>>}
MCBytes == [f \in {f1, f2, f3, f4} |-> CASE f \in {f1, f2} -> 1 [] f = f3 -> 2 [] f = f4 -> 4]
MCNeeds == [k \in 1 .. 4 |-> IF k < 3 THEN 1 ELSE 2]

Init ==
    /\ part \in {"grid", "card", "upload", "control", "playlists", "thumbs", "staging",
                 "cache", "updates", "setup"}
    /\ GridInit /\ CardInit /\ UploadInit /\ ControlInit
    /\ ThumbInit /\ StageInit
    /\ CacheInit
    /\ part # "cache" => flash = <<>>
    /\ PlaylistInit
    /\ part # "playlists" => Names = {}
    /\ UpdaterInit
    /\ SetupInit
    /\ part # "setup" => role = "server" /\ tools = {}

Next ==
    /\ UNCHANGED part
    /\ \/ /\ UNCHANGED <<fileVars, hostVars>>
          /\ \/ part = "grid" /\ GridNext /\ UNCHANGED <<cardVars, uploadVars, controlVars>>
             \/ part = "card" /\ CardNext /\ UNCHANGED <<gridVars, uploadVars, controlVars>>
             \/ part = "upload" /\ UploadNext /\ UNCHANGED <<gridVars, cardVars, controlVars>>
             \/ part = "control" /\ ControlNext /\ UNCHANGED <<gridVars, cardVars, uploadVars>>
       \/ /\ UNCHANGED <<pageVars, hostVars>>
          /\ \/ part = "thumbs" /\ ThumbNext /\ UNCHANGED <<stageVars, cacheVars>>
             \/ part = "staging" /\ StageNext /\ UNCHANGED <<thumbVars, cacheVars>>
             \/ part = "cache" /\ CacheNext /\ UNCHANGED <<thumbVars, stageVars>>
       \/ /\ UNCHANGED <<pageVars, fileVars>>
          /\ \/ part = "playlists" /\ PlaylistNext /\ UNCHANGED <<updaterVars, setupVars>>
             \/ part = "updates" /\ UpdaterNext /\ UNCHANGED <<playlistVars, setupVars>>
             \/ part = "setup" /\ SetupNext /\ UNCHANGED <<playlistVars, updaterVars>>

PartsSpec ==
    /\ Init /\ [][Next]_vars
    /\ UploadFairness
    /\ WF_controlVars(part = "control" /\ Poll)
    /\ WF_controlVars(part = "control" /\ Oldest)
    /\ ThumbFairness
=============================================================================
