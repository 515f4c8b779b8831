---------------------------- MODULE MCCloudDelete ----------------------------
(***************************************************************************)
(* Model checking of sync passes and a delete run against the library's    *)
(* handlers, in two scenes: passes that overlap, over a library of one     *)
(* item, and one pass at a time beside a second item, which may take the   *)
(* photo's path or its content.                                            *)
(***************************************************************************)
EXTENDS MCCloudSync

VARIABLE scene

Busy == {s \in Syncer : syncer[s].pc # "idle"}

SceneInit == CloudInit /\ scene \in {"passes", "items"}

SceneNext ==
    /\ ServerStep
    /\ UNCHANGED scene
    /\ scene = "passes" => \E i \in Id : issued'[i] = None
    /\ scene = "items" => Cardinality(Busy') <= 1

SceneSpec == SceneInit /\ [][SceneNext]_<<vars, scene>>

SceneView == <<NoRestartView, scene>>
=============================================================================
