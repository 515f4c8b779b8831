---------------------------- MODULE MCCloudSync -----------------------------
(***************************************************************************)
(* Model checking of CloudSync.                                            *)
(***************************************************************************)
EXTENDS CloudSync, TLC

CONSTANTS ph1, d1, p1

(* Photo ph1 has content d1; all photos bear one file name, so they share   *)
(* the staging and the media path.                                          *)
ContentDef ==
    [p \in Photo |-> IF p = ph1 THEN d1 ELSE CHOOSE d \in Digest : d # d1]
FileOfDef == [p \in Photo |-> p1]

(* Without restarts nothing reads the two saved files, and no guard reads   *)
(* MediaStore's history variables: states that differ only there have the   *)
(* same successors up to them.                                              *)
NoRestartView ==
    <<items, digests, media, trash, issued, remote, staging, records, intents,
      syncer, cleaner, calls, exposed, lost, raced>>

RestartView == <<NoRestartView, index, state>>

(* The server while it runs.                                                *)
UpSpec == CloudInit /\ [][ServerStep]_vars

Symmetry == Permutations(Id) \cup Permutations(Syncer) \cup Permutations(Cleaner)
=============================================================================
