------------------------------ MODULE MCRestarts ------------------------------
(***************************************************************************)
(* Model checking of what failed saves and restarts leave, in two scenes:  *)
(* the library's handlers by themselves, on two items that may share a     *)
(* path; and a sync pass and two delete runs by themselves, over two       *)
(* photos of one content and name.                                         *)
(***************************************************************************)
EXTENDS MCCloudSync

VARIABLE scene

OneContent == [p \in Photo |-> d1]

RestartsInit == CloudInit /\ scene \in {"library", "cloud"}

(* No cloud account is set up.  One path is like another and so is one      *)
(* content: the first upload takes p1 and d1.                               *)
LibraryNext ==
    /\ \/ \E i \in Id, d \in Digest : TransformMedia(i, d)
       \/ LibraryStep
       \/ RestartServer
    /\ (\A i \in Id : issued[i] = None) =>
          (\A i \in Id : issued'[i] \in {None, p1}) /\ \A d \in Digest \ {d1} : digests'[d] = 0

(* The restarts are those after a photo has left the cloud that lose        *)
(* something unsaved and leave an id for ingesting it again.                *)
CloudAlone ==
    \/ \E s \in Syncer : SyncList(s) \/ SyncStep(s)
    \/ \E c \in Cleaner : CleanStart(c) \/ CleanStep(c)
    \/ (\E i \in Id : issued[i] = None) /\ items # index /\ remote # Photo /\ RestartServer

RestartsNext ==
    /\ UNCHANGED scene
    /\ \/ scene = "library" /\ LibraryNext
       \/ scene = "cloud" /\ CloudAlone

RestartsSpec == RestartsInit /\ [][RestartsNext]_<<vars, scene>>
=============================================================================
