------------------------------ MODULE MCUpdater ------------------------------
(***************************************************************************)
(* Unattended updates by themselves: the second commit does not come up.   *)
(***************************************************************************)
EXTENDS Updater

MCNeeds == [k \in 1 .. Tip |-> 1]
=============================================================================
