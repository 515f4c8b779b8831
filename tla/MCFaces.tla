------------------------------- MODULE MCFaces -------------------------------
(***************************************************************************)
(* Model checking of Faces: two photos, of which the first shows two faces  *)
(* unlike each other and the second one that is alike to both, so that the  *)
(* order the faces come in decides the online groups and recluster joins    *)
(* all three.                                                               *)
(***************************************************************************)
EXTENDS Faces, TLC

CONSTANTS i1, i2, l1, l2, l3, n1, n2

MCLook  == {l1, l2, l3}
MCAlike == {<<l, l>> : l \in MCLook} \cup {<<l1, l3>>, <<l3, l1>>, <<l2, l3>>, <<l3, l2>>}
MCShows == (i1 :> {l1, l2}) @@ (i2 :> {l3})
MCName  == {n1}
MCNear  == {<<n, n>> : n \in MCName}

(* The two faces of the first photo are alike to the same one; no choice of *)
(* the model depends on how a face looks otherwise.                         *)
Symmetry == Permutations({l1, l2})
=============================================================================
