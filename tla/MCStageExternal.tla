--------------------------- MODULE MCStageExternal ---------------------------
(***************************************************************************)
(* The instance of StageExternal.  Two repositories and up to three        *)
(* entries are enough for a run that needs less, as much or more than the  *)
(* run that staged before it.                                              *)
(***************************************************************************)
EXTENDS StageExternal, TLC

CONSTANTS r1, r2, p1, p2, a, b, c

(* r2 needs all r1 needs of p1 and more; r1 goes on to a second repository.  *)
NeedNested ==
  (r1 :> (p1 :> {a} @@ p2 :> {a}) @@ r2 :> (p1 :> {a, b, c} @@ p2 :> {}))

(* The manifests the runs are given satisfy the hypothesis of the theorem.   *)
ASSUME NeedIsNested == NestedNeeds
=============================================================================
