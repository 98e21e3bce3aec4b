--------------------------- MODULE PublishedFile ----------------------------
(***************************************************************************)
(* What a reader may rely on, with no queue, worker or lock in sight: a    *)
(* file as it is now (a version under a name), what its tags were last     *)
(* decided from, and whether its levels apply to anyone but its owner.     *)
(* Any change hides it; it is shown again only once its tags are decided   *)
(* from the file as it is.                                                 *)
(***************************************************************************)
CONSTANT Unknown    \* what tags that were not decided yet, or half, are from

VARIABLES current, decided, shown

vars == <<current, decided, shown>>

Init == current = Unknown /\ decided = Unknown /\ shown = FALSE

\* The source, or a person, changes the file.
Change ==
    /\ current' /= current
    /\ shown' = FALSE
    /\ UNCHANGED decided

\* Tags are decided anew, or are half way there; while the file is shown they
\* never stop being those of the file as it is.
Decide ==
    /\ decided' \in {current, Unknown}
    /\ shown => decided' = current
    /\ UNCHANGED <<current, shown>>

Publish ==
    /\ ~shown
    /\ decided = current
    /\ shown' = TRUE
    /\ UNCHANGED <<current, decided>>

Next == Change \/ Decide \/ Publish

Spec == Init /\ [][Next]_vars
=============================================================================
