---------------------------- MODULE ProgressHUD ----------------------------
(***************************************************************************)
(* JGProgressHUD, the spinner of the user search: showing and hiding are   *)
(* animated, and what is asked of it during an animation is ignored (show) *)
(* or kept for its end (dismiss).                                          *)
(***************************************************************************)

HudStates == [state : {"hidden", "showing", "shown", "hiding"}, later : BOOLEAN]

Hidden == [state |-> "hidden", later |-> FALSE]

\* showInView: ignored in an animation and when it is there already
HudShow(h) == IF h.state = "hidden" THEN [h EXCEPT !.state = "showing"] ELSE h

\* dismiss
HudDismiss(h) ==
    CASE h.state \in {"showing", "hiding"} -> [h EXCEPT !.later = TRUE]
      [] h.state = "shown" -> [h EXCEPT !.state = "hiding"]
      [] h.state = "hidden" -> h

\* The end of an animation: cleanUpAfterPresentation, cleanUpAfterDismissal
HudAnimated(h) ==
    CASE h.state = "showing" /\ h.later -> [state |-> "hiding", later |-> FALSE]
      [] h.state = "showing" /\ ~h.later -> [h EXCEPT !.state = "shown"]
      [] h.state = "hiding" -> Hidden
=============================================================================
