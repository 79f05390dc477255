------------------------------ MODULE RunContract ------------------------------
(***************************************************************************)
(* What a client of the service may observe of one run through get_run:    *)
(* its status, the number of durably completed pages, whether cancellation *)
(* was requested and the class of its failure.  Processes, artifacts,      *)
(* attempts, crashes and recovery do not appear; RunLifecycle is shown to  *)
(* implement this specification.                                           *)
(***************************************************************************)
EXTENDS Naturals

CONSTANT NumPages

VARIABLES status, completedPages, cancelRequested, failure

contractVars == <<status, completedPages, cancelRequested, failure>>

Active == {"not_started", "running", "resuming"}

Init ==
    /\ status = "not_started"
    /\ completedPages = 0
    /\ cancelRequested = FALSE
    /\ failure = "none"

Start ==
    /\ status \in Active
    /\ ~cancelRequested
    /\ status' \in {"running", "resuming"}
    /\ UNCHANGED <<completedPages, cancelRequested, failure>>

(* Pages complete one at a time, in order, and never once the run is asked *)
(* to cancel.                                                              *)
CompletePage ==
    /\ status = "running"
    /\ ~cancelRequested
    /\ completedPages < NumPages
    /\ completedPages' = completedPages + 1
    /\ UNCHANGED <<status, cancelRequested, failure>>

(* A run that is not running yet fails at once, a running one is flagged.  *)
RequestCancel ==
    /\ status \in Active
    /\ cancelRequested' = TRUE
    /\ IF status = "running" THEN UNCHANGED <<status, failure>>
       ELSE status' = "failed" /\ failure' = "cancelled"
    /\ UNCHANGED completedPages

(* A flagged run fails as cancelled, unless it is found to be corrupt.     *)
Fail ==
    /\ status \in Active
    /\ status' = "failed"
    /\ failure' \in IF cancelRequested THEN {"cancelled", "integrity"}
                                       ELSE {"cancelled", "integrity", "other"}
    /\ UNCHANGED <<completedPages, cancelRequested>>

(* A failed run may be reclassified; a cancellation does not give way to a *)
(* lesser class, and a detected corruption only to a pending cancellation. *)
Reclassify ==
    /\ status = "failed"
    /\ failure' \in CASE failure = "integrity" ->
                           {"integrity"} \cup (IF cancelRequested THEN {"cancelled"} ELSE {})
                      [] failure = "cancelled" -> {"cancelled", "integrity"}
                      [] OTHER -> {"cancelled", "integrity", "other"}
    /\ UNCHANGED <<status, completedPages, cancelRequested>>

Complete ==
    /\ status = "running"
    /\ ~cancelRequested
    /\ completedPages = NumPages
    /\ status' = "completed"
    /\ UNCHANGED <<completedPages, cancelRequested, failure>>

(* The one way out of failure; it alone withdraws a cancellation.          *)
Resume ==
    /\ status = "failed"
    /\ failure # "integrity"
    /\ status' = "resuming"
    /\ cancelRequested' = FALSE
    /\ failure' = "none"
    /\ UNCHANGED completedPages

Demote ==
    /\ status = "completed"
    /\ status' = "failed"
    /\ failure' = "integrity"
    /\ UNCHANGED <<completedPages, cancelRequested>>

Next == \/ Start \/ CompletePage \/ RequestCancel \/ Fail \/ Reclassify
        \/ Complete \/ Resume \/ Demote

Spec == Init /\ [][Next]_contractVars
===============================================================================
