--------------------------- MODULE RenderContract ---------------------------
(***************************************************************************)
(* What the rest of the system may assume of a run's rendered pages: the   *)
(* bundle of page images and manifest is absent, or it is loose (on disk,  *)
(* but not named by the journal) and may be discarded, or it is bound to   *)
(* the journal.  A bound bundle is whole and never changes again.          *)
(***************************************************************************)
EXTENDS Naturals

CONSTANT NumPages

VARIABLE bundle

Absent == [place |-> "absent", pages |-> 0]
Loose == [place |-> "loose", pages |-> 0]
Bound == [place |-> "bound", pages |-> NumPages]

Init == bundle = Absent

(* render_preserved publishes its staging. *)
Produce == bundle = Absent /\ bundle' = Loose

(* Recovery quarantines what the journal does not name; a power loss may   *)
(* take back what was not yet synchronized.                                *)
Discard == bundle = Loose /\ bundle' = Absent

(* set_render_manifest names the bundle in the journal. *)
Bind == bundle = Loose /\ bundle' = Bound

Next == Produce \/ Discard \/ Bind

Spec == Init /\ [][Next]_bundle
=============================================================================
