--------------------------- MODULE MCControlPlane ---------------------------
(* Small instances of ControlPlane for TLC. *)
EXTENDS ControlPlaneSafety, TLC

\* Sandboxes, volumes and request slots are interchangeable: no property or
\* initial state names one.  Used by the runs without liveness properties.
Symmetry ==
  Permutations(Sandbox) \cup Permutations(Volume) \cup Permutations(Request)
=============================================================================
