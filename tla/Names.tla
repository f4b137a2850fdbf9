------------------------------- MODULE Names --------------------------------
(***************************************************************************)
(* The identifiers msb-manager and msb exchange.  Names that fail            *)
(* validation never get past the handlers, so only well-formed ones appear. *)
(***************************************************************************)

CONSTANTS
  Sandbox,   \* sandbox names
  Volume,    \* names of microsandbox volumes
  Nobody     \* no sandbox: the holder of an unclaimed volume

ASSUME NobodyAssumption == Nobody \notin Sandbox
=============================================================================
