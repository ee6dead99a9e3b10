----------------------------- MODULE MCStation -----------------------------
(***************************************************************************)
(* A model-checking instance of Station for a statement of the             *)
(* repository's documentation that the code does not keep.                 *)
(***************************************************************************)
EXTENDS Station

(***************************************************************************)
(* README.md:71, "restore: time of wait to begin measure": the wait before *)
(* the first measurement ends, and main goes on to connect.                *)
(***************************************************************************)
RestoreWaitEnds == pc = "restore" ~> pc # "restore"

=============================================================================
