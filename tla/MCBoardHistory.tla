--------------------------- MODULE MCBoardHistory ---------------------------
(* Small boards for TLC: see the .cfg files for the sizes. *)
EXTENDS BoardHistory
=============================================================================
