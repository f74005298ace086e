----------------------------- MODULE MCSearchRail -----------------------------
(* Values for checking SearchRail with TLC.                                  *)
EXTENDS SearchRail
=============================================================================
