--------------------------- MODULE MCAdminSettings ---------------------------
(* Values for checking AdminSettings with TLC.                               *)
EXTENDS AdminSettings
=============================================================================
