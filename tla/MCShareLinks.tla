---------------------------- MODULE MCShareLinks ----------------------------
(* Values for checking ShareLinks with TLC.                                  *)
EXTENDS ShareLinks
=============================================================================
