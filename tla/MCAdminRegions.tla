--------------------------- MODULE MCAdminRegions ---------------------------
(* Faults for checking AdminRegions with TLC.                                *)
EXTENDS AdminRegions
CONSTANTS a, b
AnswersLost == {"answer_lost"}
=============================================================================
