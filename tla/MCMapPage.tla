------------------------------ MODULE MCMapPage ------------------------------
(* Regions in order for checking MapPage with TLC.                           *)
EXTENDS MapPage
CONSTANT ra
OneRegion == <<ra>>
\* The bare address, and a link to a region with a viewport in its hash.
TwoLinks  == {<<NoRegion, FALSE>>, <<ra, TRUE>>}
=============================================================================
