---------------------------- MODULE MCDirections ----------------------------
(* Points and links for checking Directions with TLC.                        *)
EXTENDS Directions
CONSTANTS p, here
\* The page opened by a link to a route; "Clear" forgets that route.
RouteLink == {<<p, here>>}
=============================================================================
