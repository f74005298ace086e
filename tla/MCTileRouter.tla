---------------------------- MODULE MCTileRouter ----------------------------
(* Regions, tiles and faults for checking TileRouter with TLC.             *)
EXTENDS TileRouter, TLC

CONSTANTS r1, r2, low, high

\* Two neighbours: the low tile shows both, the high tile lies in both boxes.
BothCover == [r \in {r1, r2} |-> {low, high}]
AllFaults == ReadFaultKinds
NoFaults  == {}
=============================================================================
