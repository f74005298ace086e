-------------------------- MODULE MCRegionPipeline --------------------------
(* Fault sets and bounds for checking RegionPipeline with TLC.             *)
EXTENDS RegionPipeline, TLC

\* What can go wrong with the tools, the writes and the requests.
SoftFaults == FaultKinds \ {"remove_error"}
\* Failures that are reported where they happen.
ToolFaults == {"work_error", "rename_error", "remove_error"}
NoFaults   == {}

NoCrash   == {}
SwapCrash == {"swap", "combined"}
AnyCrash  == TaskKinds

Symmetry == Permutations(Slots) \cup Permutations(Clients)
=============================================================================
