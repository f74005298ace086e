---------------------------- MODULE RegionFiles ----------------------------
(***************************************************************************)
(* What the processes that read regions can see of the pipeline: the state *)
(* in the regions table and the release of the map.pmtiles that is found   *)
(* under <data>/regions/<region>.  RegionPipeline implements this for      *)
(* regions that are worked on by one request at a time; TileRouter reads   *)
(* it.                                                                     *)
(***************************************************************************)
EXTENDS Naturals

CONSTANTS
    Regions,    \* canonical region keys
    MaxVersion  \* bound: releases of an extract

ASSUME VersionAssumption == MaxVersion \in Nat

VARIABLES
    state,  \* regions.state; "working" stands for every state of a chain
    file    \* the release of the tiles under <region>, 0 when there are none

files == <<state, file>>

FileStates == {"absent", "working", "ready", "failed", "archived"}

FilesTypeOK ==
    /\ state \in [Regions -> FileStates]
    /\ file \in [Regions -> 0..MaxVersion]

FilesInit ==
    /\ state = [r \in Regions |-> "absent"]
    /\ file = [r \in Regions |-> 0]

Becomes(r, s) == state' = [state EXCEPT ![r] = s] /\ UNCHANGED file
Holds(r, v)   == file' = [file EXCEPT ![r] = v] /\ UNCHANGED state

\* An install or an update, or the retry of a stage that had failed.
Begin(r) == state[r] # "working" /\ Becomes(r, "working")

\* The swap moves the old directory away and the new one in.
Withdraw(r) == state[r] = "working" /\ file[r] # 0 /\ Holds(r, 0)
Place(r)    == /\ state[r] = "working" /\ file[r] = 0
               /\ \E v \in 1..MaxVersion : Holds(r, v)

\* A region is called ready only when its tiles are there.
Finish(r) == state[r] = "working" /\ file[r] # 0 /\ Becomes(r, "ready")

\* A request, a stage or a deletion fails: also a scheduled update that could
\* not even mark the region.  (A swap first moves the old directory back,
\* which is Place.)
Fail(r)    == state[r] \notin {"absent", "failed"} /\ Becomes(r, "failed")

\* A deletion, whose first attempt may have failed.
Archive(r) == state[r] # "absent" /\ Becomes(r, "archived")
Remove(r)  == state[r] \in {"archived", "failed"} /\ file[r] # 0 /\ Holds(r, 0)

FilesStep(r) ==
    \/ Begin(r) \/ Withdraw(r) \/ Place(r) \/ Finish(r)
    \/ Fail(r) \/ Archive(r) \/ Remove(r)

FilesNext == \E r \in Regions : FilesStep(r)
FilesSpec == FilesInit /\ [][FilesNext]_files
=============================================================================
