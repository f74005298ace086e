---------------------------- MODULE ServedRegion ----------------------------
(***************************************************************************)
(* What the pipeline promises to a reader of <data>/regions/<region>: the  *)
(* region is absent, or a complete build of one published release; a new   *)
(* release replaces the old one in one step, never by an older one; and    *)
(* a region disappears only because it is removed, or lost in the swap.    *)
(***************************************************************************)
EXTENDS Naturals

CONSTANTS Regions, MaxVersion

VARIABLES
    served,   \* the release a reader finds, 0 when there is none
    upstream  \* the newest release on the mirror

Init ==
    /\ served = [r \in Regions |-> 0]
    /\ upstream = [r \in Regions |-> 1]

Publish(r) ==
    /\ upstream[r] < MaxVersion
    /\ upstream' = [upstream EXCEPT ![r] = @ + 1]
    /\ UNCHANGED served

Replace(r) ==
    /\ \E v \in served[r]..upstream[r] : v # 0 /\ served' = [served EXCEPT ![r] = v]
    /\ UNCHANGED upstream

\* A deletion takes one region away.  A worker that dies takes away every
\* region whose old directory one of its goroutines had in its hands.
Remove(gone) ==
    /\ served' = [r \in Regions |-> IF r \in gone THEN 0 ELSE served[r]]
    /\ UNCHANGED upstream

Next ==
    \/ \E r \in Regions : Publish(r) \/ Replace(r)
    \/ \E gone \in SUBSET Regions : Remove(gone)

Spec == Init /\ [][Next]_<<served, upstream>>
=============================================================================
