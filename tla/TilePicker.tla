----------------------------- MODULE TilePicker -----------------------------
(***************************************************************************)
(* Which region serves a tile: pick.Pick (tile-router/internal/pick).  It  *)
(* walks through the regions up to three times: those whose country        *)
(* polygon contains the centre of the tile, those without a polygon whose  *)
(* box contains it, those whose box overlaps the tile.  The regions come   *)
(* from a Go map, so each walk meets them in an order of its own making.   *)
(*                                                                         *)
(* Coordinates are integers here, even for the tile, so that its centre is *)
(* one too; Eps is the code's epsArea in the unit of the areas.            *)
(***************************************************************************)
EXTENDS Integers

CONSTANTS
    Regions,  \* the loaded regions
    NoRegion, \* no region has been found
    Boxes,    \* the boxes a region may have
    Tile,     \* the box of the tile
    Eps       \* overlaps that differ by less count as equal

Box == [minLon: Int, minLat: Int, maxLon: Int, maxLat: Int]

ASSUME PickerAssumption ==
    /\ NoRegion \notin Regions
    /\ Boxes \subseteq Box
    /\ Tile \in Box
    /\ Eps \in Nat

VARIABLES
    box,     \* Region.BBox
    outline, \* Region.Polygon: none, or one that contains the centre or does not
    tier,    \* the walk that is under way
    rest,    \* the regions it has not met yet
    best,    \* polyBest, bboxBest, overlapBest
    overlap, \* bestOverlap
    done

pvars == <<box, outline, tier, rest, best, overlap, done>>

Outlines == {"none", "contains", "elsewhere"}

PickerTypeOK ==
    /\ box \in [Regions -> Boxes]
    /\ outline \in [Regions -> Outlines]
    /\ tier \in 1..3
    /\ rest \subseteq Regions
    /\ best \in Regions \cup {NoRegion}
    /\ overlap \in Int
    /\ done \in BOOLEAN

PickerInit ==
    /\ box \in [Regions -> Boxes]
    /\ outline \in [Regions -> Outlines]
    /\ tier = 1
    /\ rest = Regions
    /\ best = NoRegion
    /\ overlap = 0
    /\ done = FALSE

-----------------------------------------------------------------------------
CentreLon == (Tile.minLon + Tile.maxLon) \div 2
CentreLat == (Tile.minLat + Tile.maxLat) \div 2

IsValid(b) == b.maxLon > b.minLon /\ b.maxLat > b.minLat
Area(b)    == (b.maxLon - b.minLon) * (b.maxLat - b.minLat)
InBBox(b)  == /\ b.minLon <= CentreLon /\ CentreLon <= b.maxLon
              /\ b.minLat <= CentreLat /\ CentreLat <= b.maxLat

Larger(a, b)  == IF a >= b THEN a ELSE b
Smaller(a, b) == IF a <= b THEN a ELSE b
Overlap(a, b) == [minLon |-> Larger(a.minLon, b.minLon),
                  minLat |-> Larger(a.minLat, b.minLat),
                  maxLon |-> Smaller(a.maxLon, b.maxLon),
                  maxLat |-> Smaller(a.maxLat, b.maxLat)]
Common(r) == Overlap(box[r], Tile)

\* Mutant: the boxes of regions whose polygon lies elsewhere count as well.
Candidate_AnyPolygon(k, r) ==
    /\ IsValid(box[r])
    /\ \/ k = 1 /\ outline[r] = "contains" /\ InBBox(box[r])
       \/ k = 2 /\ InBBox(box[r])
       \/ k = 3 /\ IsValid(Common(r))

\* What a walk takes into account at all.
Candidate(k, r) ==
    /\ IsValid(box[r])
    /\ \/ k = 1 /\ outline[r] = "contains" /\ InBBox(box[r])
       \/ k = 2 /\ outline[r] = "none" /\ InBBox(box[r])
       \/ k = 3 /\ IsValid(Common(r))

\* Mutant: on a tie the larger region wins.
Better_LargerArea(r) ==
    \/ best = NoRegion
    \/ IF tier < 3 THEN Area(box[r]) > Area(box[best])
       ELSE \/ Area(Common(r)) > overlap + Eps
            \/ /\ Area(Common(r)) - overlap < Eps /\ overlap - Area(Common(r)) < Eps
               /\ Area(box[r]) > Area(box[best])

\* The smaller box wins; among overlapping ones the larger overlap does first.
Better(r) ==
    \/ best = NoRegion
    \/ IF tier < 3 THEN Area(box[r]) < Area(box[best])
       ELSE \/ Area(Common(r)) > overlap + Eps
            \/ /\ Area(Common(r)) - overlap < Eps /\ overlap - Area(Common(r)) < Eps
               /\ Area(box[r]) < Area(box[best])

-----------------------------------------------------------------------------
\* The body of a loop.
Look(r) ==
    /\ ~done /\ r \in rest
    /\ rest' = rest \ {r}
    /\ IF Candidate(tier, r) /\ Better(r)
       THEN best' = r /\ overlap' = (IF tier = 3 THEN Area(Common(r)) ELSE overlap)
       ELSE UNCHANGED <<best, overlap>>
    /\ UNCHANGED <<box, outline, tier, done>>

\* Mutant: there is a walk after the last one.
NextWalk_OneTooMany ==
    /\ ~done /\ rest = {} /\ best = NoRegion
    /\ tier' = tier + 1
    /\ rest' = Regions
    /\ UNCHANGED <<box, outline, best, overlap, done>>

\* Nothing found: the next walk.
NextWalk ==
    /\ ~done /\ rest = {} /\ best = NoRegion /\ tier < 3
    /\ tier' = tier + 1
    /\ rest' = Regions
    /\ UNCHANGED <<box, outline, best, overlap, done>>

Return ==
    /\ ~done /\ rest = {} /\ (best # NoRegion \/ tier = 3)
    /\ done' = TRUE
    /\ UNCHANGED <<box, outline, tier, rest, best, overlap>>

Returned == done /\ UNCHANGED pvars

PickerNext == (\E r \in Regions : Look(r)) \/ NextWalk \/ Return \/ Returned

PickerSpec == PickerInit /\ [][PickerNext]_pvars

-----------------------------------------------------------------------------
(* Properties.                                                             *)

Usable   == {r \in Regions : IsValid(box[r])}
Holding  == {r \in Usable : outline[r] = "contains" /\ InBBox(box[r])}
Around   == {r \in Usable : outline[r] = "none" /\ InBBox(box[r])}
Reaching == {r \in Usable : IsValid(Common(r))}
SmallestOf(S) == {r \in S : \A s \in S : Area(box[r]) <= Area(box[s])}

\* In whatever order the map hands out the regions, the tile gets the smallest
\* region whose polygon contains its centre; without one, the smallest region
\* that has no polygon and a box around the centre; and never a region that
\* does not reach into the tile, but some region if one does.
PickIsRight ==
    done => IF Holding # {} THEN best \in SmallestOf(Holding)
            ELSE IF Around # {} THEN best \in SmallestOf(Around)
            ELSE IF Reaching # {} THEN best \in Reaching
            ELSE best = NoRegion

\* In the last walk the largest overlap wins, and the smallest region among
\* those that overlap the tile equally.
LargestOverlapWins ==
    done /\ tier = 3 /\ best # NoRegion =>
        best \in SmallestOf({r \in Reaching :
                     \A s \in Reaching : Area(Common(s)) <= Area(Common(r))})
=============================================================================
