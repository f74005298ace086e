-------------------------- MODULE TilePicker_proofs --------------------------
(***************************************************************************)
(* The picker's answer does not depend on the order in which it meets the  *)
(* regions: PickIsRight for any set of regions, finite or not, any boxes   *)
(* and any tile; and LargestOverlapWins for the other picker, when the     *)
(* tolerance tells all overlaps apart that differ.                         *)
(***************************************************************************)
EXTENDS TilePicker, TLAPS

Seen == Regions \ rest

\* What the walks so far have established: no earlier walk had a candidate,
\* and best is the smallest candidate met in this one, if there was any.
WalkInv ==
    /\ tier > 1 => Holding = {}
    /\ tier > 2 => Around = {}
    /\ best = NoRegion => \A r \in Seen : ~Candidate(tier, r)
    /\ best # NoRegion =>
          /\ best \in Seen /\ Candidate(tier, best)
          /\ tier < 3 => \A r \in Seen : Candidate(tier, r) => Area(box[best]) <= Area(box[r])
    /\ done => rest = {} /\ (best # NoRegion \/ tier = 3)

PInv == PickerTypeOK /\ WalkInv

\* Areas are integers, which is all that is used of them.
LEMMA AreaInt ==
    ASSUME NEW b \in Box
    PROVE  Area(b) \in Int
BY DEF Box, Area

\* So are overlaps.
LEMMA OverlapBox ==
    ASSUME NEW a \in Box, NEW b \in Box
    PROVE  Overlap(a, b) \in Box
BY DEF Box, Overlap, Larger, Smaller

\* Each walk's candidates are what PickIsRight says they are.
LEMMA Tiers ==
    /\ \A r \in Regions : Candidate(1, r) <=> r \in Holding
    /\ \A r \in Regions : Candidate(2, r) <=> r \in Around
    /\ \A r \in Regions : Candidate(3, r) <=> r \in Reaching
BY DEF Candidate, Usable, Holding, Around, Reaching

\* The walk starts with nothing seen.
LEMMA PickerInitInv == PickerInit => PInv
<1>1. PickerInit => PickerTypeOK
  <2>1. PickerInit => done \in BOOLEAN
    BY Zenon DEF PickerInit
  <2> QED BY <2>1 DEF PickerInit, PickerTypeOK
<1>2. ASSUME PickerInit
      PROVE  WalkInv
  <2>1. Seen = {} /\ tier = 1 /\ best = NoRegion /\ ~done
    BY <1>2 DEF PickerInit, Seen
  <2>2. ~(tier > 1) /\ ~(tier > 2)
    BY <2>1
  <2> QED BY <2>1, <2>2 DEF WalkInv
<1> QED BY <1>1, <1>2 DEF PInv

\* Every step keeps what the walks have established.
LEMMA PickerNextInv == PInv /\ [PickerNext]_pvars => PInv'
<1> SUFFICES ASSUME PInv, [PickerNext]_pvars
             PROVE  PInv'
    OBVIOUS
<1> USE PickerAssumption
<1>1. ASSUME NEW r \in Regions, Look(r)
      PROVE  PInv'
  <2> USE <1>1
  <2>1. \A s \in Regions : Area(box[s]) \in Int /\ Area(Common(s)) \in Int
    BY AreaInt, OverlapBox DEF PInv, PickerTypeOK, Common
  <2>2. UNCHANGED <<box, outline, tier, done>> /\ rest' = rest \ {r} /\ r \in rest
    BY DEF Look
  <2>3. Seen' = Seen \cup {r}
    BY <2>2 DEF Seen, PInv, PickerTypeOK
  <2>4. \A s \in Regions : Candidate(tier, s)' <=> Candidate(tier, s)
    BY <2>2 DEF Candidate, Common
  <2>5. Holding' = Holding /\ Around' = Around
    BY <2>2 DEF Holding, Around, Usable
  <2>6. PickerTypeOK'
    BY <2>1, <2>2 DEF Look, PInv, PickerTypeOK
  <2>7. CASE Candidate(tier, r) /\ Better(r)
    <3>1. best' = r
      BY <2>7 DEF Look
    <3>2. ASSUME tier < 3, NEW s \in Seen, Candidate(tier, s)
          PROVE  Area(box[r]) <= Area(box[s])
      <4>1. CASE best = NoRegion
        BY <4>1, <3>2 DEF PInv, WalkInv
      <4>2. CASE best # NoRegion
        <5>1. Area(box[r]) < Area(box[best])
          BY <4>2, <3>2, <2>7 DEF Better
        <5>2. Area(box[best]) <= Area(box[s])
          BY <4>2, <3>2 DEF PInv, WalkInv
        <5>3. best \in Regions /\ s \in Regions
          BY <4>2 DEF PInv, WalkInv, Seen
        <5> QED BY <5>1, <5>2, <5>3, <2>1
      <4> QED BY <4>1, <4>2
    <3>3. r \in Seen' /\ best' # NoRegion /\ Candidate(tier, r)'
      BY <3>1, <2>2, <2>3, <2>4, <2>7
    <3>4. ASSUME tier < 3, NEW s \in Seen', Candidate(tier, s)'
          PROVE  Area(box[r]) <= Area(box[s])
      <4>1. s \in Regions
        BY <2>3 DEF Seen
      <4>2. CASE s = r
        BY <4>2, <2>1
      <4>3. CASE s # r
        <5>1. s \in Seen /\ Candidate(tier, s)
          BY <4>1, <4>3, <3>4, <2>3, <2>4
        <5> QED BY <5>1, <3>2, <3>4
      <4> QED BY <4>2, <4>3
    <3>5. ASSUME tier < 3, NEW s \in Seen', Candidate(tier, s)'
          PROVE  (Area(box[best]) <= Area(box[s]))'
      BY <3>4, <3>5, <3>1, <2>2
    <3>6. WalkInv'
      BY <3>1, <3>3, <3>5, <2>2, <2>5 DEF PInv, WalkInv
    <3> QED BY <3>6, <2>6 DEF PInv
  <2>8. CASE ~(Candidate(tier, r) /\ Better(r))
    <3>1. best' = best
      BY <2>8 DEF Look
    <3>2. best = NoRegion => ~Candidate(tier, r)
      BY <2>8 DEF Better
    <3>3. ASSUME best # NoRegion, tier < 3, Candidate(tier, r)
          PROVE  Area(box[best]) <= Area(box[r])
      <4>1. ~(Area(box[r]) < Area(box[best]))
        BY <3>3, <2>8 DEF Better
      <4>2. best \in Regions
        BY <3>3 DEF PInv, PickerTypeOK
      <4> QED BY <4>1, <4>2, <2>1
    <3>4. ASSUME best # NoRegion, tier < 3, NEW s \in Seen', Candidate(tier, s)'
          PROVE  (Area(box[best]) <= Area(box[s]))'
      <4>1. s = r \/ s \in Seen
        BY <2>3
      <4>2. s \in Regions
        BY <2>3 DEF Seen
      <4>3. Candidate(tier, s)
        BY <4>2, <3>4, <2>4
      <4>4. Area(box[best]) <= Area(box[s])
        BY <4>1, <4>3, <3>3, <3>4 DEF PInv, WalkInv
      <4> QED BY <4>4, <3>1, <2>2
    <3>5. ASSUME best = NoRegion, NEW s \in Seen'
          PROVE  ~Candidate(tier, s)'
      <4>1. s = r \/ s \in Seen
        BY <2>3
      <4>2. ~Candidate(tier, s)
        BY <4>1, <3>2, <3>5 DEF PInv, WalkInv
      <4>3. s \in Regions
        BY <2>3 DEF Seen
      <4> QED BY <4>2, <4>3, <2>4
    <3>6. best # NoRegion => best' \in Seen' /\ Candidate(tier, best)'
      <4>1. best # NoRegion => best \in Seen /\ best \in Regions /\ Candidate(tier, best)
        BY DEF PInv, WalkInv, Seen
      <4> QED BY <4>1, <3>1, <2>2, <2>3, <2>4
    <3>7. WalkInv'
      BY <3>1, <3>4, <3>5, <3>6, <2>2, <2>5 DEF PInv, WalkInv
    <3> QED BY <3>7, <2>6 DEF PInv
  <2> QED BY <2>7, <2>8
<1>2. CASE NextWalk
  <2> USE <1>2
  <2>1. UNCHANGED <<box, outline, best, overlap, done>> /\ tier' = tier + 1
    BY DEF NextWalk
  <2>2. Seen = Regions /\ Seen' = {}
    BY DEF NextWalk, Seen
  <2>3. Holding' = Holding /\ Around' = Around
    BY <2>1 DEF Holding, Around, Usable
  <2>4. PickerTypeOK'
    BY DEF NextWalk, PInv, PickerTypeOK
  <2>5. \A s \in Regions : ~Candidate(tier, s)
    BY <2>2 DEF NextWalk, PInv, WalkInv
  <2>6. (tier = 1 => Holding = {}) /\ (tier = 2 => Around = {})
    BY <2>5, Tiers DEF Holding, Around, Usable
  <2>7. tier \in 1..3
    BY DEF PInv, PickerTypeOK
  <2>8. best = NoRegion /\ ~done
    BY DEF NextWalk
  <2>9. WalkInv'
    BY <2>1, <2>2, <2>3, <2>6, <2>7, <2>8 DEF PInv, WalkInv
  <2> QED BY <2>4, <2>9 DEF PInv
<1>3. CASE Return
  BY <1>3 DEF Return, PInv, PickerTypeOK, WalkInv, Seen, Candidate, Common,
              Holding, Around, Usable
<1>4. CASE UNCHANGED pvars
  BY <1>4 DEF pvars, PInv, PickerTypeOK, WalkInv, Seen, Candidate, Common,
              Holding, Around, Usable
<1> QED
  BY <1>1, <1>2, <1>3, <1>4 DEF PickerNext, Returned

\* The end of the last walk says which region it is.
LEMMA WalkedRight == PInv => PickIsRight
<1> SUFFICES ASSUME PInv, done
             PROVE  IF Holding # {} THEN best \in SmallestOf(Holding)
                    ELSE IF Around # {} THEN best \in SmallestOf(Around)
                    ELSE IF Reaching # {} THEN best \in Reaching
                    ELSE best = NoRegion
    BY DEF PickIsRight
<1>1. Seen = Regions /\ (best # NoRegion \/ tier = 3)
  BY DEF PInv, WalkInv, Seen
<1>2. tier \in 1..3 /\ NoRegion \notin Regions
  BY PickerAssumption DEF PInv, PickerTypeOK
<1>3. Holding \subseteq Regions /\ Around \subseteq Regions /\ Reaching \subseteq Regions
  BY DEF Holding, Around, Reaching, Usable
<1>4. CASE tier = 1
  <2>1. best \in Holding /\ \A r \in Holding : Area(box[best]) <= Area(box[r])
    BY <1>1, <1>3, <1>4, Tiers DEF PInv, WalkInv
  <2> QED BY <2>1 DEF SmallestOf
<1>5. CASE tier = 2
  <2>1. best \in Around /\ \A r \in Around : Area(box[best]) <= Area(box[r])
    BY <1>1, <1>3, <1>5, Tiers DEF PInv, WalkInv
  <2>2. Holding = {}
    BY <1>5 DEF PInv, WalkInv
  <2> QED BY <2>1, <2>2 DEF SmallestOf
<1>6. CASE tier = 3
  <2>1. Holding = {} /\ Around = {}
    BY <1>6 DEF PInv, WalkInv
  <2>2. IF best = NoRegion THEN Reaching = {} ELSE best \in Reaching
    BY <1>1, <1>3, <1>6, Tiers DEF PInv, WalkInv
  <2> QED BY <2>1, <2>2
<1> QED BY <1>2, <1>4, <1>5, <1>6

\* The picker's bookkeeping holds in every reachable state.
THEOREM PickerTypes == PickerSpec => []PickerTypeOK
<1>1. PInv => PickerTypeOK
  BY DEF PInv
<1> QED BY <1>1, PickerInitInv, PickerNextInv, PTL DEF PickerSpec

\* Whatever the order of the walks, the region that serves a tile is the one
\* that the polygons and boxes call for.
THEOREM PickerIsRight == PickerSpec => []PickIsRight
BY PickerInitInv, PickerNextInv, WalkedRight, PTL DEF PickerSpec

-----------------------------------------------------------------------------
(* The last walk compares overlaps with a tolerance.                       *)

\* Two overlaps with the tile are the same, or differ by more than epsArea.
\* Without this the tolerance is no equivalence, and the answer depends on the
\* order of the walk.
Distinguishable ==
    /\ Eps > 0
    /\ \A a, b \in Boxes :
          LET x == Overlap(a, Tile)
              y == Overlap(b, Tile)
          IN  IsValid(x) /\ IsValid(y) =>
                \/ Area(x) = Area(y)
                \/ Area(x) > Area(y) + Eps
                \/ Area(y) > Area(x) + Eps

\* What the last walk has established: best overlaps the tile more than all it
\* has met, or as much and is no larger.
OverlapInv ==
    tier = 3 /\ best # NoRegion =>
        /\ overlap = Area(Common(best))
        /\ \A r \in Seen : Candidate(3, r) =>
              /\ Area(Common(r)) <= overlap
              /\ Area(Common(r)) = overlap => Area(box[best]) <= Area(box[r])

\* Two regions of the last walk overlap the tile equally or clearly differ.
LEMMA CandidatesDiffer ==
    ASSUME Distinguishable, PInv, NEW r \in Regions, NEW s \in Regions,
           Candidate(3, r), Candidate(3, s)
    PROVE  /\ Area(Common(r)) \in Int /\ Area(Common(s)) \in Int
           /\ Area(box[r]) \in Int /\ Area(box[s]) \in Int
           /\ \/ Area(Common(r)) = Area(Common(s))
              \/ Area(Common(r)) > Area(Common(s)) + Eps
              \/ Area(Common(s)) > Area(Common(r)) + Eps
<1>1. box[r] \in Boxes /\ box[s] \in Boxes /\ box[r] \in Box /\ box[s] \in Box
  BY PickerAssumption DEF PInv, PickerTypeOK
<1>2. Common(r) \in Box /\ Common(s) \in Box
  BY <1>1, OverlapBox, PickerAssumption DEF Common
<1>3. IsValid(Common(r)) /\ IsValid(Common(s))
  BY DEF Candidate
<1> QED
  BY <1>1, <1>2, <1>3, AreaInt DEF Distinguishable, Common

LEMMA OverlapNext ==
    ASSUME Distinguishable, PInv, OverlapInv, [PickerNext]_pvars
    PROVE  OverlapInv'
<1>1. ASSUME NEW r \in Regions, Look(r), tier = 3
      PROVE  OverlapInv'
  <2>1. UNCHANGED <<box, outline, tier>> /\ Seen' = Seen \cup {r}
    BY <1>1 DEF Look, Seen, PInv, PickerTypeOK
  <2>2. \A s \in Regions : /\ Candidate(3, s)' <=> Candidate(3, s)
                           /\ Area(Common(s))' = Area(Common(s))
                           /\ Area(box[s])' = Area(box[s])
    BY <2>1 DEF Candidate, Common
  <2>3. Seen \subseteq Regions /\ (best # NoRegion => best \in Regions /\ Candidate(3, best))
    BY <1>1 DEF Seen, PInv, WalkInv
  <2>4. best = NoRegion => \A s \in Seen : ~Candidate(3, s)
    BY <1>1 DEF PInv, WalkInv
  \* Everything the walk has met, and the region it meets now.
  <2>5. ASSUME NEW b \in Regions, best' = b, overlap' = Area(Common(b)),
               \A s \in Seen \cup {r} : Candidate(3, s) =>
                  /\ Area(Common(s)) <= Area(Common(b))
                  /\ Area(Common(s)) = Area(Common(b)) => Area(box[b]) <= Area(box[s])
        PROVE  OverlapInv'
    <3>1. Area(Common(best))' = Area(Common(b)) /\ Area(box[best])' = Area(box[b])
      BY <2>1, <2>5 DEF Common
    <3> QED
      BY <2>1, <2>2, <2>3, <2>5, <3>1 DEF OverlapInv
  <2>6. CASE Candidate(3, r) /\ Better(r)
    <3>1. best' = r /\ overlap' = Area(Common(r))
      BY <1>1, <2>6 DEF Look
    <3>2. ASSUME NEW s \in Seen \cup {r}, Candidate(3, s)
          PROVE  /\ Area(Common(s)) <= Area(Common(r))
                 /\ Area(Common(s)) = Area(Common(r)) => Area(box[r]) <= Area(box[s])
      <4>1. s \in Regions
        BY <2>3
      <4>2. CASE s = r
        BY <2>6, <4>2, CandidatesDiffer
      <4>3. CASE s # r
        <5>1. s \in Seen /\ best \in Regions /\ best # NoRegion /\ Candidate(3, best)
          BY <2>3, <2>4, <3>2, <4>3
        <5>2. /\ overlap = Area(Common(best)) /\ Area(Common(s)) <= overlap
              /\ Area(Common(s)) = overlap => Area(box[best]) <= Area(box[s])
          BY <1>1, <3>2, <5>1 DEF OverlapInv
        <5>3. \/ Area(Common(r)) > overlap + Eps
              \/ /\ Area(Common(r)) - overlap < Eps /\ overlap - Area(Common(r)) < Eps
                 /\ Area(box[r]) < Area(box[best])
          BY <1>1, <2>6, <5>1 DEF Better
        <5>4. \/ Area(Common(r)) = Area(Common(best))
              \/ Area(Common(r)) > Area(Common(best)) + Eps
              \/ Area(Common(best)) > Area(Common(r)) + Eps
          BY <2>6, <5>1, CandidatesDiffer
        <5>5. /\ Area(Common(r)) \in Int /\ Area(Common(best)) \in Int /\ Area(Common(s)) \in Int
              /\ Area(box[r]) \in Int /\ Area(box[best]) \in Int /\ Area(box[s]) \in Int
          BY <2>6, <3>2, <4>1, <5>1, CandidatesDiffer
        <5> QED
          BY <5>2, <5>3, <5>4, <5>5, PickerAssumption
      <4> QED
        BY <4>2, <4>3
    <3> QED
      BY <2>5, <3>1, <3>2
  <2>7. CASE ~(Candidate(3, r) /\ Better(r)) /\ best # NoRegion
    <3>1. best' = best /\ overlap' = overlap
      BY <1>1, <2>7 DEF Look
    <3>2. overlap = Area(Common(best))
      BY <1>1, <2>7 DEF OverlapInv
    <3>3. ASSUME NEW s \in Seen \cup {r}, Candidate(3, s)
          PROVE  /\ Area(Common(s)) <= Area(Common(best))
                 /\ Area(Common(s)) = Area(Common(best)) => Area(box[best]) <= Area(box[s])
      <4>1. CASE s \in Seen
        BY <1>1, <2>7, <3>2, <3>3, <4>1 DEF OverlapInv
      <4>2. CASE s = r
        <5>1. ~Better(r)
          BY <2>7, <3>3, <4>2
        <5>2. /\ ~(Area(Common(r)) > overlap + Eps)
              /\ ~(/\ Area(Common(r)) - overlap < Eps /\ overlap - Area(Common(r)) < Eps
                   /\ Area(box[r]) < Area(box[best]))
          BY <1>1, <5>1 DEF Better
        <5>3. /\ Area(Common(r)) \in Int /\ Area(Common(best)) \in Int
              /\ Area(box[r]) \in Int /\ Area(box[best]) \in Int
              /\ \/ Area(Common(r)) = Area(Common(best))
                 \/ Area(Common(r)) > Area(Common(best)) + Eps
                 \/ Area(Common(best)) > Area(Common(r)) + Eps
          BY <2>3, <2>7, <3>3, <4>2, CandidatesDiffer
        <5> QED
          BY <3>2, <4>2, <5>2, <5>3, PickerAssumption DEF Distinguishable
      <4> QED
        BY <4>1, <4>2
    <3> QED
      BY <2>3, <2>5, <2>7, <3>1, <3>2, <3>3
  <2>8. CASE ~(Candidate(3, r) /\ Better(r)) /\ best = NoRegion
    <3>1. best' = NoRegion
      BY <1>1, <2>8 DEF Look
    <3> QED
      BY <3>1 DEF OverlapInv
  <2> QED
    BY <2>6, <2>7, <2>8
<1>2. ASSUME NEW r \in Regions, Look(r), tier # 3
      PROVE  OverlapInv'
  BY <1>2 DEF Look, OverlapInv
<1>3. CASE NextWalk
  BY <1>3 DEF NextWalk, OverlapInv
<1>4. CASE Return \/ UNCHANGED pvars
  BY <1>4 DEF Return, pvars, OverlapInv, Seen, Candidate, Common
<1> QED
  BY <1>1, <1>2, <1>3, <1>4 DEF PickerNext, Returned

\* Among the regions that merely reach into a tile the largest overlap wins and
\* then the smallest region, in whatever order the map hands them out, as long
\* as no two overlaps differ by less than the tolerance.
THEOREM PickerTakesTheLargest == Distinguishable => (PickerSpec => []LargestOverlapWins)
<1> SUFFICES ASSUME Distinguishable PROVE PickerSpec => []LargestOverlapWins
  OBVIOUS
<1>1. PickerInit => OverlapInv
  BY DEF PickerInit, OverlapInv
<1>2. PInv /\ OverlapInv /\ [PickerNext]_pvars => OverlapInv'
  BY OverlapNext
<1>3. PInv /\ OverlapInv => LargestOverlapWins
  <2> SUFFICES ASSUME PInv, OverlapInv, done, tier = 3, best # NoRegion
               PROVE  best \in SmallestOf({r \in Reaching :
                         \A s \in Reaching : Area(Common(s)) <= Area(Common(r))})
    BY DEF LargestOverlapWins
  <2>1. Seen = Regions /\ best \in Reaching /\ Reaching \subseteq Regions
    BY Tiers DEF PInv, WalkInv, Seen, Reaching, Usable
  <2>2. \A r \in Reaching :
           /\ Area(Common(r)) <= Area(Common(best))
           /\ Area(Common(r)) = Area(Common(best)) => Area(box[best]) <= Area(box[r])
    BY <2>1, Tiers DEF OverlapInv
  <2>3. ASSUME NEW r \in Reaching, \A s \in Reaching : Area(Common(s)) <= Area(Common(r))
        PROVE  Area(box[best]) <= Area(box[r])
    <3>1. Candidate(3, r) /\ Candidate(3, best)
      BY <2>1, Tiers
    <3>2. Area(Common(r)) \in Int /\ Area(Common(best)) \in Int
      BY <2>1, <3>1, CandidatesDiffer
    <3>3. Area(Common(r)) <= Area(Common(best)) /\ Area(Common(best)) <= Area(Common(r))
      BY <2>1, <2>2, <2>3
    <3>4. Area(Common(r)) = Area(Common(best))
      BY <3>2, <3>3
    <3> QED
      BY <2>2, <3>4
  <2> QED
    BY <2>1, <2>2, <2>3 DEF SmallestOf
<1> QED
  BY <1>1, <1>2, <1>3, PickerInitInv, PickerNextInv, PTL DEF PickerSpec
=============================================================================
