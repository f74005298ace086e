---------------------------- MODULE MCTilePicker ----------------------------
(* A tile and boxes around, beside and away from it.  All areas and         *)
(* overlaps are multiples of 4, so Eps = 1 tells equal ones from others.    *)
EXTENDS TilePicker, TLC

B(w, s, e, n) == [minLon |-> w, minLat |-> s, maxLon |-> e, maxLat |-> n]

MCTile  == B(0, 0, 4, 4)
MCBoxes == {B(-8, -8, 8, 8),   \* a continent
            B(-2, -2, 6, 6),   \* a country around the tile
            B(-6, 0, 1, 4),    \* overlaps its western edge
            B(3, 0, 5, 4),     \* as much of the eastern edge, but smaller
            B(0, 0, 4, 1),     \* lies in its southern edge
            B(0, 3, 9, 7),     \* overlaps its northern edge
            B(2, 2, 2, 2),     \* a header nobody filled in, at the centre
            B(20, 20, 24, 24)} \* far away
Symmetry == Permutations(Regions)
=============================================================================
