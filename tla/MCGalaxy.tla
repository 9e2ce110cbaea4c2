------------------------------ MODULE MCGalaxy ------------------------------
(***************************************************************************)
(* Small galaxies for TLC: stars on a line, given by their positions.      *)
(***************************************************************************)
EXTENDS Galaxy

Apart(x, y) == IF x = y THEN 1 ELSE IF x < y THEN y - x ELSE x - y

OnALine(position) ==
    [p \in Stars \X Stars |-> Apart(position[p[1]], position[p[2]])]

(* Two commanders with one neutral star between them and one behind.       *)
DuelPosition == [s \in Stars |-> << 0, 10, 20, 65 >>[s + 1]]
DuelDistance == OnALine(DuelPosition)
DuelRichness == [s \in Stars |-> << 1, 2, 1, 5 >>[s + 1]]
DuelPlacements == {[c \in Commanders |-> IF c = 0 THEN 0 ELSE 2]}

(* Two commanders a side around the neutral star 2, all within one turn   *)
(* of each other.                                                         *)
AlliedPosition == [s \in Stars |-> << 0, 2, 4, 6, 8 >>[s + 1]]
AlliedDistance == OnALine(AlliedPosition)
AlliedRichness == [s \in Stars |-> 1]
AlliedPlacements ==
    {[c \in Commanders |-> << 0, 1, 3, 4 >>[c + 1]]}
=============================================================================
