------------------------------ MODULE MCSpatial ------------------------------
(* Spatial on a grid of 16 x 16 cells, two units wide.  Points lie inside a  *)
(* cell, on the edges of cells and of the world, and outside it.             *)
EXTENDS Spatial

MCPoints == {<<-20, 3>>, <<-16, -16>>, <<-1, 0>>, <<0, 0>>, <<16, 1>>}

\* Three positions, two of which may coincide, or none.
MCPlacements ==
    {<<>>} \cup {<<<<0, -1, 0>>, <<1, p[1], p[2]>>, <<2, q[1], q[2]>>>> :
                    p \in MCPoints, q \in {<<-1, 0>>, <<16, 1>>}}

Box(x1, x2, y1, y2) == [x |-> <<x1, x2>>, y |-> <<y1, y2>>]

MCBoxes == {Box(-20, 20, -20, 20), Box(-16, 14, -16, 3), Box(-1, 0, 0, 0), Box(3, -3, 0, 1)}
=============================================================================
