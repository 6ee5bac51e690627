----------------------------- MODULE MCBarnesHut -----------------------------
(* Model-checking instance of BarnesHut.                                    *)
EXTENDS BarnesHut

(* In the plane, a box of size 8 that has to grow for the last place.  The  *)
(* first two are in one subcell, three of them are corners of cells.        *)
MCPlaces == {<<-4, -4>>, <<-3, -4>>, <<0, 0>>, <<1, 3>>, <<2, 4>>, <<8, -6>>}
MCMasses == {<<1, 1, 1>>, <<1, 3, 2>>, <<2, 0, 1>>}
MCContexts == [criterion : {"TreeCode", "SW93", "BH86"}, useQuad : {TRUE}, allowIncest : {TRUE}]
  \cup [criterion : {"TreeCode", "BH86", "Exact"}, useQuad : {FALSE}, allowIncest : {FALSE}]
MCTheta == <<1, 1>>

=============================================================================
