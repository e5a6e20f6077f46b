----------------------------- MODULE MCDisplay -----------------------------
(* The display for TLC: three cars ranked in every order, or with          *)
(* positions that are twice, late or nobody's, and last laps on both sides *)
(* of a minute.                                                            *)
EXTENDS Display

MCLaps      == <<59999, 60000, 125001>>
MCRankings  == {p \in [Cars -> 1 .. MaxCars] : \A c, d \in Cars : c # d => p[c] # p[d]}
MCPositions == {[c \in Cars |-> p[c + 1]] :
                  p \in {<<0, 0, 0>>, <<1, 1, 2>>, <<2, 3, 0>>, <<3, 2, 2>>, <<0, 1, 2>>}}
MCTables    == {[c \in Cars |-> [pos |-> p[c], lastlap |-> MCLaps[c + 1]]] :
                  p \in MCRankings \cup MCPositions}
MCTimes     == {59, 5999, 6000}
MCSizes     == {<<3, 15>>, <<5, 10>>, <<6, 20>>}
=============================================================================
