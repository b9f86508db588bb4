--------------------------- MODULE MCElimination ---------------------------
(* Elimination on the tree the code builds for 8 inputs: three rounds, so a *)
(* corrected quarter-final has to reach the final through a semi-final.     *)
EXTENDS Elimination, BracketBuild

MCSize == 8

MCBuilt == BuiltMatches(MCSize)
MCMatches == IdsOf(MCBuilt)
MCRoundOf == RoundsOf(MCBuilt)
MCFeeder == FeedersOf(MCBuilt)

(* Inputs have ids of their own, unlike those of matches. *)
MCInputId == [slot \in 1 .. MCSize |-> 10 + slot]
MCSeed == SeedsOf(MCBuilt, MCInputId)
MCEntrants == {MCInputId[slot] : slot \in 1 .. MCSize}

(* One path to the final and a neighbour on each level. *)
MCEdited == {1, 2, 5, 7}

(* Unplayed, won by one side, won by the other, and a draw that was played. *)
MCScores == {<<0, 0>>, <<2, 1>>, <<1, 2>>, <<1, 1>>}
=============================================================================
