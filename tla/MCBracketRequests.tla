-------------------------- MODULE MCBracketRequests --------------------------
(* BracketRequests on the tree the code builds for 4 inputs: the two        *)
(* semi-finals write the two sides of one row, the final.                   *)
EXTENDS BracketRequests, BracketBuild

MCSize == 4

MCBuilt == BuiltMatches(MCSize)
MCMatches == IdsOf(MCBuilt)
MCRoundOf == RoundsOf(MCBuilt)
MCFeeder == FeedersOf(MCBuilt)

(* Inputs have ids of their own, unlike those of matches. *)
MCInputId == [slot \in 1 .. MCSize |-> 10 + slot]
MCSeed == SeedsOf(MCBuilt, MCInputId)
MCEntrants == {MCInputId[slot] : slot \in 1 .. MCSize}

(* Unplayed, and won by either side. *)
MCScores == {<<0, 0>>, <<2, 1>>, <<1, 2>>}
=============================================================================
