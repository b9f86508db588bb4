---------------------------- MODULE BracketTree ----------------------------
(***************************************************************************)
(* The tree of matches of one single elimination stage item, and what the  *)
(* winner of a match is.  The tree is built once, when the stage item is   *)
(* created (module BracketBuild computes the one the code builds); the     *)
(* modules about score entry take any tree of the same kind.               *)
(*                                                                         *)
(*   Matches    the ids of the stage item's matches                        *)
(*   RoundOf    the id of each match's round                               *)
(*   Feeder     the match whose winner takes a side of a match, or None    *)
(*              (stage_item_input<k>_winner_from_match_id)                 *)
(*   Entrants   the ids of the stage item's inputs                         *)
(*   Seed       the input put on a side when the match is created, or None *)
(*   Scores     the scores a client may enter for a match                  *)
(***************************************************************************)
EXTENDS Naturals, FiniteSets, BracketShape

CONSTANTS Matches, RoundOf, Feeder, Entrants, Seed, Scores

(* The score of a match that was not played: scores are never NULL. *)
NoScore == <<0, 0>>

(* What a match shows on its two sides. *)
Sheet == [Sides -> Entrants \cup {None}]

EmptySheet == [k \in Sides |-> None]

ASSUME TreeAssumption ==
    /\ IsTree(Matches, RoundOf, Feeder, Entrants, Seed)
    /\ Scores \subseteq Nat \X Nat
    /\ NoScore \in Scores

ASSUME RoundsAssumption == IsRoundByRound(Matches, RoundOf, Feeder, Seed)

----------------------------------------------------------------------------

(* A match still in the database that feeds a side, or None: deleting a     *)
(* match sets the references to it to NULL.                                 *)
FedBy(live, m, k) == IF Feeder[m][k] \in live THEN Feeder[m][k] ELSE None

(* The side that won, as an input id: nobody wins a tie, and the winner of  *)
(* a match with an empty side can be None.                                  *)
Winner(sheet, score) ==
    IF score[1] > score[2] THEN sheet[1]
    ELSE IF score[1] < score[2] THEN sheet[2]
    ELSE None

Decided(score) == score[1] # score[2]

----------------------------------------------------------------------------
(* What a reader of the bracket expects of it.                              *)

(* A side fed by a decided match shows that match's winner. *)
WinnersAdvanced(in, sc, live) ==
    \A m \in live, k \in Sides :
        LET f == FedBy(live, m, k) IN
        (f # None /\ Decided(sc[f])) => in[m][k] = Winner(in[f], sc[f])

(* ... and a side fed by an undecided match is empty. *)
SidesFollowFeeders(in, sc, live) ==
    \A m \in live, k \in Sides :
        LET f == FedBy(live, m, k) IN
        f # None => in[m][k] = Winner(in[f], sc[f])
=============================================================================
