--------------------------- MODULE BracketPromise ---------------------------
(***************************************************************************)
(* What entering a score promises for an elimination bracket, with no      *)
(* loops, transactions or requests: the match gets the score, and every    *)
(* side fed by it, or by a match that now shows other inputs, shows the    *)
(* winner of its feeder; nothing else changes.  The tree being acyclic,    *)
(* that determines the new bracket.                                        *)
(***************************************************************************)
EXTENDS BracketTree

VARIABLES
    inputs,   \* the two inputs each match shows
    scores,   \* the score of each match
    live      \* the matches that exist (deleting a round deletes its matches)

vars == <<inputs, scores, live>>

TypeOK ==
    /\ inputs \in [Matches -> Sheet]
    /\ scores \in [Matches -> Scores]
    /\ live \in SUBSET Matches

Init ==
    /\ inputs = Seed
    /\ scores = [m \in Matches |-> NoScore]
    /\ live = Matches

(* in2 is in1 after the winner of x, and of every match that changes in     *)
(* turn, has been passed on.                                                *)
Advances(x, in1, in2, sc) ==
    \A m \in live, k \in Sides :
        LET f == FedBy(live, m, k) IN
        in2[m][k] = IF f # None /\ (f = x \/ in2[f] # in1[f])
                    THEN Winner(in2[f], sc[f])
                    ELSE in1[m][k]

EnterScore(x, s) ==
    /\ x \in live
    /\ scores' = [scores EXCEPT ![x] = s]
    /\ inputs' \in [Matches -> Sheet]
    /\ Advances(x, inputs, inputs', scores')
    /\ \A m \in Matches \ live : inputs'[m] = inputs[m]
    /\ UNCHANGED live

(* The stage is deactivated: scores are cleared, sides keep their inputs. *)
ClearScores ==
    /\ scores' = [m \in Matches |-> NoScore]
    /\ UNCHANGED <<inputs, live>>

DeleteRound(r) ==
    LET gone == {m \in live : RoundOf[m] = r} IN
    /\ live' = live \ gone
    /\ inputs' = [m \in Matches |-> IF m \in gone THEN EmptySheet ELSE inputs[m]]
    /\ scores' = [m \in Matches |-> IF m \in gone THEN NoScore ELSE scores[m]]

Next ==
    \/ \E x \in Matches, s \in Scores : EnterScore(x, s)
    \/ ClearScores
    \/ \E r \in {RoundOf[m] : m \in live} : DeleteRound(r)

Spec == Init /\ [][Next]_vars

----------------------------------------------------------------------------

(* A side fed by a decided match shows its winner, whatever was entered,    *)
(* corrected, cleared or deleted before.                                    *)
DecidedAdvances == WinnersAdvanced(inputs, scores, live)

(* In a bracket whose undecided matches feed empty sides, only clearing     *)
(* the scores leaves an input in a side whose feeder is undecided.          *)
FollowsUnlessCleared ==
    [][SidesFollowFeeders(inputs, scores, live) =>
          \/ SidesFollowFeeders(inputs, scores, live)'
          \/ ClearScores]_vars
=============================================================================
