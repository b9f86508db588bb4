---------------------------- MODULE BracketBuild ----------------------------
(***************************************************************************)
(* The matches the code creates for a single elimination stage item of n   *)
(* inputs (logic/scheduling/elimination.py).  Rounds and matches are       *)
(* numbered in the order they are inserted, which is the order of their    *)
(* ids; input i is the input of slot i.                                    *)
(***************************************************************************)
EXTENDS Naturals, Sequences

(* The team counts that have a round count; any other is rejected. *)
EliminationRounds == [n \in {2, 4, 8, 16, 32} |->
    CASE n = 2 -> 1 [] n = 4 -> 2 [] n = 8 -> 3 [] n = 16 -> 4 [] n = 32 -> 5]

NewMatch(id, round, in, from) == [id |-> id, round |-> round, inputs |-> in, from |-> from]

(* Slots 1 and 2 meet, 3 and 4 meet, ... *)
FirstRound(n) ==
    [i \in 1 .. n \div 2 |-> NewMatch(i, 1, <<2 * i - 1, 2 * i>>, <<0, 0>>)]

(* Seeded fault: a match is fed by two matches that follow each other, of   *)
(* which the next match takes one again.                                    *)
SubsequentRoundOverlapping(prev, round) ==
    LET last == prev[Len(prev)].id IN
    [i \in 1 .. Len(prev) \div 2 |->
        NewMatch(last + i, round, <<0, 0>>, <<prev[i].id, prev[i + 1].id>>)]

(* The winners of the first two matches of the previous round meet, the     *)
(* winners of the next two, ...                                             *)
SubsequentRound(prev, round) ==
    LET last == prev[Len(prev)].id IN
    [i \in 1 .. Len(prev) \div 2 |->
        NewMatch(last + i, round, <<0, 0>>, <<prev[2 * i - 1].id, prev[2 * i].id>>)]

(* The matches of each round. *)
BuildSingleElimination(n) ==
    LET built[r \in 1 .. EliminationRounds[n]] ==
            IF r = 1 THEN FirstRound(n) ELSE SubsequentRound(built[r - 1], r)
    IN  built

BuiltMatches(n) ==
    UNION {{BuildSingleElimination(n)[r][i] : i \in DOMAIN BuildSingleElimination(n)[r]} :
              r \in 1 .. EliminationRounds[n]}

(* The tree that matches form: the round of each, the matches that feed it  *)
(* and the inputs it starts with, by the ids that the inputs of the stage   *)
(* item have.                                                               *)
IdsOf(matches) == {b.id : b \in matches}
RowOf(matches, id) == CHOOSE b \in matches : b.id = id
RoundsOf(matches) == [id \in IdsOf(matches) |-> RowOf(matches, id).round]
FeedersOf(matches) == [id \in IdsOf(matches) |-> RowOf(matches, id).from]
InputIn(inputId, slot) == IF slot = 0 THEN 0 ELSE inputId[slot]
SeedsOf(matches, inputId) ==
    [id \in IdsOf(matches) |-> [k \in 1 .. 2 |-> InputIn(inputId, RowOf(matches, id).inputs[k])]]
=============================================================================
