--------------------------- MODULE BracketDrawing ---------------------------
(***************************************************************************)
(* What the Bracket page hands to brackets-viewer for one stage item       *)
(* (bracket-adapter.ts).  The library draws the matches of each round in   *)
(* the order given and, in a knockout bracket, a line from matches 2n - 1  *)
(* and 2n of a round to match n of the next; it is told nothing of who     *)
(* feeds whom.                                                             *)
(*                                                                         *)
(* A match is a record: its id, the two inputs it shows (or None), the     *)
(* matches whose winners they are (or None) and its score.                 *)
(***************************************************************************)
EXTENDS Integers, FiniteSetsExt, SequencesExt

None == 0

(* Number.MAX_SAFE_INTEGER: after every position and every time. *)
Unplaced == 1000

(* The outcomes that are not the number of a side. *)
Undecided == 0
Draw == 3

isScored(match) == match.score # <<0, 0>>

matchWinner(match) ==
    CASE ~isScored(match) -> Undecided
      [] match.score[1] > match.score[2] -> 1
      [] match.score[2] > match.score[1] -> 2
      [] OTHER -> Draw

----------------------------------------------------------------------------
(* The order of the matches in their rounds. *)

(* The first of the places, in earlier rounds, a match's inputs come from. *)
originPosition(match, positionById) ==
    LET origins == {positionById[f] : f \in ToSet(match.from) \cap DOMAIN positionById}
    IN  IF origins = {} THEN Unplaced ELSE Min(origins)

(* Mutant of orderRound: the later origin comes first. *)
orderRoundBackwards(matches, positionById) ==
    LET origin(m) == originPosition(m, positionById)
    IN  SortSeq(matches, LAMBDA l, r : \/ origin(l) > origin(r)
                                       \/ origin(l) = origin(r) /\ l.id < r.id)

orderRound(matches, positionById) ==
    LET origin(m) == originPosition(m, positionById)
    IN  SortSeq(matches, LAMBDA l, r : \/ origin(l) < origin(r)
                                       \/ origin(l) = origin(r) /\ l.id < r.id)

orderRounds(rounds) ==
    LET Order(done, matches) ==
            LET ordered == orderRound(matches, done.positionById)
                positions == [id \in {m.id : m \in ToSet(ordered)} |->
                                 SelectInSeq(ordered, LAMBDA m : m.id = id)]
            IN  [rounds |-> Append(done.rounds, ordered),
                 positionById |-> positions @@ done.positionById]
    IN  FoldLeft(Order, [rounds |-> <<>>, positionById |-> <<>>], rounds).rounds

----------------------------------------------------------------------------
(* The two sides of a match, and how far it is. *)

(* Mutant of result: both sides compare the scores the same way. *)
resultOfFirst(match, side) ==
    CASE matchWinner(match) = Undecided -> "none"
      [] matchWinner(match) = Draw -> "draw"
      [] matchWinner(match) = 1 -> "win"
      [] OTHER -> "loss"

result(match, side) ==
    CASE matchWinner(match) = Undecided -> "none"
      [] matchWinner(match) = Draw -> "draw"
      [] matchWinner(match) = side -> "win"
      [] OTHER -> "loss"

(* An input nobody can name yet is drawn as an empty place. *)
toOpponent(match, side, known) ==
    [id |-> IF match.inputs[side] \in known THEN match.inputs[side] ELSE None,
     result |-> result(match, side)]

status(match) ==
    CASE isScored(match) -> "completed"
      [] ~isScored(match) /\ None \notin ToSet(match.inputs) -> "ready"
      [] ~isScored(match) /\ ToSet(match.inputs) = {None} -> "locked"
      [] OTHER -> "waiting"

(* The rounds, each with its matches from top to bottom. *)
toBracketViewerData(rounds, known) ==
    LET Drawn(m) == [id |-> m.id, status |-> status(m),
                     opponents |-> <<toOpponent(m, 1, known), toOpponent(m, 2, known)>>]
        ordered == orderRounds(rounds)
    IN  [r \in DOMAIN ordered |-> [n \in DOMAIN ordered[r] |-> Drawn(ordered[r][n])]]

(* How many rounds before the final, or the number of a Swiss round. *)
roundLabel(groupType, roundCount, roundNumber) ==
    LET fromFinal == roundCount - roundNumber
    IN  CASE groupType = "round-robin" -> <<"Round", roundNumber>>
          [] groupType # "round-robin" /\ fromFinal = 0 -> <<"Final">>
          [] groupType # "round-robin" /\ fromFinal = 1 -> <<"Semi-finals">>
          [] groupType # "round-robin" /\ fromFinal = 2 -> <<"Quarter-finals">>
          [] OTHER -> <<"Round of", 2 ^ (fromFinal + 1)>>
=============================================================================
