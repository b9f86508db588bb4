---------------------------- MODULE Elimination ----------------------------
(***************************************************************************)
(* The bracket of one single elimination stage item as the backend keeps   *)
(* it: rows of matches in the database, changed by requests that each run  *)
(* in one transaction.  Here one request runs at a time; BracketRequests   *)
(* interleaves them.                                                       *)
(*                                                                         *)
(* A request that enters a score writes the match's row, reads the stage   *)
(* item back, visits the matches of the later rounds one by one in the     *)
(* order of their ids to see which sides change, and writes those.  A      *)
(* "complete" update (renaming the stage item, or changing its ranking's   *)
(* points) runs that same loop once per round, each time from the stage    *)
(* item as it was read at the start.                                       *)
(*                                                                         *)
(* inputs, scores and live are the committed rows; draft and draftScores   *)
(* are the rows as the open transaction sees them.                         *)
(***************************************************************************)
EXTENDS BracketTree

CONSTANT Edited   \* bound: the matches for which the requests enter scores

ASSUME EditedAssumption == Edited \subseteq Matches

VARIABLES
    inputs, scores, live,  \* as in BracketPromise
    job,          \* "idle", or the kind of the running request
    cur,          \* the match whose score it enters, or None
    draft,        \* the inputs written so far by the open transaction
    draftScores,  \* the scores the open transaction sees
    snap,         \* the inputs in the stage item the request read
    work,         \* snap with the copies of the matches whose sides change
    affected,     \* the keys of affected_matches
    todo,         \* the matches of later rounds the loop has not visited
    passes        \* the rounds a complete update has not started from

rows == <<inputs, scores, live>>
loop == <<snap, work, affected, todo, passes>>
vars == <<rows, job, cur, draft, draftScores, loop>>

TypeOK ==
    /\ inputs \in [Matches -> Sheet]
    /\ scores \in [Matches -> Scores]
    /\ live \in SUBSET Matches
    /\ job \in {"idle", "score", "complete"}
    /\ cur \in Matches \cup {None}
    /\ draft \in [Matches -> Sheet]
    /\ draftScores \in [Matches -> Scores]
    /\ snap \in [Matches -> Sheet]
    /\ work \in [Matches -> Sheet]
    /\ affected \in SUBSET Matches
    /\ todo \in SUBSET Matches
    /\ passes \in SUBSET Nat

(* Between requests the loop's variables hold nothing. *)
NoSheets == [m \in Matches |-> EmptySheet]
Unplayed == [m \in Matches |-> NoScore]

Init ==
    /\ inputs = Seed
    /\ scores = Unplayed
    /\ live = Matches
    /\ job = "idle" /\ cur = None
    /\ draft = NoSheets /\ draftScores = Unplayed
    /\ snap = NoSheets /\ work = NoSheets
    /\ affected = {} /\ todo = {} /\ passes = {}

----------------------------------------------------------------------------

(* Seeded fault: only the next round is updated, not the rounds after it. *)
OnlyNextRound(round) == {m \in live : RoundOf[m] = round + 1}

(* subsequent_matches, which the code puts in the order of (round, id) *)
Subsequent(round) == {m \in live : RoundOf[m] > round}

Precedes(m, o) == RoundOf[m] < RoundOf[o] \/ (RoundOf[m] = RoundOf[o] /\ m <= o)

LiveRounds == {RoundOf[m] : m \in live}

(* PUT matches/{x}: the row is written, then the stage item is read, by the *)
(* same transaction; only x is affected at first.                           *)
StartScore(x, s) ==
    /\ job = "idle"
    /\ x \in live
    /\ job' = "score"
    /\ cur' = x
    /\ draft' = inputs
    /\ draftScores' = [scores EXCEPT ![x] = s]
    /\ snap' = inputs
    /\ work' = inputs
    /\ affected' = {x}
    /\ todo' = Subsequent(RoundOf[x])
    /\ passes' = {}
    /\ UNCHANGED rows

(* PUT stage_items/{id}: the stage item was read before anything is written *)
StartComplete ==
    /\ job = "idle"
    /\ job' = "complete"
    /\ cur' = None
    /\ draft' = inputs
    /\ draftScores' = scores
    /\ snap' = inputs
    /\ work' = inputs
    /\ affected' = {}
    /\ todo' = {}
    /\ passes' = LiveRounds
    /\ UNCHANGED rows

(* Seeded fault: the passes start from the last round. *)
StartPassFromLast ==
    /\ job = "complete"
    /\ affected = {} /\ todo = {}
    /\ \E r \in passes :
          /\ \A q \in passes : r >= q
          /\ affected' = {m \in live : RoundOf[m] = r}
          /\ todo' = Subsequent(r)
          /\ passes' = passes \ {r}
    /\ work' = snap
    /\ UNCHANGED <<rows, job, cur, draft, draftScores, snap>>

(* One pass of a complete update: every match of the round is affected, and *)
(* the copies of the previous pass are dropped.                             *)
StartPass ==
    /\ job = "complete"
    /\ affected = {} /\ todo = {}
    /\ \E r \in passes :
          /\ \A q \in passes : r <= q
          /\ affected' = {m \in live : RoundOf[m] = r}
          /\ todo' = Subsequent(r)
          /\ passes' = passes \ {r}
    /\ work' = snap
    /\ UNCHANGED <<rows, job, cur, draft, draftScores, snap>>

(* Seeded faults: the id of the feeder is written instead of its winner's, *)
(* a tie leaves the side as it was, both sides take the first feeder.       *)
SheetOfFeederIds(m) ==
    [k \in Sides |->
        LET f == FedBy(live, m, k) IN
        IF f # None /\ f \in affected THEN f ELSE snap[m][k]]
SheetKeptOnTie(m) ==
    [k \in Sides |->
        LET f == FedBy(live, m, k) IN
        IF f # None /\ f \in affected /\ Decided(draftScores[f])
        THEN Winner(work[f], draftScores[f])
        ELSE snap[m][k]]
SheetOfFirstFeeder(m) ==
    [k \in Sides |->
        LET f == FedBy(live, m, 1) IN
        IF f # None /\ f \in affected THEN Winner(work[f], draftScores[f])
                                      ELSE snap[m][k]]

(* The sides of m once the winners of the affected matches are known. *)
UpdatedSheet(m) ==
    [k \in Sides |->
        LET f == FedBy(live, m, k) IN
        IF f # None /\ f \in affected THEN Winner(work[f], draftScores[f])
                                      ELSE snap[m][k]]

(* Seeded fault: a match whose sides changed is not passed on in turn. *)
VisitWithoutPassingOn ==
    /\ job # "idle"
    /\ \E m \in todo :
          /\ \A o \in todo : Precedes(m, o)
          /\ work' = [work EXCEPT ![m] = UpdatedSheet(m)]
          /\ todo' = todo \ {m}
    /\ UNCHANGED <<rows, job, cur, draft, draftScores, snap, affected, passes>>

(* The body of the loop, for the first match not visited yet. *)
Visit ==
    /\ job # "idle"
    /\ \E m \in todo :
          /\ \A o \in todo : Precedes(m, o)
          /\ work' = [work EXCEPT ![m] = UpdatedSheet(m)]
          /\ affected' = IF UpdatedSheet(m) # snap[m] THEN affected \cup {m} ELSE affected
          /\ todo' = todo \ {m}
    /\ UNCHANGED <<rows, job, cur, draft, draftScores, snap, passes>>

(* Both input columns of every affected match are written, except those of *)
(* the match whose score was entered.                                       *)
WriteUpdates ==
    /\ job # "idle"
    /\ todo = {}
    /\ affected # {}
    /\ draft' = [m \in Matches |-> IF m \in affected \ {cur} THEN work[m] ELSE draft[m]]
    /\ affected' = {}
    /\ UNCHANGED <<rows, job, cur, draftScores, snap, work, todo, passes>>

EndRequest ==
    /\ job' = "idle" /\ cur' = None
    /\ draft' = NoSheets /\ draftScores' = Unplayed
    /\ snap' = NoSheets /\ work' = NoSheets
    /\ affected' = {} /\ todo' = {} /\ passes' = {}

(* Leaving the transaction's block commits what it wrote ... *)
Commit ==
    /\ job # "idle"
    /\ todo = {} /\ affected = {} /\ passes = {}
    /\ inputs' = draft
    /\ scores' = draftScores
    /\ UNCHANGED live
    /\ EndRequest

(* ... unless an exception or a lost connection rolls it back. *)
Rollback ==
    /\ job # "idle"
    /\ UNCHANGED rows
    /\ EndRequest

(* The stage of the stage item is deactivated: its scores are cleared. *)
ClearScores ==
    /\ job = "idle"
    /\ scores' = Unplayed
    /\ UNCHANGED <<inputs, live, job, cur, draft, draftScores, loop>>

(* DELETE rounds/{r}: its matches go with it, and feed nothing any more. *)
DeleteRound(r) ==
    LET gone == {m \in live : RoundOf[m] = r} IN
    /\ job = "idle"
    /\ gone # {}
    /\ live' = live \ gone
    /\ inputs' = [m \in Matches |-> IF m \in gone THEN EmptySheet ELSE inputs[m]]
    /\ scores' = [m \in Matches |-> IF m \in gone THEN NoScore ELSE scores[m]]
    /\ UNCHANGED <<job, cur, draft, draftScores, loop>>

Next ==
    \/ \E x \in Edited, s \in Scores : StartScore(x, s)
    \/ StartComplete
    \/ StartPass
    \/ Visit
    \/ WriteUpdates
    \/ Commit
    \/ Rollback
    \/ ClearScores
    \/ \E r \in LiveRounds : DeleteRound(r)

Spec == Init /\ [][Next]_vars

----------------------------------------------------------------------------

Promise == INSTANCE BracketPromise WITH inputs <- inputs, scores <- scores, live <- live

(* The loop over the later rounds, with its copies and its set of affected  *)
(* matches, does in the end exactly what BracketPromise says of entering a  *)
(* score, and a complete update or a rollback changes nothing               *)
(* (get_inputs_to_update_in_subsequent_elimination_rounds).                 *)
KeepsPromise == Promise!Spec

(* A side fed by a decided match shows the winner of that match, after any  *)
(* sequence of corrections, clearings and deletions (update_match_by_id,    *)
(* clear_scores_for_matches_in_stage_item, delete_round).                   *)
DecidedAdvances == WinnersAdvanced(inputs, scores, live)

(* A complete update writes every row and leaves the bracket as it was: it  *)
(* repairs nothing, since each pass puts back the round it starts from as   *)
(* the snapshot had it (update_inputs_in_complete_elimination_stage_item).  *)
CompleteUpdateChangesNothing == [][job = "complete" => UNCHANGED rows]_vars

(* Entering or correcting a score, a complete update or deleting a round    *)
(* never leaves an input in a side whose feeder is undecided; clearing the  *)
(* scores is the only step that does.                                       *)
RequestsKeepFollowing ==
    [][SidesFollowFeeders(inputs, scores, live) =>
          \/ SidesFollowFeeders(inputs, scores, live)'
          \/ ClearScores]_vars

(* An input plays at most one match of a round, and never itself, whatever  *)
(* stale sides earlier steps left behind (sql_set_input_ids_for_match       *)
(* writes both sides of a match without looking at the rest of the round).  *)
OneMatchPerRound ==
    \A m, o \in live, k, l \in Sides :
        (RoundOf[m] = RoundOf[o] /\ inputs[m][k] # None /\ inputs[m][k] = inputs[o][l])
            => (m = o /\ k = l)
=============================================================================
