--------------------------- MODULE BracketRequests ---------------------------
(***************************************************************************)
(* Requests that change one elimination stage item at the same time.  Each *)
(* runs in a PostgreSQL transaction at the default isolation level, READ   *)
(* COMMITTED: a statement sees the rows committed when it starts and the   *)
(* transaction's own writes, an UPDATE locks its rows until the end of the *)
(* transaction and waits for a row that another transaction has locked.    *)
(*                                                                         *)
(* A request reads the stage item once and computes from that copy all     *)
(* that it writes later: the statistics of the inputs and the sides of the *)
(* matches.  What it computes is taken from BracketPromise (a score entry) *)
(* and from the proof that a complete update writes what it read; here it  *)
(* is the order of the reads, writes, locks and commits that matters.      *)
(* Every input of the stage item has its team, as in a stage that was      *)
(* activated: statistics are kept, and their rows locked, only for those.  *)
(*                                                                         *)
(* Bound: each request slot runs one request.  The requests start from any *)
(* bracket that score entries alone can produce.                           *)
(***************************************************************************)
EXTENDS BracketTree, Relation

CONSTANTS
    Requests,   \* the requests that may run at the same time
    Edited      \* bound: the matches for which scores are entered

ASSUME EditedAssumption == Edited \subseteq Matches

VARIABLES
    inputs,     \* committed: the sides of each match
    scores,     \* committed: the score of each match
    stats,      \* committed: the results that the inputs' statistics add up
    pc,         \* where each request is
    what,       \* what each request was asked to do
    queue,      \* the rows it still has to update, the first in order next
    held,       \* the rows it has locked
    seen,       \* the results in the copy of the stage item it read
    plan,       \* the sides it writes
    outdated    \* the requests whose copy is older than some commit

db == <<inputs, scores, stats>>
vars == <<db, pc, what, queue, held, seen, plan, outdated>>

----------------------------------------------------------------------------
(* Rows and locks. *)

MatchRow(m) == <<"match", m>>
StatsRows == <<"stats", 0>>   \* the inputs of the stage item, updated by slot
NameRow == <<"name", 0>>      \* the stage item itself
Rows == {MatchRow(m) : m \in Matches} \cup {StatsRows, NameRow}

(* The order of the updates: a complete update names the stage item first,  *)
(* the statistics are written before any side, and the matches in the order *)
(* of their rounds and ids.                                                 *)
Before(m, o) == RoundOf[m] < RoundOf[o] \/ (RoundOf[m] = RoundOf[o] /\ m < o)

Earlier(a, b) ==
    \/ a = NameRow /\ b # NameRow
    \/ a = StatsRows /\ b \notin {NameRow, StatsRows}
    \/ \E m, o \in Matches : a = MatchRow(m) /\ b = MatchRow(o) /\ Before(m, o)

(* The row that a request updates next; none if there is nothing to update. *)
NextRow(r) == {row \in queue[r] : \A o \in queue[r] : ~Earlier(o, row)}

Free(row, r) == \A q \in Requests \ {r} : row \notin held[q]

WaitsFor(r, q) == r # q /\ NextRow(r) \cap held[q] # {}

(* Seeded fault: no deadlock is ever detected. *)
NeverDeadlocked(r) == FALSE

(* r waits, through others, for itself. *)
InDeadlock(r) ==
    TransitiveClosure([a, b \in Requests |-> WaitsFor(a, b)], Requests)[r, r]

----------------------------------------------------------------------------
(* What a request computes from the copy it read. *)

(* The bracket in which every decided match, and nothing else, is passed on *)
Filled(sc) ==
    LET sides[m \in Matches] ==
            [k \in Sides |-> IF Feeder[m][k] = None THEN Seed[m][k]
                             ELSE Winner(sides[Feeder[m][k]], sc[Feeder[m][k]])]
    IN  sides

(* Seeded fault: the two sides are those of the first feeder. *)
AdvancedFirstFeeder(x, in, sc) ==
    LET sides[m \in Matches] ==
            [k \in Sides |->
                LET f == Feeder[m][CHOOSE l \in Sides : \A o \in Sides : l <= o] IN
                IF f # None /\ (f = x \/ sides[f] # in[f]) THEN Winner(sides[f], sc[f])
                                                           ELSE in[m][k]]
    IN  sides

(* Seeded fault: a match that is no longer decided leaves its winner where  *)
(* it is.                                                                   *)
AdvancedKeptOnTie(x, in, sc) ==
    LET sides[m \in Matches] ==
            [k \in Sides |->
                LET f == Feeder[m][k] IN
                IF f # None /\ (f = x \/ sides[f] # in[f]) /\ Winner(sides[f], sc[f]) # None
                THEN Winner(sides[f], sc[f]) ELSE in[m][k]]
    IN  sides

(* The bracket in, once the score of x is known to be sc[x]. *)
Advanced(x, in, sc) ==
    LET sides[m \in Matches] ==
            [k \in Sides |->
                LET f == Feeder[m][k] IN
                IF f # None /\ (f = x \/ sides[f] # in[f]) THEN Winner(sides[f], sc[f])
                                                           ELSE in[m][k]]
    IN  sides

(* Seeded fault: every match is written, as without the match_id argument. *)
ChangedAll(in1, in2) == Matches

Changed(in1, in2) == {m \in Matches : in1[m] # in2[m]}

(* What the statistics count: the matches that have both sides and a score. *)
Result(sheet, score) == [sides |-> sheet, score |-> score]
NoResult == Result(EmptySheet, NoScore)
NoResults == [m \in Matches |-> NoResult]

Results(in, sc) ==
    [m \in Matches |->
        IF sc[m] # NoScore /\ \A k \in Sides : in[m][k] # None THEN Result(in[m], sc[m])
                                                              ELSE NoResult]

Score(x, s) == [kind |-> "score", match |-> x, score |-> s]
Complete == [kind |-> "complete", match |-> None, score |-> NoScore]
Jobs == {Score(x, s) : x \in Edited, s \in Scores} \cup {Complete}

NoPlan == [m \in {} |-> EmptySheet]

TypeOK ==
    /\ inputs \in [Matches -> Sheet]
    /\ scores \in [Matches -> Scores]
    /\ stats \in [Matches -> [sides : Sheet, score : Scores]]
    /\ pc \in [Requests -> {"idle", "enter", "read", "write", "done", "aborted"}]
    /\ what \in [Requests -> Jobs]
    /\ queue \in [Requests -> SUBSET Rows]
    /\ held \in [Requests -> SUBSET Rows]
    /\ seen \in [Requests -> [Matches -> [sides : Sheet, score : Scores]]]
    /\ plan \in [Requests -> UNION {[written -> Sheet] : written \in SUBSET Matches}]
    /\ outdated \in SUBSET Requests

Init ==
    /\ scores \in [Matches -> Scores]
    /\ inputs = Filled(scores)
    /\ stats = Results(inputs, scores)
    /\ pc = [r \in Requests |-> "idle"]
    /\ what = [r \in Requests |-> Complete]
    /\ queue = [r \in Requests |-> {}]
    /\ held = [r \in Requests |-> {}]
    /\ seen = [r \in Requests |-> NoResults]
    /\ plan = [r \in Requests |-> NoPlan]
    /\ outdated = {}

----------------------------------------------------------------------------

(* A score entry updates the match's row first; a complete update has read  *)
(* the stage item, in a dependency, before it writes anything.              *)
Begin(r) ==
    /\ pc[r] = "idle"
    /\ \E job \in Jobs :
          /\ what' = [what EXCEPT ![r] = job]
          /\ IF job.kind = "score"
             THEN /\ pc' = [pc EXCEPT ![r] = "enter"]
                  /\ queue' = [queue EXCEPT ![r] = {MatchRow(job.match)}]
             ELSE /\ pc' = [pc EXCEPT ![r] = "read"]
                  /\ UNCHANGED queue
    /\ UNCHANGED <<db, held, seen, plan, outdated>>

(* An UPDATE of the next row, once no other transaction has it locked. *)
UpdateRow(r) ==
    /\ pc[r] \in {"enter", "write"}
    /\ \E row \in NextRow(r) :
          /\ Free(row, r)
          /\ held' = [held EXCEPT ![r] = @ \cup {row}]
          /\ queue' = [queue EXCEPT ![r] = @ \ {row}]
    /\ pc' = IF pc[r] = "enter" THEN [pc EXCEPT ![r] = "read"] ELSE pc
    /\ UNCHANGED <<db, what, seen, plan, outdated>>

(* The scores as the request's transaction sees them. *)
OwnScores(r) ==
    IF what[r].kind = "score" THEN [scores EXCEPT ![what[r].match] = what[r].score]
                              ELSE scores

(* The stage item is read; what will be written is settled here. *)
ReadStageItem(r) ==
    /\ pc[r] = "read"
    /\ seen' = [seen EXCEPT ![r] = Results(inputs, OwnScores(r))]
    /\ LET x     == what[r].match
           sides == Advanced(x, inputs, OwnScores(r))
           dirty == Changed(inputs, sides)
       IN  IF what[r].kind = "score"
           THEN /\ plan' = [plan EXCEPT ![r] = [m \in dirty |-> sides[m]]]
                /\ queue' = [queue EXCEPT ![r] = {StatsRows} \cup {MatchRow(m) : m \in dirty}]
           ELSE /\ plan' = [plan EXCEPT ![r] = inputs]
                /\ queue' = [queue EXCEPT ![r] = Rows]
    /\ pc' = [pc EXCEPT ![r] = "write"]
    /\ UNCHANGED <<db, what, held, outdated>>

End(r, how) ==
    /\ pc' = [pc EXCEPT ![r] = how]
    /\ held' = [held EXCEPT ![r] = {}]
    /\ queue' = [queue EXCEPT ![r] = {}]
    /\ seen' = [seen EXCEPT ![r] = NoResults]
    /\ plan' = [plan EXCEPT ![r] = NoPlan]
    /\ UNCHANGED what

(* Everything the request wrote is committed together, before its response  *)
(* is sent.  An UPDATE sets some columns of a row and keeps the others.     *)
Commit(r) ==
    /\ pc[r] = "write"
    /\ queue[r] = {}
    /\ inputs' = [m \in Matches |-> IF m \in DOMAIN plan[r] THEN plan[r][m] ELSE inputs[m]]
    /\ scores' = OwnScores(r)
    /\ stats' = seen[r]
    /\ outdated' = (outdated \cup {q \in Requests : pc[q] = "write"}) \ {r}
    /\ End(r, "done")

(* The client goes away, the connection is lost or an exception is raised:  *)
(* the transaction is rolled back.                                          *)
Fail(r) ==
    /\ pc[r] \in {"enter", "read", "write"}
    /\ outdated' = outdated \ {r}
    /\ UNCHANGED db
    /\ End(r, "aborted")

(* PostgreSQL detects the deadlock and cancels one of the transactions. *)
CancelDeadlocked(r) ==
    /\ InDeadlock(r)
    /\ outdated' = outdated \ {r}
    /\ UNCHANGED db
    /\ End(r, "aborted")

AllEnded == \A r \in Requests : pc[r] \in {"done", "aborted"}

Step(r) == UpdateRow(r) \/ ReadStageItem(r) \/ Commit(r)

Next ==
    \/ \E r \in Requests : Begin(r)
    \/ \E r \in Requests : Step(r)
    \/ \E r \in Requests : Fail(r)
    \/ \E r \in Requests : CancelDeadlocked(r)
    \/ AllEnded /\ UNCHANGED vars

(* The server runs a request it has started until it waits for a lock, a    *)
(* freed lock is granted, and the deadlock detector runs.  Nothing makes a  *)
(* client send a request or a request fail.                                 *)
Fairness ==
    /\ \A r \in Requests : WF_vars(Step(r))
    /\ WF_vars(\E r \in Requests : CancelDeadlocked(r))

Spec == Init /\ [][Next]_vars /\ Fairness

----------------------------------------------------------------------------

(* A request whose copy of the stage item is still current when it commits  *)
(* keeps sides following their feeders and leaves the statistics with every *)
(* score, between the sides that played before winners were passed on: a    *)
(* copy that went out of date is all that can go wrong with them            *)
(* (update_match_by_id reads the stage item before it waits for the locks   *)
(* on the inputs' statistics).                                              *)
CurrentCopyKeepsConsistent ==
    [][\A r \in Requests :
          (Commit(r) /\ r \notin outdated) =>
              /\ stats' = Results(inputs, scores')
              /\ SidesFollowFeeders(inputs, scores, Matches)
                    => SidesFollowFeeders(inputs', scores', Matches)]_vars

(* Of the requests that enter scores for matches of the same round one does *)
(* not wait for any other, so that they never wait for each other in a      *)
(* circle: the statistics, written before any side, let one of them finish  *)
(* first (recalculate_ranking_for_stage_item precedes                       *)
(* update_inputs_in_subsequent_elimination_rounds).                         *)
SameRoundNoDeadlock ==
    \A R \in (SUBSET Requests) \ {{}} :
        (\A r, q \in R : /\ what[r].kind = "score"
                         /\ RoundOf[what[r].match] = RoundOf[what[q].match])
            => \E r \in R : \A q \in R : ~WaitsFor(r, q)

(* No interleaving makes an input play two matches of a round, even where   *)
(* the writes of an out-of-date copy undo those of another request.         *)
OneMatchPerRound ==
    \A m, o \in Matches, k, l \in Sides :
        (RoundOf[m] = RoundOf[o] /\ inputs[m][k] # None /\ inputs[m][k] = inputs[o][l])
            => (m = o /\ k = l)

(* A request that started ends, committed or rolled back, even when several *)
(* wait for each other's rows.                                              *)
EveryRequestEnds ==
    \A r \in Requests : pc[r] # "idle" ~> pc[r] \in {"done", "aborted"}

(* "entering a winner for a match will influence matches of subsequent      *)
(* rounds": when no request is running, a side fed by a decided match shows *)
(* its winner.                                                              *)
QuietDecidedAdvances ==
    (\A r \in Requests : pc[r] \in {"idle", "done", "aborted"})
        => WinnersAdvanced(inputs, scores, Matches)
=============================================================================
