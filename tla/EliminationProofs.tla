------------------------- MODULE EliminationProofs -------------------------
(***************************************************************************)
(* Proofs about Elimination, for every tree of matches in which a match is *)
(* fed from earlier rounds, every set of scores and every set of edited    *)
(* matches.                                                                *)
(***************************************************************************)
EXTENDS Elimination, BracketTreeProofs

----------------------------------------------------------------------------
(* Operators on sheets. *)

(* A match that still exists feeds only matches of later rounds. *)
LEMMA FedByType ==
    ASSUME NEW m \in Matches, NEW k \in Sides, NEW alive \in SUBSET Matches,
           FedBy(alive, m, k) # None
    PROVE  /\ FedBy(alive, m, k) \in alive
           /\ FedBy(alive, m, k) \in Matches
           /\ RoundOf[FedBy(alive, m, k)] < RoundOf[m]
  <1>1. FedBy(alive, m, k) = Feeder[m][k] /\ Feeder[m][k] \in alive
    BY DEF FedBy
  <1>2. Feeder[m][k] # None
    BY <1>1
  <1>3. RoundOf[Feeder[m][k]] < RoundOf[m]
    BY <1>2, TreeIs
  <1> QED BY <1>1, <1>3

----------------------------------------------------------------------------
(* Type correctness. *)

(* What the loop computes for a match are two sides. *)
LEMMA UpdatedSheetType ==
    ASSUME TypeOK, NEW m \in Matches
    PROVE  UpdatedSheet(m) \in Sheet
  <1>1. \A k \in Sides : snap[m][k] \in Entrants \cup {None}
    BY DEF TypeOK, Sheet
  <1>2. \A f \in Matches : Winner(work[f], draftScores[f]) \in Entrants \cup {None}
    BY WinnerType DEF TypeOK
  <1>3. \A k \in Sides : FedBy(live, m, k) # None => FedBy(live, m, k) \in Matches
    BY FedByType DEF TypeOK
  <1> QED BY <1>1, <1>2, <1>3 DEF UpdatedSheet, Sheet

(* What the loop's variables hold between requests. *)
LEMMA RestTypes ==
    /\ NoSheets \in [Matches -> Sheet]
    /\ Unplayed \in [Matches -> Scores]
  BY EmptySheetType, TreeIs DEF NoSheets, Unplayed

(* The bracket as it is built has its type ... *)
LEMMA TypeInit == Init => TypeOK
  BY RestTypes, TreeIs DEF Init, TypeOK

(* ... and every action keeps it. *)
LEMMA TypeNext == TypeOK /\ [Next]_vars => TypeOK'
  <1> SUFFICES ASSUME TypeOK, [Next]_vars PROVE TypeOK'
    OBVIOUS
  <1> USE DEF TypeOK
  <1>1. ASSUME NEW x \in Edited, NEW s \in Scores, StartScore(x, s) PROVE TypeOK'
    BY <1>1, EditedAssumption DEF StartScore, rows, Subsequent
  <1>2. CASE StartComplete
    BY <1>2, TreeIs DEF StartComplete, rows, LiveRounds
  <1>3. CASE StartPass
    BY <1>3 DEF StartPass, rows, Subsequent
  <1>4. CASE Visit
    <2>1. PICK m \in todo :
             /\ work' = [work EXCEPT ![m] = UpdatedSheet(m)]
             /\ affected' = IF UpdatedSheet(m) # snap[m] THEN affected \cup {m} ELSE affected
             /\ todo' = todo \ {m}
      BY <1>4 DEF Visit
    <2>2. UpdatedSheet(m) \in Sheet
      BY UpdatedSheetType
    <2> QED BY <1>4, <2>1, <2>2 DEF Visit, rows
  <1>5. CASE WriteUpdates
    BY <1>5 DEF WriteUpdates, rows
  <1>6. CASE Commit
    BY <1>6, RestTypes DEF Commit, EndRequest
  <1>7. CASE Rollback
    BY <1>7, RestTypes DEF Rollback, EndRequest, rows
  <1>8. CASE ClearScores
    BY <1>8, RestTypes DEF ClearScores, loop
  <1>9. ASSUME NEW r \in LiveRounds, DeleteRound(r) PROVE TypeOK'
    BY <1>9, EmptySheetType, TreeIs DEF DeleteRound, loop
  <1>10. CASE UNCHANGED vars
    BY <1>10 DEF vars, rows, loop
  <1> QED
    BY <1>1, <1>2, <1>3, <1>4, <1>5, <1>6, <1>7, <1>8, <1>9, <1>10 DEF Next

(* Every variable of a stage item's bracket and of the request that changes *)
(* it keeps its type; in particular no column ever gets an id that is not   *)
(* that of an input (sql_set_input_ids_for_match).                          *)
THEOREM TypeCorrect == Spec => []TypeOK
  BY TypeInit, TypeNext, PTL DEF Spec

----------------------------------------------------------------------------
(* The loop of a score entry.  The matches visited so far are those of the  *)
(* later rounds not left in todo.                                           *)

Visited == Subsequent(RoundOf[cur]) \ todo

(* A visited match shows what its feeders' copies imply; an affected match  *)
(* is the one scored or one whose copy differs from the snapshot; and no    *)
(* visited match is of a later round than one still to be visited, so the   *)
(* copies of its feeders do not change any more.                            *)
LoopInv ==
    /\ draft = inputs
    /\ todo \subseteq Subsequent(RoundOf[cur])
    /\ \A m \in Matches : m \notin Visited => work[m] = snap[m]
    /\ \A m \in Matches : m \in affected <=> (m = cur \/ work[m] # snap[m])
    /\ \A m \in Visited : work[m] = UpdatedSheet(m)
    /\ \A m \in Visited, o \in todo : RoundOf[m] <= RoundOf[o]

(* Once written, the sides are what the promise says of them. *)
WrittenInv ==
    /\ todo = {}
    /\ Promise!Advances(cur, inputs, draft, draftScores)
    /\ \A m \in Matches \ live : draft[m] = inputs[m]

ScoreInv ==
    /\ cur \in live
    /\ passes = {}
    /\ snap = inputs
    /\ \A m \in Matches \ {cur} : draftScores[m] = scores[m]
    /\ affected # {} => LoopInv
    /\ affected = {} => WrittenInv

(* A complete update leaves what the snapshot shows in every round it is    *)
(* done with: a side written differently belongs to a round whose pass is   *)
(* still to come, or to the round whose pass is about to put it back.       *)
CompleteInv ==
    /\ cur = None
    /\ snap = inputs
    /\ draftScores = scores
    /\ \A r \in passes, m \in live : r <= RoundOf[m] => RoundOf[m] \in passes
    /\ affected \subseteq live
    /\ \A m \in todo : m \in live /\ RoundOf[m] \in passes
    /\ \A m \in Matches : work[m] # snap[m] => RoundOf[m] \in passes
    /\ \A m \in Matches :
          draft[m] # snap[m] => m \in live /\ (RoundOf[m] \in passes \/ m \in affected)

IInv ==
    /\ TypeOK
    /\ job = "score" => ScoreInv
    /\ job = "complete" => CompleteInv

(* No request runs at first. *)
LEMMA InvInit == Init => IInv
  BY TypeInit DEF Init, IInv

(* One iteration of the loop. *)
LEMMA VisitKeepsLoop ==
    ASSUME TypeOK, cur \in Matches, LoopInv, Visit
    PROVE  LoopInv' /\ affected' # {}
  <1>1. PICK m \in todo :
           /\ \A o \in todo : Precedes(m, o)
           /\ work' = [work EXCEPT ![m] = UpdatedSheet(m)]
           /\ affected' = IF UpdatedSheet(m) # snap[m] THEN affected \cup {m} ELSE affected
           /\ todo' = todo \ {m}
    BY DEF Visit
  <1>2. /\ UNCHANGED <<inputs, scores, live, job, cur, draft, draftScores, snap, passes>>
        /\ m \in Matches /\ m \in live /\ RoundOf[m] > RoundOf[cur] /\ m # cur
    <2>1. m \in live /\ RoundOf[m] > RoundOf[cur]
      BY <1>1 DEF LoopInv, Subsequent
    <2>2. m \in Matches /\ RoundOf[m] \in Nat /\ RoundOf[cur] \in Nat
      BY <2>1, TreeIs DEF TypeOK
    <2>3. m # cur
      BY <2>1, <2>2
    <2> QED BY <2>1, <2>2, <2>3 DEF Visit, rows
  <1>3. m \notin Visited /\ Visited' = Visited \cup {m}
    BY <1>1, <1>2 DEF Visited, Subsequent, LoopInv
  <1>4. work[m] = snap[m] /\ m \notin affected
    BY <1>2, <1>3 DEF LoopInv
  <1>5. \A n \in Matches \ {m} : work'[n] = work[n]
    BY <1>1, <1>2 DEF TypeOK
  <1>6. work'[m] = UpdatedSheet(m)
    BY <1>1, <1>2 DEF TypeOK
  <1>7. \A n \in Matches : n # m => (n \in affected' <=> n \in affected)
    BY <1>1
  (* The feeders of a match visited by now are of earlier rounds than m, so *)
  (* the iteration does not touch them.                                     *)
  <1>8. ASSUME NEW n \in Visited', NEW k \in Sides, FedBy(live, n, k) # None
        PROVE  FedBy(live, n, k) \in Matches /\ FedBy(live, n, k) # m
    <2>1. n \in Matches /\ RoundOf[n] <= RoundOf[m]
      <3>1. CASE n = m
        BY <1>2, <3>1, TreeIs
      <3>2. CASE n \in Visited
        <4>1. n \in Matches
          BY <3>2 DEF Visited, Subsequent, TypeOK
        <4> QED BY <1>1, <3>2, <4>1 DEF LoopInv
      <3> QED BY <1>3, <3>1, <3>2
    <2>2. FedBy(live, n, k) \in Matches /\ RoundOf[FedBy(live, n, k)] < RoundOf[n]
      BY <1>8, <2>1, FedByType DEF TypeOK
    <2> QED BY <1>2, <2>1, <2>2, TreeIs
  <1>9. \A n \in Visited' : UpdatedSheet(n)' = UpdatedSheet(n)
    <2> SUFFICES ASSUME NEW n \in Visited'
                 PROVE  UpdatedSheet(n)' = UpdatedSheet(n)
      OBVIOUS
    <2>1. \A k \in Sides : FedBy(live, n, k) # None =>
             /\ (FedBy(live, n, k) \in affected' <=> FedBy(live, n, k) \in affected)
             /\ work'[FedBy(live, n, k)] = work[FedBy(live, n, k)]
      BY <1>5, <1>7, <1>8
    <2> QED BY <1>2, <2>1 DEF UpdatedSheet, FedBy
  <1>10. \A n \in Visited' : work'[n] = UpdatedSheet(n)'
    <2>1. Visited \subseteq Matches
      BY DEF Visited, Subsequent, TypeOK
    <2> QED BY <1>3, <1>5, <1>6, <1>9, <2>1 DEF LoopInv
  <1>11. \A n \in Matches : n \notin Visited' => work'[n] = snap'[n]
    BY <1>2, <1>3, <1>5 DEF LoopInv
  <1>12. \A n \in Matches : n \in affected' <=> (n = cur' \/ work'[n] # snap'[n])
    <2>1. \A n \in Matches \ {m} : n \in affected' <=> (n = cur' \/ work'[n] # snap'[n])
      BY <1>2, <1>5, <1>7 DEF LoopInv
    <2>2. m \in affected' <=> work'[m] # snap'[m]
      BY <1>1, <1>2, <1>4, <1>6
    <2> QED BY <1>2, <2>1, <2>2
  <1>13. \A n \in Visited', o \in todo' : RoundOf[n] <= RoundOf[o]
    <2>1. \A o \in todo : o \in Matches /\ RoundOf[o] \in Nat
      BY TreeIs DEF LoopInv, Subsequent, TypeOK
    <2>2. \A o \in todo : RoundOf[m] <= RoundOf[o]
      BY <1>1, <1>2, <2>1, TreeIs DEF Precedes
    <2> QED BY <1>1, <1>3, <2>2 DEF LoopInv
  <1>14. draft' = inputs' /\ todo' \subseteq Subsequent(RoundOf[cur])'
    BY <1>1, <1>2 DEF LoopInv, Subsequent
  <1>15. affected' # {}
    BY <1>2, <1>12
  <1> QED BY <1>10, <1>11, <1>12, <1>13, <1>14, <1>15 DEF LoopInv

(* When every later match has been visited, writing the affected copies     *)
(* gives the bracket the promise asks for.                                  *)
LEMMA WriteKeepsPromise ==
    ASSUME TypeOK, job = "score", ScoreInv, WriteUpdates
    PROVE  ScoreInv'
  <1> DEFINE later == Subsequent(RoundOf[cur])
  <1>1. LoopInv /\ todo = {} /\ cur \in Matches /\ cur \in live
    BY DEF WriteUpdates, ScoreInv, TypeOK
  <1>2. /\ UNCHANGED <<inputs, scores, live, job, cur, draftScores, snap, work, todo, passes>>
        /\ affected' = {}
        /\ draft' = [m \in Matches |-> IF m \in affected \ {cur} THEN work[m] ELSE draft[m]]
    BY DEF WriteUpdates, rows
  <1>3. Visited = later
    BY <1>1 DEF Visited
  <1>4. cur \notin later /\ later \subseteq live
    BY <1>1, TreeIs DEF Subsequent
  <1>5. snap = inputs /\ draft = inputs
    BY <1>1 DEF ScoreInv, LoopInv
  <1>6. \A m \in Matches : draft'[m] = work[m]
    BY <1>1, <1>2, <1>3, <1>4, <1>5 DEF LoopInv
  <1>7. \A m \in Matches : m \notin later => draft'[m] = inputs[m]
    BY <1>1, <1>3, <1>5, <1>6 DEF LoopInv
  <1>8. ASSUME NEW m \in live, NEW k \in Sides
        PROVE  draft'[m][k] =
                 (LET f == FedBy(live, m, k) IN
                  IF f # None /\ (f = cur \/ draft'[f] # inputs[f])
                  THEN Winner(draft'[f], draftScores[f]) ELSE inputs[m][k])
    <2> DEFINE f == FedBy(live, m, k)
    <2>1. m \in Matches
      BY DEF TypeOK
    <2>2. CASE m \in later
      <3>1. work[m] = UpdatedSheet(m)
        BY <1>1, <1>3, <2>2 DEF LoopInv
      <3>2. draft'[m][k] = IF f # None /\ f \in affected THEN Winner(work[f], draftScores[f])
                                                       ELSE snap[m][k]
        BY <1>6, <2>1, <3>1 DEF UpdatedSheet
      <3>3. f # None => f \in Matches
        BY <2>1, FedByType DEF TypeOK
      <3>4. f # None => (f \in affected <=> (f = cur \/ draft'[f] # inputs[f]))
        BY <1>1, <1>5, <1>6, <3>3 DEF LoopInv
      <3> QED BY <1>5, <1>6, <3>2, <3>3, <3>4
    <2>3. CASE m \notin later
      <3>1. draft'[m][k] = inputs[m][k]
        BY <1>7, <2>1, <2>3
      <3>2. f # None => f # cur /\ f \notin later
        <4> SUFFICES ASSUME f # None PROVE f # cur /\ f \notin later
          OBVIOUS
        <4>1. f \in Matches /\ RoundOf[f] < RoundOf[m]
          BY <2>1, FedByType DEF TypeOK
        <4>2. ~(RoundOf[m] > RoundOf[cur])
          BY <2>3 DEF Subsequent
        <4> QED BY <1>1, <2>1, <4>1, <4>2, TreeIs DEF Subsequent
      <3>3. f # None => draft'[f] = inputs[f]
        BY <1>7, <2>1, <3>2, FedByType DEF TypeOK
      <3> QED BY <3>1, <3>2, <3>3
    <2> QED BY <2>2, <2>3
  <1>9. Promise!Advances(cur, inputs, draft, draftScores)'
    BY <1>2, <1>8 DEF Promise!Advances, Promise!FedBy, Promise!Winner, Promise!Sides,
                      Promise!None, FedBy, Winner, Sides, None
  <1>10. \A m \in Matches \ live : draft'[m] = inputs[m]
    BY <1>4, <1>7
  <1> QED BY <1>1, <1>2, <1>9, <1>10 DEF ScoreInv, WrittenInv

(* Reading the stage item establishes the loop's invariant. *)
LEMMA StartScoreInv ==
    ASSUME TypeOK, NEW x \in Edited, NEW s \in Scores, StartScore(x, s)
    PROVE  ScoreInv'
  <1>1. /\ UNCHANGED <<inputs, scores, live>>
        /\ cur' = x /\ x \in live /\ x \in Matches
        /\ draft' = inputs /\ snap' = inputs /\ work' = inputs
        /\ draftScores' = [scores EXCEPT ![x] = s]
        /\ affected' = {x} /\ todo' = Subsequent(RoundOf[x]) /\ passes' = {}
    BY EditedAssumption DEF StartScore, rows
  <1>2. Subsequent(RoundOf[cur])' = todo'
    BY <1>1 DEF Subsequent
  <1>3. Visited' = {}
    BY <1>2 DEF Visited
  <1>4. LoopInv'
    BY <1>1, <1>2, <1>3 DEF LoopInv
  <1>5. \A m \in Matches \ {cur'} : draftScores'[m] = scores'[m]
    BY <1>1 DEF TypeOK
  <1> QED BY <1>1, <1>4, <1>5 DEF ScoreInv

(* Every step of a score entry that does not end it keeps its invariant. *)
LEMMA ScoreNext ==
    ASSUME TypeOK, IInv, job = "score", job' = "score", [Next]_vars
    PROVE  ScoreInv'
  <1>1. ScoreInv
    BY DEF IInv
  <1>2. CASE Visit
    <2>1. affected # {}
      BY <1>1, <1>2 DEF Visit, ScoreInv, WrittenInv
    <2>2. LoopInv' /\ affected' # {}
      BY <1>1, <1>2, <2>1, VisitKeepsLoop DEF ScoreInv, TypeOK
    <2> QED BY <1>1, <1>2, <2>2 DEF Visit, ScoreInv, rows
  <1>3. CASE WriteUpdates
    BY <1>1, <1>3, WriteKeepsPromise
  <1>4. CASE UNCHANGED vars
    <2>1. /\ UNCHANGED <<inputs, scores, live, job, cur, draft, draftScores>>
          /\ UNCHANGED <<snap, work, affected, todo, passes>>
      BY <1>4 DEF vars, rows, loop
    <2>2. LoopInv => LoopInv'
      BY <2>1 DEF LoopInv, Visited, Subsequent, UpdatedSheet, FedBy
    <2>3. WrittenInv => WrittenInv'
      BY <2>1 DEF WrittenInv, Promise!Advances
    <2> QED BY <1>1, <2>1, <2>2, <2>3 DEF ScoreInv
  <1>5. ~StartComplete /\ ~StartPass /\ ~Commit /\ ~Rollback /\ ~ClearScores
    BY DEF StartComplete, StartPass, Commit, Rollback, EndRequest, ClearScores
  <1>6. \A x \in Edited, s \in Scores : ~StartScore(x, s)
    BY DEF StartScore
  <1>7. \A r \in LiveRounds : ~DeleteRound(r)
    BY DEF DeleteRound
  <1> QED BY <1>2, <1>3, <1>4, <1>5, <1>6, <1>7 DEF Next

(* A complete update starts with all passes to come and nothing written. *)
LEMMA StartCompleteInv ==
    ASSUME TypeOK, StartComplete
    PROVE  CompleteInv'
  BY DEF StartComplete, CompleteInv, rows, LiveRounds

(* The next pass is that of the earliest round left. *)
LEMMA StartPassInv ==
    ASSUME TypeOK, CompleteInv, StartPass
    PROVE  CompleteInv'
  <1>1. PICK r \in passes :
           /\ \A q \in passes : r <= q
           /\ affected' = {m \in live : RoundOf[m] = r}
           /\ todo' = Subsequent(r)
           /\ passes' = passes \ {r}
    BY DEF StartPass
  <1>2. /\ UNCHANGED <<inputs, scores, live, cur, draft, draftScores, snap>>
        /\ affected = {} /\ work' = snap
    BY DEF StartPass, rows
  <1>3. r \in Nat /\ \A q \in passes' : q \in Nat /\ q > r
    BY <1>1 DEF TypeOK
  <1>4. \A m \in live : m \in Matches /\ RoundOf[m] \in Nat
    BY TreeIs DEF TypeOK
  <1>5. \A q \in passes', m \in live' : q <= RoundOf[m] => RoundOf[m] \in passes'
    BY <1>1, <1>2, <1>3, <1>4 DEF CompleteInv
  <1>6. \A m \in todo' : m \in live' /\ RoundOf[m] \in passes'
    BY <1>1, <1>2, <1>3, <1>4 DEF CompleteInv, Subsequent
  <1>7. \A m \in Matches : draft'[m] # snap'[m] =>
            m \in live' /\ (RoundOf[m] \in passes' \/ m \in affected')
    BY <1>1, <1>2 DEF CompleteInv
  <1> QED BY <1>1, <1>2, <1>5, <1>6, <1>7 DEF CompleteInv

(* An iteration changes copies of later rounds only, whose passes come. *)
LEMMA VisitKeepsComplete ==
    ASSUME TypeOK, CompleteInv, Visit
    PROVE  CompleteInv'
  <1>1. PICK m \in todo :
           /\ work' = [work EXCEPT ![m] = UpdatedSheet(m)]
           /\ affected' = IF UpdatedSheet(m) # snap[m] THEN affected \cup {m} ELSE affected
           /\ todo' = todo \ {m}
    BY DEF Visit
  <1>2. UNCHANGED <<inputs, scores, live, cur, draft, draftScores, snap, passes>>
    BY DEF Visit, rows
  <1>3. m \in live /\ RoundOf[m] \in passes
    BY DEF CompleteInv
  <1>4. \A n \in Matches \ {m} : work'[n] = work[n]
    BY <1>1 DEF TypeOK
  <1>5. \A n \in Matches : work'[n] # snap'[n] => RoundOf[n] \in passes'
    BY <1>2, <1>3, <1>4 DEF CompleteInv
  <1> QED BY <1>1, <1>2, <1>3, <1>5 DEF CompleteInv

(* Writing puts the round of the pass back as the snapshot has it. *)
LEMMA WriteKeepsComplete ==
    ASSUME TypeOK, CompleteInv, WriteUpdates
    PROVE  CompleteInv'
  <1>1. /\ UNCHANGED <<inputs, scores, live, cur, draftScores, snap, work, todo, passes>>
        /\ affected' = {}
        /\ draft' = [m \in Matches |-> IF m \in affected \ {cur} THEN work[m] ELSE draft[m]]
    BY DEF WriteUpdates, rows
  <1>2. ASSUME NEW m \in Matches, draft'[m] # snap[m]
        PROVE  m \in live /\ RoundOf[m] \in passes
    <2>1. CASE m \in affected \ {cur}
      BY <1>1, <1>2, <2>1 DEF CompleteInv
    <2>2. CASE m \notin affected \ {cur}
      <3>1. m \notin affected
        BY <2>2, TreeIs DEF CompleteInv
      <3> QED BY <1>1, <1>2, <2>2, <3>1 DEF CompleteInv
    <2> QED BY <2>1, <2>2
  <1> QED BY <1>1, <1>2 DEF CompleteInv

(* Every step of a complete update that does not end it keeps its         *)
(* invariant.                                                              *)
LEMMA CompleteNext ==
    ASSUME TypeOK, IInv, job = "complete", job' = "complete", [Next]_vars
    PROVE  CompleteInv'
  <1>1. CompleteInv
    BY DEF IInv
  <1>2. CASE StartPass
    BY <1>1, <1>2, StartPassInv
  <1>3. CASE Visit
    BY <1>1, <1>3, VisitKeepsComplete
  <1>4. CASE WriteUpdates
    BY <1>1, <1>4, WriteKeepsComplete
  <1>5. CASE UNCHANGED vars
    BY <1>1, <1>5 DEF vars, rows, loop, CompleteInv
  <1>6. ~StartComplete /\ ~Commit /\ ~Rollback /\ ~ClearScores
    BY DEF StartComplete, Commit, Rollback, EndRequest, ClearScores
  <1>7. \A x \in Edited, s \in Scores : ~StartScore(x, s)
    BY DEF StartScore
  <1>8. \A r \in LiveRounds : ~DeleteRound(r)
    BY DEF DeleteRound
  <1> QED BY <1>2, <1>3, <1>4, <1>5, <1>6, <1>7, <1>8 DEF Next

(* Every action keeps the inductive invariant. *)
LEMMA InvNext == IInv /\ [Next]_vars => IInv'
  <1> SUFFICES ASSUME IInv, [Next]_vars PROVE IInv'
    OBVIOUS
  <1>1. TypeOK /\ TypeOK'
    BY TypeNext DEF IInv
  <1>2. ASSUME job' = "score" PROVE ScoreInv'
    <2>1. CASE job = "score"
      BY <1>1, <1>2, <2>1, ScoreNext
    <2>2. CASE job # "score"
      <3>1. \E x \in Edited, s \in Scores : StartScore(x, s)
        BY <1>2, <2>2 DEF Next, StartComplete, StartPass, Visit, WriteUpdates, Commit,
                          Rollback, EndRequest, ClearScores, DeleteRound, vars
      <3> QED BY <1>1, <3>1, StartScoreInv
    <2> QED BY <2>1, <2>2
  <1>3. ASSUME job' = "complete" PROVE CompleteInv'
    <2>1. CASE job = "complete"
      BY <1>1, <1>3, <2>1, CompleteNext
    <2>2. CASE job # "complete"
      <3>1. StartComplete
        BY <1>3, <2>2 DEF Next, StartScore, StartPass, Visit, WriteUpdates, Commit,
                          Rollback, EndRequest, ClearScores, DeleteRound, vars
      <3> QED BY <1>1, <3>1, StartCompleteInv
    <2> QED BY <2>1, <2>2
  <1> QED BY <1>1, <1>2, <1>3 DEF IInv

(* In every state, a running score entry has copied and affected exactly    *)
(* what the tree asks for, and a running complete update owes nothing but   *)
(* the rounds whose passes are still to come (LoopInv, WrittenInv and       *)
(* CompleteInv hold inside                                                  *)
(* get_inputs_to_update_in_subsequent_elimination_rounds and                *)
(* update_inputs_in_complete_elimination_stage_item).                       *)
THEOREM Invariant == Spec => []IInv
  BY InvInit, InvNext, PTL DEF Spec

----------------------------------------------------------------------------
(* What a committed request does to the bracket. *)

(* A score entry commits what the promise says of it. *)
LEMMA CommitScore ==
    ASSUME IInv, job = "score", Commit
    PROVE  Promise!EnterScore(cur, draftScores[cur])
  <1>1. /\ cur \in live /\ WrittenInv
        /\ \A m \in Matches \ {cur} : draftScores[m] = scores[m]
        /\ inputs' = draft /\ scores' = draftScores /\ live' = live
    BY DEF IInv, ScoreInv, Commit
  <1>2. scores' = [scores EXCEPT ![cur] = draftScores[cur]]
    BY <1>1 DEF IInv, TypeOK
  <1>3. inputs' \in [Matches -> Promise!Sheet]
    BY <1>1 DEF IInv, TypeOK, Sheet, Sides, None, Promise!Sheet, Promise!Sides, Promise!None
  <1>4. Promise!Advances(cur, inputs, inputs', scores')
    BY <1>1 DEF WrittenInv
  <1>5. \A m \in Matches \ live : inputs'[m] = inputs[m]
    BY <1>1 DEF WrittenInv
  <1> QED BY <1>1, <1>2, <1>3, <1>4, <1>5 DEF Promise!EnterScore

(* A complete update commits what it read. *)
LEMMA CommitComplete ==
    ASSUME IInv, job = "complete", Commit
    PROVE  UNCHANGED rows
  <1>1. /\ affected = {} /\ passes = {}
        /\ inputs' = draft /\ scores' = draftScores /\ live' = live
    BY DEF Commit
  <1>2. CompleteInv
    BY DEF IInv
  <1>3. \A m \in Matches : draft[m] = inputs[m]
    BY <1>1, <1>2 DEF CompleteInv
  <1>4. draft = inputs
    BY <1>3 DEF IInv, TypeOK
  <1> QED BY <1>1, <1>2, <1>4 DEF CompleteInv, rows

(* A step of the code is the promise's step for the request that commits, a *)
(* clearing, a deletion, or no step at all.                                 *)
LEMMA StepSimulation ==
    ASSUME IInv, [Next]_vars
    PROVE  \/ /\ Commit /\ job = "score" /\ cur \in Matches
              /\ draftScores[cur] \in Scores
              /\ Promise!EnterScore(cur, draftScores[cur])
           \/ ClearScores /\ Promise!ClearScores
           \/ \E r \in LiveRounds : Promise!DeleteRound(r) /\ DeleteRound(r)
           \/ UNCHANGED rows
  <1>1. CASE \E x \in Edited, s \in Scores : StartScore(x, s)
    BY <1>1 DEF StartScore
  <1>2. CASE StartComplete \/ StartPass \/ Visit \/ WriteUpdates \/ Rollback
    BY <1>2 DEF StartComplete, StartPass, Visit, WriteUpdates, Rollback
  <1>3. CASE Commit
    <2>1. CASE job = "score"
      <3>1. cur \in Matches /\ draftScores[cur] \in Scores
        BY <2>1 DEF IInv, ScoreInv, TypeOK
      <3> QED BY <1>3, <2>1, <3>1, CommitScore
    <2>2. CASE job = "complete"
      BY <1>3, <2>2, CommitComplete
    <2> QED BY <1>3, <2>1, <2>2 DEF Commit, IInv, TypeOK
  <1>4. CASE ClearScores
    BY <1>4 DEF ClearScores, Unplayed, NoScore, Promise!ClearScores, Promise!NoScore
  <1>5. ASSUME NEW r \in LiveRounds, DeleteRound(r)
        PROVE  Promise!DeleteRound(r)
    BY <1>5 DEF DeleteRound, EmptySheet, NoScore, Sides, None, Promise!DeleteRound,
                Promise!EmptySheet, Promise!NoScore, Promise!Sides, Promise!None
  <1>6. CASE UNCHANGED vars
    BY <1>6 DEF vars
  <1> QED BY <1>1, <1>2, <1>3, <1>4, <1>5, <1>6 DEF Next

(* The loop of get_inputs_to_update_in_subsequent_elimination_rounds, with  *)
(* its copies and its set of affected matches, implements what              *)
(* BracketPromise says of entering a score, for every tree.                 *)
THEOREM Implements == Spec => KeepsPromise
  <1>1. Init => Promise!Init
    BY DEF Init, Unplayed, NoScore, Promise!Init, Promise!NoScore
  <1>2. IInv /\ [Next]_vars => [Promise!Next]_Promise!vars
    <2> SUFFICES ASSUME IInv, [Next]_vars PROVE [Promise!Next]_Promise!vars
      OBVIOUS
    <2>1. CASE \E x \in Matches, s \in Scores : Promise!EnterScore(x, s)
      BY <2>1 DEF Promise!Next
    <2>2. CASE Promise!ClearScores
      BY <2>2 DEF Promise!Next
    <2>3. CASE \E r \in LiveRounds : Promise!DeleteRound(r)
      BY <2>3 DEF Promise!Next, LiveRounds
    <2>4. CASE UNCHANGED rows
      BY <2>4 DEF rows, Promise!vars
    <2> QED BY <2>1, <2>2, <2>3, <2>4, StepSimulation
  <1> QED BY <1>1, <1>2, Invariant, PTL DEF Spec, KeepsPromise, Promise!Spec

----------------------------------------------------------------------------
(* What a reader of the bracket can rely on. *)

(* Entering a score keeps any bracket consistent in the sense that follows, *)
(* at every side whose feeder had to be shown before (When).                *)
LEMMA EnterScoreAdvances ==
    ASSUME IInv, NEW x \in Matches, NEW s \in Scores, Promise!EnterScore(x, s),
           NEW m \in live, NEW k \in Sides,
           LET f == FedBy(live, m, k) IN
              /\ f # None
              /\ (f # x /\ scores'[f] = scores[f]) => inputs[m][k] = Winner(inputs[f], scores[f])
    PROVE  LET f == FedBy(live, m, k) IN inputs'[m][k] = Winner(inputs'[f], scores'[f])
  <1> DEFINE f == FedBy(live, m, k)
  <1>1. m \in Matches /\ f \in Matches /\ f # None
    BY FedByType DEF IInv, TypeOK
  <1>2. inputs'[m][k] = IF f = x \/ inputs'[f] # inputs[f]
                        THEN Winner(inputs'[f], scores'[f])
                        ELSE inputs[m][k]
    BY <1>1 DEF Promise!EnterScore, Promise!Advances, Promise!FedBy, Promise!Winner,
                Promise!Sides, Promise!None, FedBy, Winner, Sides, None
  <1>3. CASE f = x \/ inputs'[f] # inputs[f]
    BY <1>2, <1>3
  <1>4. CASE f # x /\ inputs'[f] = inputs[f]
    <2>1. scores'[f] = scores[f]
      BY <1>1, <1>4 DEF Promise!EnterScore, IInv, TypeOK
    <2> QED BY <1>2, <1>4, <2>1
  <1> QED BY <1>3, <1>4

(* What feeds a match that stays when a round is deleted. *)
LEMMA DeleteRoundFeeds ==
    ASSUME IInv, NEW r \in LiveRounds, DeleteRound(r),
           NEW m \in live', NEW k \in Sides, FedBy(live', m, k) # None
    PROVE  LET f == FedBy(live', m, k) IN
           /\ m \in live /\ f = FedBy(live, m, k) /\ f \in live'
           /\ inputs'[m] = inputs[m] /\ inputs'[f] = inputs[f] /\ scores'[f] = scores[f]
  <1>1. m \in live /\ m \in Matches /\ live' \subseteq live
    BY DEF DeleteRound, IInv, TypeOK
  <1>2. FedBy(live', m, k) = Feeder[m][k] /\ Feeder[m][k] \in live'
    BY DEF FedBy
  <1>3. FedBy(live, m, k) = Feeder[m][k] /\ Feeder[m][k] \in Matches
    BY <1>1, <1>2 DEF FedBy, IInv, TypeOK
  <1>4. \A n \in live' : n \in Matches => inputs'[n] = inputs[n] /\ scores'[n] = scores[n]
    BY DEF DeleteRound
  <1> QED BY <1>1, <1>2, <1>3, <1>4

(* A side fed by a decided match shows its winner, in every state of every  *)
(* elimination stage item (update_match_by_id, delete_round and the         *)
(* clearing of scores).                                                     *)
THEOREM WinnersAreAdvanced == Spec => []DecidedAdvances
  <1>1. Init => DecidedAdvances
    BY TreeIs DEF Init, DecidedAdvances, WinnersAdvanced, FedBy, Unplayed, Decided, NoScore
  <1>2. DecidedAdvances /\ IInv /\ [Next]_vars => DecidedAdvances'
    <2> SUFFICES ASSUME DecidedAdvances, IInv, [Next]_vars PROVE DecidedAdvances'
      OBVIOUS
    <2>1. ASSUME NEW x \in Matches, NEW s \in Scores, Promise!EnterScore(x, s)
          PROVE  DecidedAdvances'
      <3>1. live' = live
        BY <2>1 DEF Promise!EnterScore
      <3>2. ASSUME NEW m \in live, NEW k \in Sides, FedBy(live, m, k) # None,
                   Decided(scores'[FedBy(live, m, k)])
            PROVE  inputs'[m][k] =
                     Winner(inputs'[FedBy(live, m, k)], scores'[FedBy(live, m, k)])
        <4>1. scores'[FedBy(live, m, k)] = scores[FedBy(live, m, k)] =>
                inputs[m][k] = Winner(inputs[FedBy(live, m, k)], scores[FedBy(live, m, k)])
          BY <3>2 DEF DecidedAdvances, WinnersAdvanced
        <4> QED BY <2>1, <3>2, <4>1, EnterScoreAdvances
      <3> QED BY <3>1, <3>2 DEF DecidedAdvances, WinnersAdvanced
    <2>2. CASE ClearScores
      BY <2>2, FedByType DEF ClearScores, DecidedAdvances, WinnersAdvanced, Unplayed, Decided,
                             NoScore, IInv, TypeOK
    <2>3. ASSUME NEW r \in LiveRounds, DeleteRound(r) PROVE DecidedAdvances'
      BY <2>3, DeleteRoundFeeds DEF DecidedAdvances, WinnersAdvanced
    <2>4. CASE UNCHANGED rows
      BY <2>4 DEF rows, DecidedAdvances, WinnersAdvanced, FedBy
    <2> QED BY <2>1, <2>2, <2>3, <2>4, StepSimulation
  <1> QED BY <1>1, <1>2, Invariant, PTL DEF Spec

(* No request leaves an input in a side whose feeder is undecided: only     *)
(* clearing the scores of a deactivated stage does.                         *)
THEOREM OnlyClearingLeavesInputs == Spec => RequestsKeepFollowing
  <1>1. IInv /\ [Next]_vars =>
          [SidesFollowFeeders(inputs, scores, live) =>
             \/ SidesFollowFeeders(inputs, scores, live)'
             \/ ClearScores]_vars
    <2> DEFINE Follows == SidesFollowFeeders(inputs, scores, live)
    <2> SUFFICES ASSUME IInv, [Next]_vars, Follows, ~ClearScores PROVE Follows'
      BY Zenon
    <2>1. ASSUME NEW x \in Matches, NEW s \in Scores, Promise!EnterScore(x, s)
          PROVE  Follows'
      <3>1. live' = live
        BY <2>1 DEF Promise!EnterScore
      <3>2. ASSUME NEW m \in live, NEW k \in Sides, FedBy(live, m, k) # None
            PROVE  inputs'[m][k] =
                     Winner(inputs'[FedBy(live, m, k)], scores'[FedBy(live, m, k)])
        <4>1. inputs[m][k] = Winner(inputs[FedBy(live, m, k)], scores[FedBy(live, m, k)])
          BY <3>2 DEF SidesFollowFeeders
        <4> QED BY <2>1, <3>2, <4>1, EnterScoreAdvances
      <3> QED BY <3>1, <3>2 DEF SidesFollowFeeders
    <2>2. ASSUME NEW r \in LiveRounds, DeleteRound(r) PROVE Follows'
      BY <2>2, DeleteRoundFeeds DEF SidesFollowFeeders
    <2>3. CASE UNCHANGED rows
      BY <2>3 DEF rows, SidesFollowFeeders, FedBy
    <2> QED BY <2>1, <2>2, <2>3, StepSimulation
  <1> QED BY <1>1, Invariant, PTL DEF Spec, RequestsKeepFollowing

(* A complete update commits the rows it found: it cannot repair a bracket. *)
THEOREM CompleteUpdateIsNoOp == Spec => CompleteUpdateChangesNothing
  <1>1. IInv /\ [Next]_vars => [job = "complete" => UNCHANGED rows]_vars
    <2> SUFFICES ASSUME IInv, [Next]_vars, job = "complete" PROVE UNCHANGED rows
      OBVIOUS
    <2>1. CASE Commit
      BY <2>1, CommitComplete
    <2>2. CASE ~Commit
      BY <2>2 DEF Next, StartScore, StartComplete, StartPass, Visit, WriteUpdates, Rollback,
                  ClearScores, DeleteRound, vars
    <2> QED BY <2>1, <2>2
  <1> QED BY <1>1, Invariant, PTL DEF Spec, CompleteUpdateChangesNothing

----------------------------------------------------------------------------
(* Where inputs are.                                                        *)

(* Every side of the rows and of the request's copies of them, stale or     *)
(* not, shows an input that can get there.                                  *)
AllPlaced ==
    /\ TypeOK
    /\ Placed(inputs)
    /\ Placed(draft)
    /\ Placed(snap)
    /\ Placed(work)

(* The loop moves the winner of a match to the side it feeds and leaves the *)
(* other sides as they were read.                                           *)
LEMMA UpdatedSheetPlaced ==
    ASSUME AllPlaced, NEW m \in Matches, NEW k \in Sides, UpdatedSheet(m)[k] # None
    PROVE  <<m, k>> \in Places(UpdatedSheet(m)[k])
  <1> DEFINE f == FedBy(live, m, k)
  <1>1. CASE f # None /\ f \in affected
    <2>1. UpdatedSheet(m)[k] = Winner(work[f], draftScores[f])
      BY <1>1 DEF UpdatedSheet
    <2>2. work \in [Matches -> Sheet] /\ live \in SUBSET Matches
      BY DEF AllPlaced, TypeOK
    <2> QED BY <1>1, <2>1, <2>2, WinnerPlaced DEF AllPlaced
  <1>2. CASE ~(f # None /\ f \in affected)
    <2>1. UpdatedSheet(m)[k] = snap[m][k]
      BY <1>2 DEF UpdatedSheet
    <2> QED BY <2>1 DEF AllPlaced, Placed
  <1> QED BY <1>1, <1>2

(* An empty bracket has nothing in a wrong place. *)
LEMMA NoSheetsPlaced == Placed(NoSheets)
  BY DEF Placed, NoSheets, EmptySheet

(* No step puts an input where it cannot get to.                            *)
LEMMA PlacedNext == AllPlaced /\ [Next]_vars => AllPlaced'
  <1> SUFFICES ASSUME AllPlaced, [Next]_vars PROVE AllPlaced'
    OBVIOUS
  <1>0. TypeOK' /\ TypeOK
    BY TypeNext DEF AllPlaced
  <1>1. ASSUME NEW x \in Edited, NEW s \in Scores, StartScore(x, s) PROVE AllPlaced'
    BY <1>0, <1>1 DEF StartScore, rows, AllPlaced
  <1>2. CASE StartComplete
    BY <1>0, <1>2 DEF StartComplete, rows, AllPlaced
  <1>3. CASE StartPass
    BY <1>0, <1>3 DEF StartPass, rows, AllPlaced
  <1>4. CASE Visit
    <2>1. PICK m \in todo : work' = [work EXCEPT ![m] = UpdatedSheet(m)]
      BY <1>4 DEF Visit
    <2>2. ASSUME NEW n \in Matches, NEW k \in Sides, work'[n][k] # None
          PROVE  <<n, k>> \in Places(work'[n][k])
      <3>1. CASE n = m
        <4>1. work'[n] = UpdatedSheet(n)
          BY <1>0, <2>1, <3>1 DEF TypeOK
        <4> QED BY <2>2, <4>1, UpdatedSheetPlaced
      <3>2. CASE n # m
        BY <1>0, <2>1, <2>2, <3>2 DEF TypeOK, AllPlaced, Placed
      <3> QED BY <3>1, <3>2
    <2>3. Placed(work')
      BY <2>2 DEF Placed
    <2> QED BY <1>0, <1>4, <2>3 DEF Visit, rows, AllPlaced
  <1>5. CASE WriteUpdates
    <2>1. Placed(draft')
      BY <1>5 DEF WriteUpdates, AllPlaced, Placed
    <2> QED BY <1>0, <1>5, <2>1 DEF WriteUpdates, rows, AllPlaced
  <1>6. CASE Commit
    BY <1>0, <1>6, NoSheetsPlaced DEF Commit, EndRequest, AllPlaced
  <1>7. CASE Rollback
    BY <1>0, <1>7, NoSheetsPlaced DEF Rollback, EndRequest, rows, AllPlaced
  <1>8. CASE ClearScores
    BY <1>0, <1>8 DEF ClearScores, loop, AllPlaced
  <1>9. ASSUME NEW r \in LiveRounds, DeleteRound(r) PROVE AllPlaced'
    <2>1. Placed(inputs')
      BY <1>9 DEF DeleteRound, AllPlaced, Placed, EmptySheet
    <2> QED BY <1>0, <1>9, <2>1 DEF DeleteRound, loop, AllPlaced
  <1>10. CASE UNCHANGED vars
    BY <1>0, <1>10 DEF vars, rows, loop, AllPlaced
  <1> QED
    BY <1>1, <1>2, <1>3, <1>4, <1>5, <1>6, <1>7, <1>8, <1>9, <1>10 DEF Next

(* No sequence of corrections, clearings and deletions makes an input play  *)
(* two matches of a round or meet itself, although the sides of a row are   *)
(* written without a look at the rest of the round: a stale side still      *)
(* shows an input that could get there (sql_set_input_ids_for_match).       *)
THEOREM NobodyPlaysTwice == Spec => []OneMatchPerRound
  <1>1. Init => AllPlaced
    BY TypeInit, SeedPlaced, NoSheetsPlaced DEF Init, AllPlaced
  <1>2. AllPlaced => OneMatchPerRound
    BY PlacedOncePerRound DEF AllPlaced, TypeOK, OneMatchPerRound
  <1> QED BY <1>1, <1>2, PlacedNext, PTL DEF Spec
=============================================================================
