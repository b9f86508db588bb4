----------------------- MODULE BracketRequestsProofs -----------------------
(***************************************************************************)
(* Proofs about BracketRequests, for every tree of matches, every number   *)
(* of requests and every interleaving of their reads, updates and commits. *)
(* The invariant has a part for each thing a request relies on: the locks  *)
(* it holds, the copy it read and where in the bracket inputs can get to.  *)
(***************************************************************************)
EXTENDS BracketRequests, BracketTreeProofs

(* The sides of a match of the bracket that a score entry has worked out. *)
Worked(r) == Advanced(what[r].match, inputs, OwnScores(r))

Entering(r) == what[r].kind = "score"

(* The matches of the rounds after that of x. *)
LaterRows(x) == {MatchRow(m) : m \in {o \in Matches : RoundOf[x] < RoundOf[o]}}

(* A row is locked by one transaction at most. *)
ExclusiveInv == \A r, q \in Requests : r # q => held[r] \cap held[q] = {}

(* A request that is not running holds nothing and waits for nothing. *)
EndedInv ==
    \A r \in Requests : pc[r] \in {"idle", "done", "aborted"} => held[r] = {} /\ queue[r] = {}

(* A score entry locks its match, then the statistics, then sides of later  *)
(* rounds.                                                                  *)
OrderInv ==
    \A r \in Requests : Entering(r) =>
        LET own == MatchRow(what[r].match) IN
        /\ pc[r] = "enter" => held[r] = {} /\ queue[r] = {own}
        /\ pc[r] = "read" => held[r] = {own} /\ queue[r] = {}
        /\ pc[r] = "write" =>
              /\ queue[r] \subseteq {StatsRows} \cup LaterRows(what[r].match)
              /\ StatsRows \in queue[r] => held[r] = {own}
              /\ StatsRows \notin queue[r] => StatsRows \in held[r]

(* What a request with a current copy is going to write. *)
CopyInv ==
    \A r \in Requests : (pc[r] = "write" /\ r \notin outdated) =>
        /\ seen[r] = Results(inputs, OwnScores(r))
        /\ Entering(r) =>
              plan[r] = [m \in Changed(inputs, Worked(r)) |-> Worked(r)[m]]
        /\ ~Entering(r) => plan[r] = inputs

(* Committed and planned sides show inputs that can get there, however old  *)
(* the copy is that a plan was made from.                                   *)
PlanPlaced(p) ==
    \A m \in DOMAIN p, k \in Sides : p[m][k] # None => <<m, k>> \in Places(p[m][k])

PlacedInv == Placed(inputs) /\ \A r \in Requests : PlanPlaced(plan[r])

IInv ==
    /\ TypeOK
    /\ ExclusiveInv
    /\ EndedInv
    /\ OrderInv
    /\ CopyInv
    /\ PlacedInv

----------------------------------------------------------------------------
(* What is worked out from a copy of the bracket. *)

(* A score entry passes on the winner of x and of each match that changes.  *)
PassedOn(x, in, sc, out) ==
    \A m \in Matches, k \in Sides :
        LET f == Feeder[m][k] IN
        out[m][k] = IF f # None /\ (f = x \/ out[f] # in[f]) THEN Winner(out[f], sc[f])
                                                           ELSE in[m][k]

(* The recursion of Advanced, which goes down the feeders, has a solution,  *)
(* and so it is one.                                                        *)
LEMMA AdvancedIs ==
    ASSUME NEW x, NEW in \in [Matches -> Sheet], NEW sc
    PROVE  /\ Advanced(x, in, sc) \in [Matches -> Sheet]
           /\ PassedOn(x, in, sc, Advanced(x, in, sc))
<1> DEFINE Rule(m, k) ==
               [sheet \in Sheet |->
                  IF Feeder[m][k] = x \/ sheet # in[Feeder[m][k]]
                  THEN Winner(sheet, sc[Feeder[m][k]]) ELSE in[m][k]]
           rule == [m \in Matches |-> [k \in Sides |-> Rule(m, k)]]
           Side(s, m, k) ==
               IF Feeder[m][k] # None /\ (Feeder[m][k] = x \/ s[Feeder[m][k]] # in[Feeder[m][k]])
               THEN Winner(s[Feeder[m][k]], sc[Feeder[m][k]]) ELSE in[m][k]
           Equation(s) == s = [m \in Matches |-> [k \in Sides |-> Side(s, m, k)]]
<1>1. rule \in Rules
  <2>1. ASSUME NEW m \in Matches, NEW k \in Sides
        PROVE  Rule(m, k) \in [Sheet -> Entrants \cup {None}]
    <3>1. in[m][k] \in Entrants \cup {None}
      BY DEF Sheet
    <3>2. \A sheet \in Sheet : Winner(sheet, sc[Feeder[m][k]]) \in Entrants \cup {None}
      BY WinnerType
    <3> QED
      BY <3>1, <3>2
  <2> HIDE DEF Rule
  <2> QED
    BY <2>1 DEF Rules
<1>2. PICK s \in [Matches -> Sheet] : WorkedOut(s, in, rule, Matches)
  <2> HIDE DEF rule
  <2> QED
    BY <1>1, WorkedOutExists
<1>3. Equation(s)
  <2>1. ASSUME NEW m \in Matches, NEW k \in Sides
        PROVE  s[m][k] = Side(s, m, k)
    <3>1. CASE Feeder[m][k] = None
      BY <1>2, <3>1 DEF WorkedOut
    <3>2. CASE Feeder[m][k] # None
      <4>1. s[m][k] = rule[m][k][s[Feeder[m][k]]]
        BY <1>2, <3>2 DEF WorkedOut
      <4>2. s[Feeder[m][k]] \in Sheet
        BY <3>2, FeederIsEarlier
      <4>3. rule[m][k] = Rule(m, k)
        OBVIOUS
      <4> QED
        BY <3>2, <4>1, <4>2, <4>3
    <3> QED
      BY <3>1, <3>2
  <2> HIDE DEF Side
  <2>2. \A m \in Matches : s[m] = [k \in Sides |-> Side(s, m, k)]
    <3> SUFFICES ASSUME NEW m \in Matches
                 PROVE  s[m] = [k \in Sides |-> Side(s, m, k)]
      OBVIOUS
    <3>1. s[m] \in [Sides -> Entrants \cup {None}]
      BY DEF Sheet
    <3> QED
      BY <2>1, <3>1
  <2> QED
    BY <2>2
<1> DEFINE A == Advanced(x, in, sc)
<1>4. Equation(A)
  <2>1. A = CHOOSE t : Equation(t)
    BY DEF Advanced
  <2> HIDE DEF Equation, A
  <2> QED
    BY <1>3, <2>1
<1> HIDE DEF A
<1>5. \A m \in Matches, k \in Sides : A[m][k] = Side(A, m, k)
  <2> HIDE DEF Side
  <2> QED
    BY <1>4
<1>6. A \in [Matches -> Sheet]
  <2>1. \A m \in Matches, k \in Sides : in[m][k] \in Entrants \cup {None}
    BY DEF Sheet
  <2>2. ASSUME NEW m \in Matches, NEW k \in Sides
        PROVE  \/ A[m][k] \in Entrants \cup {None}
               \/ Feeder[m][k] # None /\ \E score : A[m][k] = Winner(A[Feeder[m][k]], score)
    <3>1. A[m][k] = Side(A, m, k)
      BY <1>5
    <3> QED
      BY <2>1, <3>1
  <2> HIDE DEF Side
  <2>3. A = [m \in Matches |-> [k \in Sides |-> A[m][k]]]
    BY <1>4
  <2> QED
    BY <2>2, <2>3, SheetsFromBelow
<1>7. PassedOn(x, in, sc, A)
  BY <1>5 DEF PassedOn
<1> QED
  BY <1>6, <1>7 DEF A

(* The bracket that a run starts from: seeds, and winners of feeders. *)
LEMMA FilledIs ==
    ASSUME NEW sc
    PROVE  /\ Filled(sc) \in [Matches -> Sheet]
           /\ \A m \in Matches, k \in Sides :
                 Filled(sc)[m][k] = IF Feeder[m][k] = None THEN Seed[m][k]
                                    ELSE Winner(Filled(sc)[Feeder[m][k]], sc[Feeder[m][k]])
<1> DEFINE Rule(m, k) == [sheet \in Sheet |-> Winner(sheet, sc[Feeder[m][k]])]
           rule == [m \in Matches |-> [k \in Sides |-> Rule(m, k)]]
           Side(s, m, k) == IF Feeder[m][k] = None THEN Seed[m][k]
                            ELSE Winner(s[Feeder[m][k]], sc[Feeder[m][k]])
           Equation(s) == s = [m \in Matches |-> [k \in Sides |-> Side(s, m, k)]]
<1>1. rule \in Rules
  <2>1. \A m \in Matches, k \in Sides : Rule(m, k) \in [Sheet -> Entrants \cup {None}]
    BY WinnerType
  <2> HIDE DEF Rule
  <2> QED
    BY <2>1 DEF Rules
<1>2. Seed \in [Matches -> Sheet]
  BY TreeIs
<1>3. PICK s \in [Matches -> Sheet] : WorkedOut(s, Seed, rule, Matches)
  <2> HIDE DEF rule
  <2> QED
    BY <1>1, <1>2, WorkedOutExists
<1>4. Equation(s)
  <2>1. ASSUME NEW m \in Matches, NEW k \in Sides
        PROVE  s[m][k] = Side(s, m, k)
    <3>1. CASE Feeder[m][k] = None
      BY <1>3, <3>1 DEF WorkedOut
    <3>2. CASE Feeder[m][k] # None
      <4>1. s[m][k] = Rule(m, k)[s[Feeder[m][k]]]
        BY <1>3, <3>2 DEF WorkedOut
      <4>2. s[Feeder[m][k]] \in Sheet
        BY <3>2, FeederIsEarlier
      <4> QED
        BY <3>2, <4>1, <4>2
    <3> QED
      BY <3>1, <3>2
  <2> HIDE DEF Side
  <2>2. \A m \in Matches : s[m] = [k \in Sides |-> Side(s, m, k)]
    <3> SUFFICES ASSUME NEW m \in Matches
                 PROVE  s[m] = [k \in Sides |-> Side(s, m, k)]
      OBVIOUS
    <3>1. s[m] \in [Sides -> Entrants \cup {None}]
      BY DEF Sheet
    <3> QED
      BY <2>1, <3>1
  <2> QED
    BY <2>2
<1> DEFINE F == Filled(sc)
<1>5. Equation(F)
  <2>1. F = CHOOSE t : Equation(t)
    BY DEF Filled
  <2> HIDE DEF Equation, F
  <2> QED
    BY <1>4, <2>1
<1> HIDE DEF F
<1>6. \A m \in Matches, k \in Sides : F[m][k] = Side(F, m, k)
  <2> HIDE DEF Side
  <2> QED
    BY <1>5
<1>7. F \in [Matches -> Sheet]
  <2>1. \A m \in Matches, k \in Sides : Seed[m][k] \in Entrants \cup {None}
    BY <1>2 DEF Sheet
  <2>2. \A m \in Matches, k \in Sides :
           \/ F[m][k] \in Entrants \cup {None}
           \/ Feeder[m][k] # None /\ \E score : F[m][k] = Winner(F[Feeder[m][k]], score)
    BY <1>6, <2>1
  <2> HIDE DEF Side
  <2>3. F = [m \in Matches |-> [k \in Sides |-> F[m][k]]]
    BY <1>5
  <2> QED
    BY <2>2, <2>3, SheetsFromBelow
<1> QED
  BY <1>6, <1>7 DEF F

(* Both leave every side with an input that can get there. *)
LEMMA FilledPlaced == \A sc : Placed(Filled(sc))
<1> SUFFICES ASSUME NEW sc
             PROVE  Placed(Filled(sc))
  OBVIOUS
<1> DEFINE F == Filled(sc)
<1>1. ASSUME NEW m \in Matches, NEW k \in Sides
      PROVE  \/ F[m][k] = None
             \/ <<m, k>> \in Places(F[m][k])
             \/ Feeder[m][k] # None /\ \E l \in Sides : F[m][k] = F[Feeder[m][k]][l]
  <2>1. CASE Feeder[m][k] = None
    <3>1. F[m][k] = Seed[m][k]
      BY <2>1, FilledIs
    <3>2. Seed[m][k] # None => <<m, k>> \in Places(Seed[m][k])
      BY SeedPlaced DEF Placed
    <3> QED
      BY <3>1, <3>2
  <2>2. CASE Feeder[m][k] # None
    <3>1. F[m][k] = Winner(F[Feeder[m][k]], sc[Feeder[m][k]])
      BY <2>2, FilledIs
    <3> HIDE DEF F
    <3> QED
      BY <2>2, <3>1 DEF Winner, Sides
  <2> QED
    BY <2>1, <2>2
<1> HIDE DEF F
<1>2. Placed(F)
  BY <1>1, PlacedFromBelow
<1> QED
  BY <1>2 DEF F

LEMMA AdvancedPlaced ==
    ASSUME NEW x, NEW in \in [Matches -> Sheet], Placed(in), NEW sc
    PROVE  Placed(Advanced(x, in, sc))
<1> DEFINE A == Advanced(x, in, sc)
<1>1. PassedOn(x, in, sc, A)
  BY AdvancedIs
<1> HIDE DEF A
<1>2. ASSUME NEW m \in Matches, NEW k \in Sides
      PROVE  \/ A[m][k] = None
             \/ <<m, k>> \in Places(A[m][k])
             \/ Feeder[m][k] # None /\ \E l \in Sides : A[m][k] = A[Feeder[m][k]][l]
  <2>1. \/ A[m][k] = in[m][k]
        \/ Feeder[m][k] # None /\ A[m][k] = Winner(A[Feeder[m][k]], sc[Feeder[m][k]])
    BY <1>1 DEF PassedOn
  <2>2. in[m][k] # None => <<m, k>> \in Places(in[m][k])
    BY DEF Placed
  <2>3. CASE A[m][k] = in[m][k]
    BY <2>2, <2>3
  <2>4. CASE Feeder[m][k] # None /\ A[m][k] = Winner(A[Feeder[m][k]], sc[Feeder[m][k]])
    BY <2>4 DEF Winner, Sides
  <2> QED
    BY <2>1, <2>3, <2>4
<1>3. Placed(A)
  BY <1>2, PlacedFromBelow
<1> QED
  BY <1>3 DEF A

----------------------------------------------------------------------------
(* The invariant. *)

ResultTable == [Matches -> [sides : Sheet, score : Scores]]

LEMMA ResultsType ==
    ASSUME NEW in \in [Matches -> Sheet], NEW sc \in [Matches -> Scores]
    PROVE  Results(in, sc) \in ResultTable
<1>1. NoResult \in [sides : Sheet, score : Scores]
  BY EmptySheetType, TreeIs DEF NoResult, Result
<1>2. \A m \in Matches : Result(in[m], sc[m]) \in [sides : Sheet, score : Scores]
  BY DEF Result
<1> QED
  BY <1>1, <1>2 DEF Results, ResultTable

(* What a request that is not running has in its slot. *)
LEMMA RestTypes ==
    /\ NoResults \in ResultTable
    /\ NoPlan \in [{} -> Sheet]
    /\ PlanPlaced(NoPlan)
<1>1. NoResult \in [sides : Sheet, score : Scores]
  BY EmptySheetType, TreeIs DEF NoResult, Result
<1>2. DOMAIN NoPlan = {}
  BY DEF NoPlan
<1>3. PlanPlaced(NoPlan)
  BY <1>2 DEF PlanPlaced
<1> QED
  BY <1>1, <1>3 DEF NoResults, NoPlan, ResultTable

(* What a request was asked to do. *)
LEMMA Asked ==
    ASSUME TypeOK, NEW r \in Requests
    PROVE  /\ what[r] \in Jobs
           /\ Entering(r) => what[r].match \in Matches /\ what[r].score \in Scores
           /\ OwnScores(r) \in [Matches -> Scores]
<1>1. what[r] \in Jobs
  BY DEF TypeOK
<1>2. Entering(r) => what[r].match \in Matches /\ what[r].score \in Scores
  BY <1>1, EditedAssumption DEF Jobs, Score, Complete, Entering
<1>3. OwnScores(r) \in [Matches -> Scores]
  BY <1>2 DEF OwnScores, Entering, TypeOK
<1> QED
  BY <1>1, <1>2, <1>3

LEMMA InitHolds == Init => IInv
<1> SUFFICES ASSUME Init
             PROVE  IInv
  OBVIOUS
<1>1. TypeOK
  <2>1. inputs \in [Matches -> Sheet] /\ scores \in [Matches -> Scores]
    BY FilledIs DEF Init
  <2>2. stats \in ResultTable
    BY <2>1, ResultsType DEF Init
  <2>3. seen \in [Requests -> ResultTable]
    BY RestTypes DEF Init
  <2>4. plan \in [Requests -> UNION {[written -> Sheet] : written \in SUBSET Matches}]
    <3>1. NoPlan \in UNION {[written -> Sheet] : written \in SUBSET Matches}
      BY RestTypes
    <3> QED
      BY <3>1 DEF Init
  <2>5. what \in [Requests -> Jobs]
    BY DEF Init, Jobs
  <2> QED
    BY <2>1, <2>2, <2>3, <2>4, <2>5 DEF Init, TypeOK, ResultTable
<1>2. ExclusiveInv /\ EndedInv
  BY DEF Init, ExclusiveInv, EndedInv
<1>3. OrderInv /\ CopyInv
  BY DEF Init, OrderInv, CopyInv, Entering, Complete
<1>4. PlacedInv
  BY FilledPlaced, RestTypes DEF Init, PlacedInv
<1> QED
  BY <1>1, <1>2, <1>3, <1>4 DEF IInv

(* A request is started. *)
LEMMA BeginKeeps ==
    ASSUME IInv, NEW p \in Requests, Begin(p)
    PROVE  IInv'
<1> USE DEF IInv
<1>1. PICK job \in Jobs :
        /\ what' = [what EXCEPT ![p] = job]
        /\ IF job.kind = "score"
           THEN /\ pc' = [pc EXCEPT ![p] = "enter"]
                /\ queue' = [queue EXCEPT ![p] = {MatchRow(job.match)}]
           ELSE /\ pc' = [pc EXCEPT ![p] = "read"]
                /\ UNCHANGED queue
  BY DEF Begin
<1>2. pc[p] = "idle" /\ UNCHANGED <<inputs, scores, stats, held, seen, plan, outdated>>
  BY DEF Begin, db
<1>3. held[p] = {} /\ queue[p] = {}
  BY <1>2 DEF EndedInv
<1>4. TypeOK'
  <2>1. job.kind = "score" => MatchRow(job.match) \in Rows
    BY EditedAssumption DEF Jobs, Score, Complete, Rows
  <2>2. queue' \in [Requests -> SUBSET Rows]
    <3>1. queue \in [Requests -> SUBSET Rows]
      BY DEF TypeOK
    <3>2. CASE job.kind = "score"
      BY <1>1, <2>1, <3>1, <3>2
    <3>3. CASE job.kind # "score"
      BY <1>1, <3>1, <3>3
    <3> QED
      BY <3>2, <3>3
  <2>3. /\ pc' \in [Requests -> {"idle", "enter", "read", "write", "done", "aborted"}]
        /\ what' \in [Requests -> Jobs]
    BY <1>1 DEF TypeOK
  <2> QED
    BY <1>2, <2>2, <2>3 DEF TypeOK
<1>5. ASSUME NEW r \in Requests, r # p
      PROVE  /\ pc'[r] = pc[r] /\ queue'[r] = queue[r] /\ what'[r] = what[r]
             /\ OwnScores(r)' = OwnScores(r)
  BY <1>1, <1>2, <1>5 DEF TypeOK, OwnScores
<1>6. ExclusiveInv'
  BY <1>2 DEF ExclusiveInv
<1>7. pc'[p] \in {"enter", "read"} /\ what'[p] = job
  BY <1>1 DEF TypeOK
<1>8. EndedInv'
  BY <1>2, <1>5, <1>7 DEF EndedInv
<1>9. OrderInv'
  <2> SUFFICES ASSUME NEW r \in Requests
               PROVE  (Entering(r) =>
                         LET own == MatchRow(what[r].match) IN
                         /\ pc[r] = "enter" => held[r] = {} /\ queue[r] = {own}
                         /\ pc[r] = "read" => held[r] = {own} /\ queue[r] = {}
                         /\ pc[r] = "write" =>
                               /\ queue[r] \subseteq {StatsRows} \cup LaterRows(what[r].match)
                               /\ StatsRows \in queue[r] => held[r] = {own}
                               /\ StatsRows \notin queue[r] => StatsRows \in held[r])'
    BY DEF OrderInv
  <2>1. CASE r # p
    BY <1>2, <1>5, <2>1 DEF OrderInv, Entering
  <2>2. CASE r = p
    BY <1>1, <1>2, <1>3, <1>7, <2>2 DEF Entering, TypeOK
  <2> QED
    BY <2>1, <2>2
<1>10. CopyInv'
  BY <1>2, <1>5, <1>7 DEF CopyInv, Entering, Worked
<1>11. PlacedInv'
  BY <1>2 DEF PlacedInv
<1> QED
  BY <1>4, <1>6, <1>8, <1>9, <1>10, <1>11

(* A request that has the statistics and sides of later rounds to update    *)
(* updates the statistics next.                                             *)
LEMMA StatsBeforeSides ==
    ASSUME NEW r \in Requests, NEW x, NEW row \in NextRow(r),
           queue[r] \subseteq {StatsRows} \cup LaterRows(x), StatsRows \in queue[r]
    PROVE  row = StatsRows
<1>1. row \in queue[r] /\ ~Earlier(StatsRows, row)
  BY DEF NextRow
<1>2. row \in {NameRow, StatsRows}
  BY <1>1 DEF Earlier
<1>3. NameRow \notin {StatsRows} \cup LaterRows(x)
  BY DEF NameRow, StatsRows, LaterRows, MatchRow
<1> QED
  BY <1>1, <1>2, <1>3

(* A row is updated and locked. *)
LEMMA UpdateRowKeeps ==
    ASSUME IInv, NEW p \in Requests, UpdateRow(p)
    PROVE  IInv'
<1> USE DEF IInv
<1>1. PICK row \in NextRow(p) :
        /\ Free(row, p)
        /\ held' = [held EXCEPT ![p] = @ \cup {row}]
        /\ queue' = [queue EXCEPT ![p] = @ \ {row}]
  BY DEF UpdateRow
<1>2. /\ pc[p] \in {"enter", "write"}
      /\ pc' = IF pc[p] = "enter" THEN [pc EXCEPT ![p] = "read"] ELSE pc
      /\ UNCHANGED <<inputs, scores, stats, what, seen, plan, outdated>>
  BY DEF UpdateRow, db
<1>3. row \in queue[p] /\ row \in Rows
  BY <1>1 DEF NextRow, TypeOK
<1>4. TypeOK'
  <2>1. held' \in [Requests -> SUBSET Rows] /\ queue' \in [Requests -> SUBSET Rows]
    BY <1>1, <1>3 DEF TypeOK
  <2>2. pc' \in [Requests -> {"idle", "enter", "read", "write", "done", "aborted"}]
    BY <1>2 DEF TypeOK
  <2> QED
    BY <1>2, <2>1, <2>2 DEF TypeOK
<1>5. ASSUME NEW r \in Requests, r # p
      PROVE  pc'[r] = pc[r] /\ queue'[r] = queue[r] /\ held'[r] = held[r]
  BY <1>1, <1>2, <1>5 DEF TypeOK
<1>6. /\ held'[p] = held[p] \cup {row} /\ queue'[p] = queue[p] \ {row}
      /\ pc'[p] = IF pc[p] = "enter" THEN "read" ELSE "write"
  BY <1>1, <1>2 DEF TypeOK
<1>7. ExclusiveInv'
  <2>1. \A q \in Requests \ {p} : row \notin held[q]
    BY <1>1 DEF Free
  <2> QED
    BY <1>5, <1>6, <2>1 DEF ExclusiveInv
<1>8. EndedInv'
  BY <1>5, <1>6 DEF EndedInv
<1>9. OrderInv'
  <2> SUFFICES ASSUME NEW r \in Requests, Entering(r)
               PROVE  (LET own == MatchRow(what[r].match) IN
                         /\ pc[r] = "enter" => held[r] = {} /\ queue[r] = {own}
                         /\ pc[r] = "read" => held[r] = {own} /\ queue[r] = {}
                         /\ pc[r] = "write" =>
                               /\ queue[r] \subseteq {StatsRows} \cup LaterRows(what[r].match)
                               /\ StatsRows \in queue[r] => held[r] = {own}
                               /\ StatsRows \notin queue[r] => StatsRows \in held[r])'
    BY <1>2 DEF OrderInv, Entering
  <2>1. CASE r # p
    BY <1>2, <1>5, <2>1 DEF OrderInv
  <2>2. CASE r = p /\ pc[p] = "enter"
    <3>1. held[p] = {} /\ queue[p] = {MatchRow(what[p].match)}
      BY <2>2 DEF OrderInv
    <3> QED
      BY <1>2, <1>3, <1>6, <2>2, <3>1
  <2>3. CASE r = p /\ pc[p] = "write"
    <3>1. /\ queue[p] \subseteq {StatsRows} \cup LaterRows(what[p].match)
          /\ StatsRows \notin queue[p] => StatsRows \in held[p]
      BY <2>3 DEF OrderInv
    <3>2. StatsRows \in queue[p] => row = StatsRows
      BY <1>1, <3>1, StatsBeforeSides
    <3> QED
      BY <1>2, <1>6, <2>3, <3>1, <3>2
  <2> QED
    BY <1>2, <2>1, <2>2, <2>3
<1>10. CopyInv'
  <2>1. ASSUME NEW r \in Requests, (pc[r] = "write" /\ r \notin outdated)'
        PROVE  pc[r] = "write" /\ r \notin outdated
    BY <1>2, <2>1 DEF TypeOK
  <2>2. \A r \in Requests : OwnScores(r)' = OwnScores(r) /\ Entering(r)' = Entering(r)
    BY <1>2 DEF OwnScores, Entering
  <2>3. \A r \in Requests : Worked(r)' = Worked(r)
    BY <1>2, <2>2 DEF Worked
  <2> QED
    BY <1>2, <2>1, <2>2, <2>3 DEF CopyInv
<1>11. PlacedInv'
  BY <1>2 DEF PlacedInv
<1> QED
  BY <1>4, <1>7, <1>8, <1>9, <1>10, <1>11

(* The end of a request: its slot is cleared. *)
LEMMA Ended ==
    ASSUME TypeOK, NEW p \in Requests, NEW how \in {"done", "aborted"}, End(p, how)
    PROVE  /\ UNCHANGED what
           /\ pc' \in [Requests -> {"idle", "enter", "read", "write", "done", "aborted"}]
           /\ queue' \in [Requests -> SUBSET Rows] /\ held' \in [Requests -> SUBSET Rows]
           /\ seen' \in [Requests -> ResultTable]
           /\ plan' \in [Requests -> UNION {[written -> Sheet] : written \in SUBSET Matches}]
           /\ pc'[p] = how /\ held'[p] = {} /\ queue'[p] = {} /\ plan'[p] = NoPlan
           /\ \A r \in Requests \ {p} :
                 /\ pc'[r] = pc[r] /\ held'[r] = held[r] /\ queue'[r] = queue[r]
                 /\ seen'[r] = seen[r] /\ plan'[r] = plan[r]
<1>1. NoPlan \in UNION {[written -> Sheet] : written \in SUBSET Matches}
  BY RestTypes
<1>2. plan' \in [Requests -> UNION {[written -> Sheet] : written \in SUBSET Matches}]
  BY <1>1 DEF End, TypeOK
<1>3. seen' \in [Requests -> ResultTable]
  BY RestTypes DEF End, TypeOK, ResultTable
<1> QED
  BY <1>2, <1>3 DEF End, TypeOK

(* ... which keeps what is said of locks and of the others' slots. *)
LEMMA EndKeeps ==
    ASSUME IInv, NEW p \in Requests, NEW how \in {"done", "aborted"}, End(p, how)
    PROVE  ExclusiveInv' /\ EndedInv' /\ OrderInv'
<1>1. TypeOK /\ ExclusiveInv /\ EndedInv /\ OrderInv
  BY DEF IInv
<1>2. /\ UNCHANGED what
      /\ pc'[p] = how /\ held'[p] = {} /\ queue'[p] = {}
      /\ \A r \in Requests \ {p} :
            pc'[r] = pc[r] /\ held'[r] = held[r] /\ queue'[r] = queue[r]
  BY <1>1, Ended
<1>3. ExclusiveInv'
  BY <1>1, <1>2 DEF ExclusiveInv
<1>4. EndedInv'
  BY <1>1, <1>2 DEF EndedInv
<1>5. OrderInv'
  BY <1>1, <1>2 DEF OrderInv, Entering
<1> QED
  BY <1>3, <1>4, <1>5

(* A request that is rolled back leaves what is committed as it is. *)
LEMMA RollbackKeeps ==
    ASSUME IInv, NEW p \in Requests, End(p, "aborted"),
           outdated' = outdated \ {p}, UNCHANGED db
    PROVE  IInv'
<1> USE DEF IInv
<1>1. UNCHANGED <<inputs, scores, stats>>
  BY DEF db
<1>2. TypeOK'
  BY <1>1, Ended DEF TypeOK, ResultTable
<1>3. ExclusiveInv' /\ EndedInv' /\ OrderInv'
  BY EndKeeps
<1>4. CopyInv'
  <2>1. \A r \in Requests : pc'[r] = "write" =>
           /\ r # p /\ pc[r] = "write" /\ seen'[r] = seen[r] /\ plan'[r] = plan[r]
    BY Ended
  <2>2. UNCHANGED what
    BY Ended
  <2>3. \A r \in Requests : OwnScores(r)' = OwnScores(r) /\ Entering(r)' = Entering(r)
    BY <1>1, <2>2 DEF OwnScores, Entering
  <2>4. \A r \in Requests : Worked(r)' = Worked(r)
    BY <1>1, <2>2, <2>3 DEF Worked
  <2> QED
    BY <1>1, <2>1, <2>3, <2>4 DEF CopyInv
<1>5. PlacedInv'
  BY <1>1, Ended, RestTypes DEF PlacedInv
<1> QED
  BY <1>2, <1>3, <1>4, <1>5

(* The sides that a score entry changes are of rounds after its match.      *)
LEMMA ChangedAreLater ==
    ASSUME NEW x \in Matches, NEW in \in [Matches -> Sheet], NEW sc,
           NEW m \in Changed(in, Advanced(x, in, sc))
    PROVE  RoundOf[x] < RoundOf[m]
<1> DEFINE A == Advanced(x, in, sc)
           Fails == {o \in Changed(in, A) : ~(RoundOf[x] < RoundOf[o])}
<1>1. A \in [Matches -> Sheet] /\ PassedOn(x, in, sc, A)
  BY AdvancedIs
<1> HIDE DEF A
<1>2. ASSUME NEW o \in Fails
      PROVE  \E e \in Fails : RoundOf[e] < RoundOf[o]
  <2>1. o \in Matches /\ A[o] # in[o] /\ ~(RoundOf[x] < RoundOf[o])
    BY DEF Changed
  <2>2. PICK k \in Sides : A[o][k] # in[o][k]
    <3>1. A[o] \in [Sides -> Entrants \cup {None}] /\ in[o] \in [Sides -> Entrants \cup {None}]
      BY <1>1, <2>1 DEF Sheet
    <3> QED
      BY <2>1, <3>1
  <2> DEFINE f == Feeder[o][k]
  <2>3. f # None /\ (f = x \/ A[f] # in[f])
    BY <1>1, <2>1, <2>2 DEF PassedOn
  <2>4. f \in Matches /\ RoundOf[f] < RoundOf[o]
    BY <2>1, <2>3, FeederIsEarlier
  <2> HIDE DEF f
  <2>5. f # x
    BY <2>1, <2>4
  <2>6. ~(RoundOf[x] < RoundOf[f])
    BY <2>1, <2>4, RoundsAreNat
  <2> QED
    BY <2>3, <2>4, <2>5, <2>6 DEF Changed
<1>3. Fails \in SUBSET Matches
  BY DEF Changed
<1>4. Fails = {}
  <2> HIDE DEF Fails
  <2> QED
    BY <1>2, <1>3, NoFirstFailure
<1> QED
  BY <1>4 DEF A

(* A request reads the stage item and settles what it will write. *)
LEMMA ReadStageItemKeeps ==
    ASSUME IInv, NEW p \in Requests, ReadStageItem(p)
    PROVE  IInv'
<1> USE DEF IInv
<1> DEFINE dirty == Changed(inputs, Worked(p))
           sides == [m \in dirty |-> Worked(p)[m]]
<1>1. /\ pc[p] = "read" /\ pc' = [pc EXCEPT ![p] = "write"]
      /\ seen' = [seen EXCEPT ![p] = Results(inputs, OwnScores(p))]
      /\ UNCHANGED <<inputs, scores, stats, what, held, outdated>>
  BY DEF ReadStageItem, db
<1>2. PICK rows, sheets :
        /\ queue' = [queue EXCEPT ![p] = rows] /\ plan' = [plan EXCEPT ![p] = sheets]
        /\ Entering(p) => rows = {StatsRows} \cup {MatchRow(m) : m \in dirty} /\ sheets = sides
        /\ ~Entering(p) => rows = Rows /\ sheets = inputs
  BY DEF ReadStageItem, Entering, Worked
<1>3. /\ Worked(p) \in [Matches -> Sheet]
      /\ Placed(Worked(p))
  BY AdvancedIs, AdvancedPlaced DEF Worked, TypeOK, PlacedInv
<1>4. dirty \in SUBSET Matches
  BY DEF Changed
<1>5. rows \in SUBSET Rows
  BY <1>2, <1>4 DEF Rows
<1>6. /\ sheets \in UNION {[written -> Sheet] : written \in SUBSET Matches}
      /\ PlanPlaced(sheets)
  <2>1. CASE Entering(p)
    <3>1. sides \in [dirty -> Sheet]
      BY <1>3, <1>4
    <3>2. PlanPlaced(sides)
      <4> HIDE DEF dirty
      <4> QED
        BY <1>3, <1>4 DEF PlanPlaced, Placed
    <3> HIDE DEF dirty, sides
    <3> QED
      BY <1>2, <1>4, <2>1, <3>1, <3>2
  <2>2. CASE ~Entering(p)
    <3>1. inputs \in [Matches -> Sheet] /\ Placed(inputs)
      BY DEF TypeOK, PlacedInv
    <3>2. PlanPlaced(inputs)
      BY <3>1 DEF PlanPlaced, Placed
    <3> QED
      BY <1>2, <2>2, <3>1, <3>2
  <2> QED
    BY <2>1, <2>2
<1>7. Results(inputs, OwnScores(p)) \in ResultTable
  BY Asked, ResultsType DEF TypeOK
<1> HIDE DEF dirty, sides
<1>8. TypeOK'
  <2>1. seen' \in [Requests -> ResultTable]
    BY <1>1, <1>7 DEF TypeOK, ResultTable
  <2>2. plan' \in [Requests -> UNION {[written -> Sheet] : written \in SUBSET Matches}]
    BY <1>2, <1>6 DEF TypeOK
  <2>3. /\ queue' \in [Requests -> SUBSET Rows]
        /\ pc' \in [Requests -> {"idle", "enter", "read", "write", "done", "aborted"}]
    BY <1>1, <1>2, <1>5 DEF TypeOK
  <2> QED
    BY <1>1, <2>1, <2>2, <2>3 DEF TypeOK, ResultTable
<1>9. /\ pc'[p] = "write" /\ queue'[p] = rows /\ plan'[p] = sheets
      /\ seen'[p] = Results(inputs, OwnScores(p))
      /\ \A r \in Requests \ {p} :
            /\ pc'[r] = pc[r] /\ queue'[r] = queue[r]
            /\ seen'[r] = seen[r] /\ plan'[r] = plan[r]
  BY <1>1, <1>2 DEF TypeOK
<1>10. ExclusiveInv' /\ EndedInv'
  BY <1>1, <1>9 DEF ExclusiveInv, EndedInv
<1>11. OrderInv'
  <2>1. ASSUME Entering(p)
        PROVE  /\ held[p] = {MatchRow(what[p].match)}
               /\ rows \subseteq {StatsRows} \cup LaterRows(what[p].match)
               /\ StatsRows \in rows
    <3>1. held[p] = {MatchRow(what[p].match)}
      BY <1>1, <2>1 DEF OrderInv
    <3>2. what[p].match \in Matches /\ inputs \in [Matches -> Sheet]
      BY <2>1, Asked DEF TypeOK
    <3>3. \A m \in dirty : RoundOf[what[p].match] < RoundOf[m]
      BY <3>2, ChangedAreLater DEF dirty, Worked
    <3> QED
      BY <1>2, <1>4, <2>1, <3>1, <3>3 DEF LaterRows
  <2> SUFFICES ASSUME NEW r \in Requests, Entering(r)
               PROVE  (LET own == MatchRow(what[r].match) IN
                         /\ pc[r] = "enter" => held[r] = {} /\ queue[r] = {own}
                         /\ pc[r] = "read" => held[r] = {own} /\ queue[r] = {}
                         /\ pc[r] = "write" =>
                               /\ queue[r] \subseteq {StatsRows} \cup LaterRows(what[r].match)
                               /\ StatsRows \in queue[r] => held[r] = {own}
                               /\ StatsRows \notin queue[r] => StatsRows \in held[r])'
    BY <1>1 DEF OrderInv, Entering
  <2>2. CASE r # p
    BY <1>1, <1>9, <2>2 DEF OrderInv
  <2>3. CASE r = p
    BY <1>1, <1>9, <2>1, <2>3
  <2> QED
    BY <2>2, <2>3
<1>12. CopyInv'
  <2>1. \A r \in Requests : OwnScores(r)' = OwnScores(r) /\ Entering(r)' = Entering(r)
    BY <1>1 DEF OwnScores, Entering
  <2>2. \A r \in Requests : Worked(r)' = Worked(r)
    BY <1>1, <2>1 DEF Worked
  <2> SUFFICES ASSUME NEW r \in Requests, (pc[r] = "write" /\ r \notin outdated)'
               PROVE  (/\ seen[r] = Results(inputs, OwnScores(r))
                       /\ Entering(r) =>
                             plan[r] = [m \in Changed(inputs, Worked(r)) |-> Worked(r)[m]]
                       /\ ~Entering(r) => plan[r] = inputs)'
    BY DEF CopyInv
  <2>3. CASE r # p
    BY <1>1, <1>9, <2>1, <2>2, <2>3 DEF CopyInv
  <2>4. CASE r = p
    BY <1>1, <1>2, <1>9, <2>1, <2>2, <2>4 DEF dirty, sides
  <2> QED
    BY <2>3, <2>4
<1>13. PlacedInv'
  BY <1>1, <1>6, <1>9 DEF PlacedInv
<1> QED
  BY <1>8, <1>10, <1>11, <1>12, <1>13

(* A request commits: the rows of its plan, the score it entered and the    *)
(* results it saw.                                                          *)
LEMMA CommitKeeps ==
    ASSUME IInv, NEW p \in Requests, Commit(p)
    PROVE  IInv'
<1> USE DEF IInv
<1>1. /\ inputs' = [m \in Matches |-> IF m \in DOMAIN plan[p] THEN plan[p][m] ELSE inputs[m]]
      /\ scores' = OwnScores(p) /\ stats' = seen[p]
      /\ outdated' = (outdated \cup {q \in Requests : pc[q] = "write"}) \ {p}
      /\ End(p, "done")
  BY DEF Commit
<1>2. PICK written \in SUBSET Matches : plan[p] \in [written -> Sheet]
  BY DEF TypeOK
<1>3. inputs' \in [Matches -> Sheet]
  BY <1>1, <1>2 DEF TypeOK
<1>4. TypeOK'
  <2>1. scores' \in [Matches -> Scores]
    BY <1>1, Asked
  <2>2. stats' \in ResultTable
    BY <1>1 DEF TypeOK, ResultTable
  <2>3. outdated' \in SUBSET Requests
    BY <1>1 DEF TypeOK
  <2>4. what' \in [Requests -> Jobs]
    BY <1>1, Ended DEF TypeOK
  <2> QED
    BY <1>1, <1>3, <2>1, <2>2, <2>3, <2>4, Ended DEF TypeOK, ResultTable
<1>5. ExclusiveInv' /\ EndedInv' /\ OrderInv'
  BY <1>1, EndKeeps
<1>6. CopyInv'
  <2>1. ASSUME NEW r \in Requests, pc'[r] = "write"
        PROVE  r \in outdated'
    <3>1. r # p /\ pc[r] = "write"
      BY <1>1, <2>1, Ended
    <3> QED
      BY <1>1, <3>1
  <2> QED
    BY <2>1 DEF CopyInv
<1>7. PlacedInv'
  <2>1. Placed(inputs) /\ PlanPlaced(plan[p])
    BY DEF PlacedInv
  <2>2. Placed(inputs')
    BY <1>1, <2>1 DEF Placed, PlanPlaced
  <2>3. \A r \in Requests : PlanPlaced(plan'[r])
    BY <1>1, Ended, RestTypes DEF PlacedInv
  <2> QED
    BY <2>2, <2>3 DEF PlacedInv
<1> QED
  BY <1>4, <1>5, <1>6, <1>7

LEMMA NextKeeps == IInv /\ [Next]_vars => IInv'
<1> SUFFICES ASSUME IInv, [Next]_vars
             PROVE  IInv'
  OBVIOUS
<1>1. ASSUME NEW r \in Requests, Begin(r)
      PROVE  IInv'
  BY <1>1, BeginKeeps
<1>2. ASSUME NEW r \in Requests, Step(r)
      PROVE  IInv'
  BY <1>2, UpdateRowKeeps, ReadStageItemKeeps, CommitKeeps DEF Step
<1>3. ASSUME NEW r \in Requests, Fail(r)
      PROVE  IInv'
  BY <1>3, RollbackKeeps DEF Fail
<1>4. ASSUME NEW r \in Requests, CancelDeadlocked(r)
      PROVE  IInv'
  BY <1>4, RollbackKeeps DEF CancelDeadlocked
<1>5. CASE UNCHANGED vars
  <2>1. UNCHANGED <<inputs, scores, stats, pc, what, queue, held, seen, plan, outdated>>
    BY <1>5 DEF vars, db
  <2>2. TypeOK' /\ ExclusiveInv' /\ EndedInv' /\ PlacedInv'
    BY <2>1 DEF IInv, TypeOK, ExclusiveInv, EndedInv, PlacedInv
  <2>3. OrderInv'
    BY <2>1 DEF IInv, OrderInv, Entering
  <2>4. \A r \in Requests : OwnScores(r)' = OwnScores(r) /\ Entering(r)' = Entering(r)
    BY <2>1 DEF OwnScores, Entering
  <2>5. CopyInv'
    BY <2>1, <2>4 DEF IInv, CopyInv, Worked
  <2> QED
    BY <2>2, <2>3, <2>5 DEF IInv
<1> QED
  BY <1>1, <1>2, <1>3, <1>4, <1>5 DEF Next

----------------------------------------------------------------------------

(* The invariant holds in every interleaving of any number of requests.     *)
THEOREM Invariant == Spec => []IInv
  BY InitHolds, NextKeeps, PTL DEF Spec

(* Columns, copies, plans and locks keep their types: whatever is written   *)
(* to the side of a match is an input of the stage item or NULL             *)
(* (sql_set_input_ids_for_match).                                           *)
THEOREM TypeCorrect == Spec => []TypeOK
<1>1. IInv => TypeOK
  BY DEF IInv
<1> QED
  BY <1>1, Invariant, PTL

(* However many requests run, and however old the copies are that they      *)
(* write from, no input plays two matches of a round: what is written to a  *)
(* side, by whom and when ever, is an input that can get there              *)
(* (update_inputs_in_subsequent_elimination_rounds).                        *)
THEOREM NobodyPlaysTwice == Spec => []OneMatchPerRound
<1>1. IInv => OneMatchPerRound
  BY PlacedOncePerRound DEF IInv, PlacedInv, OneMatchPerRound
<1> QED
  BY <1>1, Invariant, PTL

(* What a score entry can have locked and wait for. *)
LEMMA LockedInRound ==
    ASSUME IInv, NEW r \in Requests, Entering(r)
    PROVE  /\ StatsRows \notin held[r] => held[r] \subseteq {MatchRow(what[r].match)}
           /\ StatsRows \in held[r] => queue[r] \subseteq LaterRows(what[r].match)
           /\ StatsRows \notin held[r] /\ held[r] # {} => NextRow(r) \subseteq {StatsRows}
<1>1. TypeOK /\ EndedInv /\ OrderInv
  BY DEF IInv
<1>2. StatsRows # MatchRow(what[r].match)
  BY DEF StatsRows, MatchRow
<1>3. NextRow(r) \subseteq queue[r]
  BY DEF NextRow
<1>4. CASE pc[r] \in {"idle", "done", "aborted"}
  BY <1>1, <1>4 DEF EndedInv
<1>5. CASE pc[r] = "enter"
  BY <1>1, <1>5 DEF OrderInv
<1>6. CASE pc[r] = "read"
  BY <1>1, <1>2, <1>3, <1>6 DEF OrderInv
<1>7. CASE pc[r] = "write"
  <2>1. /\ queue[r] \subseteq {StatsRows} \cup LaterRows(what[r].match)
        /\ StatsRows \in queue[r] => held[r] = {MatchRow(what[r].match)}
        /\ StatsRows \notin queue[r] => StatsRows \in held[r]
    BY <1>1, <1>7 DEF OrderInv
  <2>2. StatsRows \in queue[r] => NextRow(r) \subseteq {StatsRows}
    BY <2>1, StatsBeforeSides
  <2> QED
    BY <1>2, <2>1, <2>2
<1>8. pc[r] \in {"idle", "enter", "read", "write", "done", "aborted"}
  BY <1>1 DEF TypeOK
<1> QED
  BY <1>4, <1>5, <1>6, <1>7, <1>8

LEMMA OneDoesNotWait == IInv => SameRoundNoDeadlock
<1> SUFFICES ASSUME IInv, NEW R \in SUBSET Requests, R # {},
                    \A r, q \in R : /\ what[r].kind = "score"
                                    /\ RoundOf[what[r].match] = RoundOf[what[q].match]
             PROVE  \E r \in R : \A q \in R : ~WaitsFor(r, q)
  BY DEF SameRoundNoDeadlock
<1>1. \A r \in R : Entering(r) /\ what[r].match \in Matches
  BY Asked DEF IInv, Entering
<1>2. ASSUME NEW r \in R, StatsRows \in held[r], NEW q \in R, WaitsFor(r, q)
      PROVE  FALSE
  <2>1. PICK row \in NextRow(r) : r # q /\ row \in held[q]
    BY <1>2 DEF WaitsFor
  <2>2. row \in LaterRows(what[r].match)
    BY <1>1, <1>2, LockedInRound DEF NextRow
  <2>3. PICK m \in Matches : row = MatchRow(m) /\ RoundOf[what[r].match] < RoundOf[m]
    BY <2>2 DEF LaterRows
  <2>4. StatsRows \notin held[q]
    BY <1>2, <2>1 DEF IInv, ExclusiveInv
  <2>5. row = MatchRow(what[q].match)
    BY <1>1, <2>1, <2>4, LockedInRound
  <2>6. m = what[q].match
    BY <2>3, <2>5 DEF MatchRow
  <2>7. RoundOf[what[r].match] = RoundOf[m]
    BY <2>6
  <2> QED
    BY <1>1, <2>3, <2>7, RoundsAreNat
<1>3. ASSUME \A r \in R : StatsRows \notin held[r], NEW r \in R, held[r] # {},
             NEW q \in R, WaitsFor(r, q)
      PROVE  FALSE
  BY <1>1, <1>3, LockedInRound DEF WaitsFor
<1>4. ASSUME \A r \in R : held[r] = {}, NEW r \in R, NEW q \in R
      PROVE  ~WaitsFor(r, q)
  BY <1>4 DEF WaitsFor
<1> QED
  BY <1>2, <1>3, <1>4

(* Score entries for matches of one round never wait for each other in a    *)
(* circle, however many there are: the one that has the statistics waits    *)
(* for sides of later rounds only, which none of the others has; if none    *)
(* has them, one that has its match's row does not wait, and requests that  *)
(* have nothing wait for nobody of their kind                               *)
(* (recalculate_ranking_for_stage_item).                                    *)
THEOREM NoDeadlockInRound == Spec => []SameRoundNoDeadlock
  BY OneDoesNotWait, Invariant, PTL

(* A request that commits from a copy that is still current leaves the      *)
(* statistics with every committed result and sides that follow their       *)
(* feeders: its plan is what entering its score in the committed bracket    *)
(* does (update_match_by_id).                                               *)
THEOREM CurrentCopies == Spec => CurrentCopyKeepsConsistent
<1>1. ASSUME IInv, NEW r \in Requests, Commit(r), r \notin outdated
      PROVE  /\ stats' = Results(inputs, scores')
             /\ SidesFollowFeeders(inputs, scores, Matches)
                   => SidesFollowFeeders(inputs', scores', Matches)
  <2>1. /\ pc[r] = "write"
        /\ inputs' = [m \in Matches |-> IF m \in DOMAIN plan[r] THEN plan[r][m] ELSE inputs[m]]
        /\ scores' = OwnScores(r) /\ stats' = seen[r]
    BY <1>1 DEF Commit
  <2>2. /\ seen[r] = Results(inputs, OwnScores(r))
        /\ Entering(r) => plan[r] = [m \in Changed(inputs, Worked(r)) |-> Worked(r)[m]]
        /\ ~Entering(r) => plan[r] = inputs
    BY <1>1, <2>1 DEF IInv, CopyInv
  <2>3. TypeOK
    BY <1>1 DEF IInv
  <2>4. stats' = Results(inputs, scores')
    BY <2>1, <2>2
  <2>5. ASSUME SidesFollowFeeders(inputs, scores, Matches)
        PROVE  SidesFollowFeeders(inputs', scores', Matches)
    <3>1. \A m \in Matches, k \in Sides :
             FedBy(Matches, m, k) = Feeder[m][k] \/ Feeder[m][k] = None
      BY TreeIs DEF FedBy
    <3>2. CASE Entering(r)
      <4> DEFINE x == what[r].match
                 A == Worked(r)
      <4>1. /\ A \in [Matches -> Sheet]
            /\ PassedOn(x, inputs, scores', A)
        BY <2>1, <2>3, AdvancedIs DEF Worked, TypeOK
      <4>2. inputs' = A
        <5>1. plan[r] = [m \in Changed(inputs, A) |-> A[m]]
          BY <2>2, <3>2
        <5> HIDE DEF A
        <5>2. \A m \in Matches : inputs'[m] = A[m]
          BY <2>1, <5>1 DEF Changed
        <5> QED
          BY <2>1, <4>1, <5>2
      <4>3. \A f \in Matches : f # x => scores'[f] = scores[f]
        BY <2>1, <2>3 DEF OwnScores, TypeOK
      <4> HIDE DEF A, x
      <4> SUFFICES ASSUME NEW m \in Matches, NEW k \in Sides,
                          FedBy(Matches, m, k) # None
                   PROVE  A[m][k] = Winner(A[FedBy(Matches, m, k)], scores'[FedBy(Matches, m, k)])
        BY <4>2 DEF SidesFollowFeeders
      <4> DEFINE f == Feeder[m][k]
      <4>4. FedBy(Matches, m, k) = f /\ f \in Matches /\ f # None
        BY DEF FedBy
      <4>5. inputs[m][k] = Winner(inputs[f], scores[f])
        BY <2>5, <4>4 DEF SidesFollowFeeders
      <4>6. A[m][k] = IF f # None /\ (f = x \/ A[f] # inputs[f]) THEN Winner(A[f], scores'[f])
                                                               ELSE inputs[m][k]
        BY <4>1 DEF PassedOn
      <4> HIDE DEF f
      <4> QED
        BY <4>3, <4>4, <4>5, <4>6
    <3>3. CASE ~Entering(r)
      <4>1. inputs' = inputs
        BY <2>1, <2>2, <2>3, <3>3 DEF TypeOK
      <4>2. scores' = scores
        BY <2>1, <3>3 DEF OwnScores, Entering
      <4> QED
        BY <2>5, <4>1, <4>2
    <3> QED
      BY <3>2, <3>3
  <2> QED
    BY <2>4, <2>5
<1>2. IInv => \A r \in Requests :
         (Commit(r) /\ r \notin outdated) =>
            /\ stats' = Results(inputs, scores')
            /\ SidesFollowFeeders(inputs, scores, Matches)
                  => SidesFollowFeeders(inputs', scores', Matches)
  BY <1>1
<1> QED
  BY <1>2, Invariant, PTL DEF CurrentCopyKeepsConsistent
=============================================================================
