--------------------------- MODULE SwissRoundsProofs ---------------------------
(***************************************************************************)
(* Theorems about SwissRounds, for any inputs, pages and bounds: what two  *)
(* organizers can do to the rounds of a Swiss stage item without their     *)
(* requests overlapping.                                                   *)
(***************************************************************************)
EXTENDS SwissRounds, TLAPS, FiniteSetTheorems, WellFoundedInduction

(* A set of numbers that is not empty has a first one.                      *)
LEMMA LeastExists ==
    ASSUME NEW S \in SUBSET Nat, S # {}
    PROVE  \E x \in S : \A s \in S : x <= s
<1> DEFINE Less == {pair \in Nat \X Nat : pair[1] < pair[2]}
<1>1. IsWellFoundedOn(Less, Nat)
  BY ONLY NatLessThanWellFounded DEF OpToRel
<1>2. PICK x \in S : \A y \in S : ~(<<y, x>> \in Less)
  <2> HIDE DEF Less
  <2> QED
    BY <1>1, WFMin
<1>3. \A y \in S : ~(y < x)
  BY <1>2
<1> QED
  BY <1>3

Writing(p) == request[p] # Idle /\ request[p].at = "written"

(* Only published rounds have results, and a round that is not there has   *)
(* no matches.  A page may show too little, but a round it shows as        *)
(* published was published.                                                *)
RoundsInv ==
    /\ \A r \in RoundIds :
          /\ rounds[r].status # "published" => rounds[r].scored = {}
          /\ rounds[r].status \notin {"draft", "published"} => rounds[r].matches = {}
    /\ \A p \in SlowPages, r \in RoundIds :
          seen[p][r].status = "published" => rounds[r].status \in {"published", "deleted"}

Apart(pairs) == \A x, y \in pairs : x # y => x \cap y = {}

(* A request to create a round saw no draft, and there is none unless      *)
(* another such request was committed since.                               *)
SoundGenerate(q, rs) ==
    (q.op = "generate" /\ q.at = "checked") =>
        /\ Apart(q.pairs)
        /\ "generate" \notin q.overtaken => Drafts(rs) = {}

(* The two inputs of a pairing to add are free, unless another was added.  *)
SoundAdd(q, rs) ==
    q.op = "add" =>
        /\ q.round \in RoundIds
        /\ rs[q.round].status # "new"
        /\ "add" \notin q.overtaken =>
              \A x \in q.pairs, m \in rs[q.round].matches : x \cap m = {}

(* A change that is written holds its rows, and its points are those after *)
(* it, unless another change was committed since.                          *)
SoundWritten(q, rs) ==
    q.at = "written" =>
        /\ q.op \in {"remove", "delete", "score"}
        /\ q.round \in Existing(rs)
        /\ q.op = "score" => rs[q.round].status = "published"
        /\ q.pairs \subseteq rs[q.round].matches
        /\ q.op # "delete" => q.pairs # {}
        /\ "change" \notin q.overtaken => q.points = Results(Changed(q, rs))

Sound(q, rs) ==
    /\ SoundGenerate(q, rs)
    /\ SoundAdd(q, rs)
    /\ q.op = "remove" => q.round \in RoundIds /\ q.pairs # {}
    /\ SoundWritten(q, rs)

RequestsInv == \A p \in Pages : request[p] # Idle => Sound(request[p], rounds)

(* Of two changes of one round neither deletes it, and they change         *)
(* different matches.                                                      *)
Separate(q, r) == q.round = r.round => q.op # "delete" /\ r.op # "delete" /\ q.pairs \cap r.pairs = {}

ExclusiveInv ==
    \A p, o \in Pages : (p # o /\ Writing(p) /\ Writing(o)) => Separate(request[p], request[o])

IInv ==
    /\ TypeOK
    /\ RoundsInv
    /\ RequestsInv
    /\ ExclusiveInv

----------------------------------------------------------------------------
(* Results depend on the scored matches of published rounds only. *)

RoundsType == [RoundIds -> Round]

Points(round) == IF round.status = "published" THEN round.scored ELSE {}

LEMMA SameResults ==
    ASSUME NEW rs \in RoundsType, NEW rt \in RoundsType,
           \A r \in RoundIds : Points(rs[r]) = Points(rt[r])
    PROVE  Results(rs) = Results(rt)
<1>1. ASSUME NEW r \in RoundIds, NEW m
      PROVE  (r \in Published(rs) /\ m \in rs[r].scored) <=> (r \in Published(rt) /\ m \in rt[r].scored)
  BY DEF Points, Published, RoundsType
<1> QED
  BY <1>1 DEF Results

(* The round a change leaves behind. *)
After(q, round) ==
    [status |-> IF q.op = "delete" THEN "deleted" ELSE round.status,
     number |-> IF q.op = "delete" THEN 0 ELSE round.number,
     matches |-> IF q.op = "delete" THEN {}
                 ELSE IF q.op = "remove" THEN round.matches \ q.pairs ELSE round.matches,
     scored |-> IF q.op = "delete" THEN {}
                ELSE (round.scored \ q.pairs)
                        \cup (IF q.op = "score" /\ q.scored THEN q.pairs ELSE {})]

(* What a change does to its round, and that it leaves the others alone.   *)
LEMMA ChangeOfOneRound ==
    ASSUME NEW rs \in RoundsType, NEW q \in Request,
           q.op \in {"remove", "delete", "score"}, q.round \in RoundIds
    PROVE  /\ Changed(q, rs) = [rs EXCEPT ![q.round] = After(q, rs[q.round])]
           /\ Changed(q, rs) \in RoundsType
           /\ Changed(q, rs)[q.round] = After(q, rs[q.round])
           /\ \A r \in RoundIds \ {q.round} : Changed(q, rs)[r] = rs[r]
<1>0. MaxRounds \in Nat
  BY InputsAssumption
<1>1. rs[q.round] \in Round
  BY DEF RoundsType
<1>2. After(q, rs[q.round]) \in Round
  <2>1. q.pairs \subseteq Match
    BY DEF Request, Match
  <2> QED
    BY <1>0, <1>1, <2>1 DEF After, Round
<1>3. Changed(q, rs) = [rs EXCEPT ![q.round] = After(q, rs[q.round])]
  <2>1. CASE q.op = "remove"
    <3>1. Changed(q, rs) = [rs EXCEPT ![q.round] = Without(rs[q.round], q.pairs)]
      BY <2>1 DEF Changed
    <3>2. ASSUME NEW round \in Round
          PROVE  Without(round, q.pairs) = After(q, round)
      <4> DEFINE Unpaired(x) == [x EXCEPT !.matches = @ \ q.pairs]
                 Unscored(x) == [x EXCEPT !.scored = @ \ q.pairs]
      <4>1. Without(round, q.pairs) = Unscored(Unpaired(round))
        BY DEF Without, Round
      <4>2. /\ Unpaired(round) =
                 [status |-> round.status, number |-> round.number,
                  matches |-> round.matches \ q.pairs, scored |-> round.scored]
            /\ Unpaired(round) \in Round
        BY DEF Round
      <4>3. ASSUME NEW x \in Round
            PROVE  Unscored(x) = [status |-> x.status, number |-> x.number,
                                  matches |-> x.matches, scored |-> x.scored \ q.pairs]
        BY DEF Round
      <4>4. After(q, round) =
               [status |-> round.status, number |-> round.number,
                matches |-> round.matches \ q.pairs, scored |-> round.scored \ q.pairs]
        BY <2>1 DEF After
      <4> HIDE DEF Unpaired, Unscored
      <4> QED
        BY <4>1, <4>2, <4>3, <4>4
    <3> QED
      BY <1>1, <3>1, <3>2
  <2>2. CASE q.op = "delete"
    <3>1. Changed(q, rs) = [rs EXCEPT ![q.round] = Deleted]
      BY <2>2 DEF Changed
    <3>2. Deleted = After(q, rs[q.round])
      BY <2>2 DEF Deleted, NewRound, After
    <3> QED
      BY <3>1, <3>2
  <2>3. CASE q.op = "score"
    <3>1. Changed(q, rs) = [rs EXCEPT ![q.round].scored = (@ \ q.pairs)
                                  \cup (IF q.scored THEN q.pairs ELSE {})]
      BY <2>3 DEF Changed
    <3> QED
      BY <1>1, <2>3, <3>1 DEF After, Round, RoundsType
  <2> QED
    BY <2>1, <2>2, <2>3
<1>4. [rs EXCEPT ![q.round] = After(q, rs[q.round])] \in RoundsType
  BY <1>2 DEF RoundsType
<1> QED
  BY <1>3, <1>4 DEF RoundsType

(* What changes no results before a change changes none after it.          *)
LEMMA SameResultsAfter ==
    ASSUME NEW rs \in RoundsType, NEW rt \in RoundsType, NEW q \in Request,
           \A r \in RoundIds : Points(rs[r]) = Points(rt[r]),
           q.op \in {"remove", "delete", "score"}, q.round \in RoundIds,
           q.op = "score" => /\ rs[q.round].status = "published"
                             /\ rt[q.round].status = "published"
    PROVE  Results(Changed(q, rs)) = Results(Changed(q, rt))
<1>1. /\ Changed(q, rs) \in RoundsType
      /\ Changed(q, rs)[q.round] = After(q, rs[q.round])
      /\ \A r \in RoundIds \ {q.round} : Changed(q, rs)[r] = rs[r]
  BY ChangeOfOneRound
<1>2. /\ Changed(q, rt) \in RoundsType
      /\ Changed(q, rt)[q.round] = After(q, rt[q.round])
      /\ \A r \in RoundIds \ {q.round} : Changed(q, rt)[r] = rt[r]
  BY ChangeOfOneRound
<1>3. Points(After(q, rs[q.round])) = Points(After(q, rt[q.round]))
  <2>1. Points(rs[q.round]) = Points(rt[q.round])
    OBVIOUS
  <2> QED
    BY <2>1 DEF Points, After
<1>4. ASSUME NEW r \in RoundIds
      PROVE  Points(Changed(q, rs)[r]) = Points(Changed(q, rt)[r])
  BY <1>1, <1>2, <1>3
<1> QED
  BY <1>1, <1>2, <1>4, SameResults

----------------------------------------------------------------------------
(* Creating a round. *)

Created(pairs, n) ==
    [status |-> "draft", number |-> n, matches |-> pairs, scored |-> {}]

(* A new round takes the first id that was never used. *)
LEMMA InsertedIs ==
    ASSUME TypeOK, RoundLeft, NEW pairs, NEW n
    PROVE  \E r \in RoundIds : /\ rounds[r].status = "new"
                               /\ \A s \in RoundIds : rounds[s].status = "new" => r <= s
                               /\ Inserted(rounds, pairs, n) = [rounds EXCEPT ![r] = Created(pairs, n)]
<1> DEFINE Left == {i \in RoundIds : rounds[i].status = "new"}
           r == CHOOSE x \in Oldest(Left) : TRUE
<1>1. Left \in SUBSET Nat /\ Left # {}
  BY DEF RoundLeft, RoundIds
<1>2. PICK x \in Left : \A s \in Left : x <= s
  <2> HIDE DEF Left
  <2> QED
    BY <1>1, LeastExists
<1>3. r \in Oldest(Left)
  BY <1>2 DEF Oldest
<1>4. /\ r \in RoundIds /\ rounds[r].status = "new"
      /\ \A s \in RoundIds : rounds[s].status = "new" => r <= s
  BY <1>3 DEF Oldest
<1>5. Inserted(rounds, pairs, n) = [rounds EXCEPT ![r] = Created(pairs, n)]
  BY DEF Inserted, Created
<1> QED
  BY <1>4, <1>5

(* The number of a round that can still be created is within the bound.    *)
LEMMA NumberedInBound ==
    ASSUME TypeOK, RoundLeft
    PROVE  Numbered(rounds) \in 0..MaxRounds
<1>1. MaxRounds \in Nat
  BY InputsAssumption
<1>2. IsFiniteSet(RoundIds) /\ Cardinality(RoundIds) = MaxRounds
  BY <1>1, FS_Interval DEF RoundIds
<1>3. PICK r \in RoundIds : rounds[r].status = "new"
  BY DEF RoundLeft
<1>4. /\ IsFiniteSet(RoundIds \ {r})
      /\ Cardinality(RoundIds \ {r}) = MaxRounds - 1
  BY <1>2, <1>3, FS_RemoveElement
<1>5. Existing(rounds) \subseteq RoundIds \ {r}
  BY <1>3 DEF Existing, TypeOK
<1>6. /\ Cardinality(Existing(rounds)) \in Nat
      /\ Cardinality(Existing(rounds)) <= MaxRounds - 1
  <2>1. IsFiniteSet(Existing(rounds))
        /\ Cardinality(Existing(rounds)) <= Cardinality(RoundIds \ {r})
    BY <1>4, <1>5, FS_Subset
  <2> QED
    BY <1>4, <2>1, FS_CardinalityType
<1> QED
  BY <1>1, <1>6 DEF Numbered

LEMMA PairingsAreApart ==
    ASSUME NEW pairs \in Pairings(rounds)
    PROVE  pairs \subseteq Pairs /\ Apart(pairs)
BY DEF Pairings, Apart

----------------------------------------------------------------------------
(* What a commit leaves of the requests under way. *)

LEMMA Recorded ==
    ASSUME TypeOK, NEW p \in Pages, request[p] # Idle, NEW next \in Request \cup {Idle},
           request' = Overtaken(p, next)
    PROVE  /\ request' \in [Pages -> Request \cup {Idle}]
           /\ request'[p] = next
           /\ \A o \in Pages \ {p} :
                 /\ request'[o] = Idle <=> request[o] = Idle
                 /\ request[o] # Idle =>
                      LET done == Kind(request[p].op)
                          q == request[o]
                          late == IF done \in Outdates(q.op) THEN q.overtaken \cup {done}
                                                              ELSE q.overtaken
                      IN  request'[o] = [q EXCEPT !.overtaken = late]
<1>1. request[p] \in Request
  BY DEF TypeOK
<1>2. Kind(request[p].op) \in {"generate", "add", "change"}
  BY <1>1 DEF Request, Kind
<1>3. \A q \in Request : q # Idle
  BY DEF Request, Idle
<1>4. ASSUME NEW o \in Pages \ {p}, request[o] # Idle
      PROVE  LET done == Kind(request[p].op)
                 q == request[o]
                 late == IF done \in Outdates(q.op) THEN q.overtaken \cup {done} ELSE q.overtaken
             IN  /\ request'[o] = [q EXCEPT !.overtaken = late]
                 /\ request'[o] \in Request
  <2>1. request[o] \in Request
    BY <1>4 DEF TypeOK
  <2>2. CASE Kind(request[p].op) \in Outdates(request[o].op)
    <3>1. request'[o] = [request[o] EXCEPT !.overtaken = @ \cup {Kind(request[p].op)}]
      BY <1>4, <2>2 DEF Overtaken
    <3> QED
      BY <1>2, <2>1, <2>2, <3>1 DEF Request
  <2>3. CASE Kind(request[p].op) \notin Outdates(request[o].op)
    <3>1. request'[o] = request[o]
      BY <1>4, <2>3 DEF Overtaken
    <3> QED
      BY <2>1, <2>3, <3>1 DEF Request
  <2> QED
    BY <2>2, <2>3
<1>5. request'[p] = next
  BY DEF Overtaken
<1>6. ASSUME NEW o \in Pages \ {p}, request[o] = Idle
      PROVE  request'[o] = Idle
  BY <1>6 DEF Overtaken
<1>7. \A o \in Pages : request'[o] \in Request \cup {Idle}
  BY <1>4, <1>5, <1>6
<1>8. request' \in [Pages -> Request \cup {Idle}]
  BY <1>7 DEF Overtaken
<1> QED
  BY <1>3, <1>4, <1>5, <1>6, <1>8

----------------------------------------------------------------------------
(* The requests that pages send are well formed. *)

LEMMA Asked ==
    ASSUME NEW op \in {"generate", "add", "remove", "delete", "score"},
           NEW r \in 0..MaxRounds, NEW pairs \in SUBSET Pairs
    PROVE  Asking(op, r, pairs) \in Request
BY InputsAssumption DEF Asking, Request

LEMMA WrittenIs ==
    ASSUME NEW q \in Request
    PROVE  /\ Written(q) \in Request
           /\ Written(q).at = "written"
           /\ Written(q).points = Results(Changed(q, rounds))
           /\ Changed(Written(q), rounds) = Changed(q, rounds)
           /\ Written(q).op = q.op /\ Written(q).round = q.round
           /\ Written(q).pairs = q.pairs /\ Written(q).overtaken = q.overtaken
<1> DEFINE Pointed(x, points) == [x EXCEPT !.points = points]
           Moved(x) == [x EXCEPT !.at = "written"]
<1>1. Written(q) = Pointed(Moved(q), Results(Changed(q, rounds)))
  BY DEF Written
<1>2. Moved(q) \in Request
  BY DEF Request
<1>3. ASSUME NEW x \in Request, NEW points \in SUBSET (RoundIds \X Match)
      PROVE  Pointed(x, points) \in Request
  BY DEF Request
<1>4. Results(Changed(q, rounds)) \in SUBSET (RoundIds \X Match)
  BY DEF Results
<1>5. Written(q) \in Request
  <2> HIDE DEF Pointed, Moved
  <2> QED
    BY <1>1, <1>2, <1>3, <1>4
<1>6. /\ Written(q).at = "written"
      /\ Written(q).points = Results(Changed(q, rounds))
      /\ Written(q).op = q.op /\ Written(q).round = q.round
      /\ Written(q).pairs = q.pairs /\ Written(q).overtaken = q.overtaken
      /\ Written(q).scored = q.scored
  BY DEF Written, Request
<1>7. Changed(Written(q), rounds) = Changed(q, rounds)
  BY <1>6 DEF Changed
<1> QED
  BY <1>5, <1>6, <1>7

AskingToDelete(r, again, stale) ==
    [Asking("delete", r, {}) EXCEPT !.again = again, !.stale = stale]

LEMMA AskedToDelete ==
    ASSUME NEW r \in RoundIds, NEW again \in BOOLEAN, NEW stale \in BOOLEAN
    PROVE  LET q == AskingToDelete(r, again, stale)
           IN  q \in Request /\ q.op = "delete" /\ q.round = r /\ q.pairs = {}
<1> DEFINE Again(x) == [x EXCEPT !.again = again]
           Stale(x) == [x EXCEPT !.stale = stale]
           q == AskingToDelete(r, again, stale)
<1>1. q = Stale(Again(Asking("delete", r, {})))
  BY DEF AskingToDelete
<1>2. Asking("delete", r, {}) \in Request
  BY Asked, InputsAssumption DEF RoundIds
<1>3. ASSUME NEW x \in Request
      PROVE  Again(x) \in Request /\ Stale(x) \in Request
  BY DEF Request
<1>4. q \in Request
  <2> HIDE DEF Again, Stale
  <2> QED
    BY <1>1, <1>2, <1>3
<1>5. q.op = "delete" /\ q.round = r /\ q.pairs = {}
  BY DEF AskingToDelete, Asking
<1> QED
  BY <1>4, <1>5

----------------------------------------------------------------------------
(* The steps of a request before it commits. *)

LEMMA InitHolds == Init => IInv
<1> SUFFICES ASSUME Init
             PROVE  IInv
  OBVIOUS
<1>1. MaxRounds \in Nat
  BY InputsAssumption
<1>2. \A r \in RoundIds : rounds[r] = NewRound
  BY DEF Init
<1>3. NewRound \in Round
  BY <1>1 DEF NewRound, Round
<1>4. rounds \in [RoundIds -> Round]
  BY <1>3 DEF Init
<1>5. ASSUME NEW r \in RoundIds
      PROVE  Visible(rounds)[r] = [status |-> "new", matches |-> {}]
  BY <1>2, <1>5 DEF Visible, Drafts, NewRound
<1>6. Visible(rounds) \in [RoundIds -> [status : {"new", "draft", "published", "deleted"},
                                       matches : SUBSET Match]]
  <2>1. \A r \in RoundIds : Visible(rounds)[r] \in
            [status : {"new", "draft", "published", "deleted"}, matches : SUBSET Match]
    BY <1>5
  <2> QED
    BY <2>1 DEF Visible
<1>7. \A p \in Pages : request[p] = Idle
  BY DEF Init
<1>8. TypeOK
  BY <1>4, <1>6 DEF Init, TypeOK
<1>9. RoundsInv
  <2>1. \A p \in SlowPages : seen[p] = Visible(rounds)
    BY DEF Init
  <2>2. ASSUME NEW p \in SlowPages, NEW r \in RoundIds
        PROVE  seen[p][r].status = "new"
    BY <1>5, <2>1
  <2> QED
    BY <1>2, <2>2 DEF RoundsInv, NewRound
<1> QED
  BY <1>7, <1>8, <1>9 DEF IInv, RequestsInv, ExclusiveInv, Writing

LEMMA SendKeeps ==
    ASSUME IInv, NEW p \in Pages, NEW q \in Request \cup {Idle}, Send(p, q),
           q # Idle => Sound(q, rounds),
           (q # Idle /\ q.at = "written") =>
               \A o \in Pages \ {p} : Writing(o) => Separate(q, request[o])
    PROVE  IInv'
<1>1. /\ rounds' = rounds /\ counted' = counted /\ seen' = seen
      /\ request' = [request EXCEPT ![p] = q]
  BY DEF Send
<1>2. request \in [Pages -> Request \cup {Idle}]
  BY DEF IInv, TypeOK
<1>3. request'[p] = q /\ \A o \in Pages \ {p} : request'[o] = request[o]
  BY <1>1, <1>2
<1>4. TypeOK'
  BY <1>1, <1>2 DEF IInv, TypeOK
<1>5. RoundsInv'
  BY <1>1 DEF IInv, RoundsInv
<1>6. RequestsInv'
  BY <1>1, <1>3 DEF IInv, RequestsInv
<1>7. ExclusiveInv'
  <2> SUFFICES ASSUME NEW a \in Pages, NEW b \in Pages, a # b, Writing(a)', Writing(b)'
               PROVE  Separate(request'[a], request'[b])
    BY DEF ExclusiveInv
  <2>1. CASE a = p
    BY <1>3, <2>1 DEF Writing
  <2>2. CASE b = p
    <3>1. Separate(q, request[a])
      BY <1>3, <2>2 DEF Writing
    <3> QED
      BY <1>3, <2>2, <3>1 DEF Separate
  <2>3. CASE a # p /\ b # p
    BY <1>3, <2>3 DEF Writing, IInv, ExclusiveInv
  <2> QED
    BY <2>1, <2>2, <2>3
<1> QED
  BY <1>4, <1>5, <1>6, <1>7 DEF IInv

LEMMA FailKeeps ==
    ASSUME IInv, NEW p \in Pages, Fail(p)
    PROVE  IInv'
BY SendKeeps DEF Fail

LEMMA GenerateKeeps ==
    ASSUME IInv, NEW p \in Pages, Generate(p) \/ GenerateAgain(p)
    PROVE  IInv'
<1>1. PICK pairs \in Pairings(rounds) : Send(p, Creating(pairs))
  BY DEF Generate, GenerateAgain
<1>2. RoundLeft /\ Drafts(rounds) = {}
  BY DEF Generate, GenerateAgain, CanCreateRound
<1>3. pairs \in SUBSET Pairs /\ Apart(pairs)
  BY PairingsAreApart
<1>4. Asking("generate", 0, pairs) \in Request
  BY <1>3, Asked, InputsAssumption
<1>5. Creating(pairs) \in Request
  BY <1>2, <1>4, NumberedInBound DEF Creating, Request, IInv
<1>6. /\ Creating(pairs).op = "generate" /\ Creating(pairs).at = "checked"
      /\ Creating(pairs).pairs = pairs
  BY DEF Creating, Asking
<1>7. Sound(Creating(pairs), rounds)
  BY <1>2, <1>3, <1>6 DEF Sound, SoundGenerate, SoundAdd, SoundWritten
<1> QED
  BY <1>1, <1>5, <1>6, <1>7, SendKeeps

LEMMA AddPairingKeeps ==
    ASSUME IInv, NEW p \in Pages, AddPairing(p)
    PROVE  IInv'
<1>1. PICK r \in ShownDraft(p) : \E pair \in Pairs :
          /\ r \in Drafts(rounds)
          /\ pair \cap Paired(rounds[r]) = {}
          /\ Send(p, Asking("add", r, {pair}))
  BY DEF AddPairing
<1>2. PICK pair \in Pairs :
          /\ r \in Drafts(rounds)
          /\ pair \cap Paired(rounds[r]) = {}
          /\ Send(p, Asking("add", r, {pair}))
  BY <1>1
<1>3. r \in RoundIds /\ rounds[r].status = "draft"
  BY <1>2 DEF Drafts, IInv, TypeOK
<1>4. Asking("add", r, {pair}) \in Request
  BY <1>3, Asked, InputsAssumption DEF RoundIds
<1>5. LET q == Asking("add", r, {pair})
      IN  /\ q.op = "add" /\ q.at = "checked" /\ q.round = r /\ q.pairs = {pair}
  BY DEF Asking
<1>6. \A m \in rounds[r].matches : pair \cap m = {}
  BY <1>2 DEF Paired
<1>7. Sound(Asking("add", r, {pair}), rounds)
  BY <1>3, <1>5, <1>6 DEF Sound, SoundGenerate, SoundAdd, SoundWritten
<1> QED
  BY <1>2, <1>4, <1>5, <1>7, SendKeeps

LEMMA RemovePairingKeeps ==
    ASSUME IInv, NEW p \in Pages, RemovePairing(p)
    PROVE  IInv'
<1>1. PICK r \in ShownDraft(p) : \E m \in Shown(p)[r].matches :
          /\ r \in Drafts(rounds)
          /\ m \in rounds[r].matches
          /\ Send(p, Asking("remove", r, {m}))
  BY DEF RemovePairing
<1>2. PICK m \in Shown(p)[r].matches :
          /\ r \in Drafts(rounds)
          /\ m \in rounds[r].matches
          /\ Send(p, Asking("remove", r, {m}))
  BY <1>1
<1>3. r \in RoundIds /\ m \in Pairs
  BY <1>2 DEF Drafts, IInv, TypeOK, Round, Match
<1>4. Asking("remove", r, {m}) \in Request
  BY <1>3, Asked, InputsAssumption DEF RoundIds
<1>5. LET q == Asking("remove", r, {m})
      IN  /\ q.op = "remove" /\ q.at = "checked" /\ q.round = r /\ q.pairs = {m}
  BY DEF Asking
<1>6. Sound(Asking("remove", r, {m}), rounds)
  BY <1>3, <1>5 DEF Sound, SoundGenerate, SoundAdd, SoundWritten
<1> QED
  BY <1>2, <1>4, <1>5, <1>6, SendKeeps

(* A change that waits for no other one may be written. *)
LEMMA WriteKeeps ==
    ASSUME IInv, NEW p \in Pages, NEW q \in Request, Send(p, Written(q)),
           q.op \in {"remove", "delete", "score"},
           q.round \in Existing(rounds),
           q.op = "score" => rounds[q.round].status = "published",
           q.pairs \subseteq rounds[q.round].matches,
           q.op # "delete" => q.pairs # {} /\ Free(q.round, q.pairs),
           q.op = "delete" => Free(q.round, rounds[q.round].matches)
    PROVE  IInv'
<1> DEFINE w == Written(q)
<1>1. /\ w \in Request
      /\ w.at = "written" /\ w.points = Results(Changed(w, rounds))
      /\ w.op = q.op /\ w.round = q.round /\ w.pairs = q.pairs
  BY WrittenIs
<1>2. q.round \in RoundIds
  BY DEF Existing, IInv, TypeOK
<1> HIDE DEF w
<1>3. Sound(w, rounds)
  <2>1. SoundWritten(w, rounds)
    BY <1>1 DEF SoundWritten
  <2> QED
    BY <1>1, <1>2, <2>1 DEF Sound, SoundGenerate, SoundAdd
<1>4. ASSUME NEW o \in Pages \ {p}, Writing(o), w.round = request[o].round
      PROVE  w.op # "delete" /\ request[o].op # "delete" /\ w.pairs \cap request[o].pairs = {}
  <2>1. SoundWritten(request[o], rounds)
    BY <1>4 DEF IInv, RequestsInv, Sound, Writing
  <2>2. /\ request[o].op # "delete" => request[o].pairs # {}
        /\ request[o].pairs \subseteq rounds[q.round].matches
    BY <1>1, <1>4, <2>1 DEF SoundWritten, Writing
  <2>3. CASE q.op = "delete"
    BY <1>1, <1>4, <2>2, <2>3 DEF Free, Holds, Writing
  <2>4. CASE q.op # "delete"
    BY <1>1, <1>4, <2>4 DEF Free, Holds, Writing
  <2> QED
    BY <2>3, <2>4
<1>5. \A o \in Pages \ {p} : Writing(o) => Separate(w, request[o])
  BY <1>4 DEF Separate
<1>6. Send(p, w)
  BY DEF w
<1> QED
  BY <1>1, <1>3, <1>5, <1>6, SendKeeps

LEMMA WriteRemovalKeeps ==
    ASSUME IInv, NEW p \in Pages, WriteRemoval(p)
    PROVE  IInv'
<1>1. /\ request[p] \in Request
      /\ request[p].op = "remove"
      /\ request[p].pairs \subseteq rounds[request[p].round].matches
      /\ Free(request[p].round, request[p].pairs)
      /\ Send(p, Written(request[p]))
  BY DEF WriteRemoval, IInv, TypeOK
<1>2. request[p].round \in RoundIds /\ request[p].pairs # {}
  BY <1>1 DEF WriteRemoval, IInv, RequestsInv, Sound
<1>3. request[p].round \in Existing(rounds)
  BY <1>1, <1>2 DEF IInv, RoundsInv, TypeOK, Existing
<1> QED
  BY <1>1, <1>2, <1>3, WriteKeeps

LEMMA DeleteRoundKeeps ==
    ASSUME IInv, NEW p \in Pages, NEW r, NEW again \in BOOLEAN, DeleteRound(p, r, again)
    PROVE  IInv'
<1> DEFINE q == AskingToDelete(r, again, Outdated(p))
<1>1. /\ r \in Existing(rounds)
      /\ Free(r, rounds[r].matches)
      /\ Send(p, Written(q))
  BY DEF DeleteRound, AskingToDelete
<1>2. r \in RoundIds
  BY <1>1 DEF Existing, IInv, TypeOK
<1>3. Outdated(p) \in BOOLEAN
  BY DEF Outdated
<1>4. q \in Request /\ q.op = "delete" /\ q.round = r /\ q.pairs = {}
  BY <1>2, <1>3, AskedToDelete
<1> HIDE DEF q
<1> QED
  BY <1>1, <1>4, WriteKeeps

LEMMA DeletionsKeep ==
    ASSUME IInv, NEW p \in Pages, Discard(p) \/ Regenerate(p) \/ DeleteLatest(p)
    PROVE  IInv'
<1>1. CASE Discard(p)
  BY <1>1, DeleteRoundKeeps DEF Discard
<1>2. CASE Regenerate(p)
  BY <1>2, DeleteRoundKeeps DEF Regenerate
<1>3. CASE DeleteLatest(p)
  BY <1>3, DeleteRoundKeeps DEF DeleteLatest
<1> QED
  BY <1>1, <1>2, <1>3

(* A round that a page shows as published, and that has matches, is        *)
(* published.                                                              *)
LEMMA ShownAsPublished ==
    ASSUME IInv, NEW p \in Pages, NEW r \in Published(Shown(p)), rounds[r].matches # {}
    PROVE  r \in RoundIds /\ rounds[r].status = "published"
<1>1. CASE p \in SlowPages
  <2>1. r \in RoundIds /\ seen[p][r].status = "published"
    BY <1>1 DEF Published, Shown, IInv, TypeOK
  <2> QED
    BY <1>1, <2>1 DEF IInv, RoundsInv
<1>2. CASE p \notin SlowPages
  BY <1>2 DEF Published, Shown, Visible
<1> QED
  BY <1>1, <1>2

LEMMA EnterScoreKeeps ==
    ASSUME IInv, NEW p \in Pages, EnterScore(p)
    PROVE  IInv'
<1> DEFINE Scoring(r, m, scored) == [Asking("score", r, {m}) EXCEPT !.scored = scored]
<1>1. PICK r \in Published(Shown(p)) : \E m \in rounds[r].matches :
          /\ Free(r, {m})
          /\ Send(p, Written(Scoring(r, m, m \notin rounds[r].scored)))
  BY DEF EnterScore
<1>2. PICK m \in rounds[r].matches :
          /\ Free(r, {m})
          /\ Send(p, Written(Scoring(r, m, m \notin rounds[r].scored)))
  BY <1>1
<1>3. r \in RoundIds /\ rounds[r].status = "published"
  BY <1>2, ShownAsPublished
<1>4. r \in Existing(rounds) /\ m \in Pairs
  BY <1>2, <1>3 DEF Existing, IInv, TypeOK, Round, Match
<1>5. Asking("score", r, {m}) \in Request
  BY <1>3, <1>4, Asked, InputsAssumption DEF RoundIds
<1>6. ASSUME NEW scored \in BOOLEAN
      PROVE  /\ Scoring(r, m, scored) \in Request
             /\ Scoring(r, m, scored).op = "score"
             /\ Scoring(r, m, scored).round = r
             /\ Scoring(r, m, scored).pairs = {m}
  <2>1. Scoring(r, m, scored) \in Request
    BY <1>5 DEF Request
  <2> QED
    BY <2>1 DEF Asking
<1>7. (m \notin rounds[r].scored) \in BOOLEAN
  OBVIOUS
<1> HIDE DEF Scoring
<1> QED
  BY <1>2, <1>3, <1>4, <1>6, <1>7, WriteKeeps

----------------------------------------------------------------------------
(* The steps that change rounds. *)

(* A request as a commit of another one leaves it. *)
Later(x, q) ==
    /\ x.op = q.op /\ x.at = q.at /\ x.round = q.round /\ x.pairs = q.pairs
    /\ x.scored = q.scored /\ x.points = q.points
    /\ q.overtaken \subseteq x.overtaken

(* What a written change rests on survives the steps that change no points,*)
(* end no round and take no match away.                                    *)
LEMMA WrittenSurvives ==
    ASSUME TypeOK, NEW rt \in RoundsType,
           \A r \in RoundIds : Points(rounds[r]) = Points(rt[r]),
           \A r \in Existing(rounds) :
               /\ r \in Existing(rt)
               /\ rounds[r].matches \subseteq rt[r].matches
               /\ rounds[r].status = "published" => rt[r].status = "published",
           NEW q \in Request, NEW x \in Request, Later(x, q), SoundWritten(q, rounds)
    PROVE  SoundWritten(x, rt)
<1> SUFFICES ASSUME x.at = "written"
             PROVE  SoundWritten(x, rt)
  BY DEF SoundWritten
<1>1. /\ q.op \in {"remove", "delete", "score"}
      /\ q.round \in Existing(rounds)
      /\ q.op = "score" => rounds[q.round].status = "published"
      /\ q.pairs \subseteq rounds[q.round].matches
      /\ q.op # "delete" => q.pairs # {}
      /\ "change" \notin q.overtaken => q.points = Results(Changed(q, rounds))
  BY DEF SoundWritten, Later
<1>2. rounds \in RoundsType /\ q.round \in RoundIds
  BY <1>1 DEF TypeOK, RoundsType, Existing
<1>3. q.op = "score" => rt[q.round].status = "published"
  BY <1>1
<1>4. Results(Changed(q, rounds)) = Results(Changed(q, rt))
  BY <1>1, <1>2, <1>3, SameResultsAfter
<1>5. Changed(x, rt) = Changed(q, rt)
  BY DEF Changed, Later
<1> QED
  BY <1>1, <1>3, <1>4, <1>5 DEF SoundWritten, Later

LEMMA RecordedLater ==
    ASSUME TypeOK, NEW p \in Pages, request[p] # Idle, NEW next \in Request \cup {Idle},
           request' = Overtaken(p, next),
           NEW o \in Pages \ {p}, request'[o] # Idle
    PROVE  /\ request[o] # Idle /\ request[o] \in Request /\ request'[o] \in Request
           /\ Later(request'[o], request[o])
           /\ Kind(request[p].op) \in Outdates(request[o].op) =>
                 Kind(request[p].op) \in request'[o].overtaken
<1> DEFINE done == Kind(request[p].op)
           q == request[o]
           late == IF done \in Outdates(q.op) THEN q.overtaken \cup {done} ELSE q.overtaken
<1>1. request[o] # Idle /\ request'[o] = [q EXCEPT !.overtaken = late]
  BY Recorded
<1>2. request[o] \in Request /\ request'[o] \in Request
  BY <1>1, Recorded DEF TypeOK
<1>3. request'[o].overtaken = late /\ q.overtaken \subseteq late
  BY <1>1, <1>2 DEF Request
<1>4. Later(request'[o], request[o])
  BY <1>1, <1>2, <1>3 DEF Later, Request
<1> QED
  BY <1>1, <1>2, <1>3, <1>4

LEMMA CommitKeepsApart ==
    ASSUME IInv, NEW p \in Pages, request[p] # Idle, NEW next \in Request \cup {Idle},
           next # Idle => next.at # "written",
           request' = Overtaken(p, next)
    PROVE  ExclusiveInv'
<1> SUFFICES ASSUME NEW a \in Pages, NEW b \in Pages, a # b, Writing(a)', Writing(b)'
             PROVE  Separate(request'[a], request'[b])
  BY DEF ExclusiveInv
<1>0. TypeOK
  BY DEF IInv
<1>1. a # p /\ b # p
  BY <1>0, Recorded DEF Writing
<1>2. /\ request[a] # Idle /\ Later(request'[a], request[a])
      /\ request[b] # Idle /\ Later(request'[b], request[b])
  BY <1>0, <1>1, RecordedLater DEF Writing
<1>3. Writing(a) /\ Writing(b)
  BY <1>2 DEF Writing, Later
<1>4. Separate(request[a], request[b])
  BY <1>3 DEF IInv, ExclusiveInv
<1> QED
  BY <1>2, <1>4 DEF Separate, Later

LEMMA PublishKeeps ==
    ASSUME IInv, NEW p \in Pages, Publish(p)
    PROVE  IInv' /\ \A r \in RoundIds : Points(rounds[r]) = Points(rounds'[r])
<1>1. PICK r : /\ r \in Existing(rounds)
               /\ Free(r, {})
               /\ rounds' = [rounds EXCEPT ![r].status = "published"]
               /\ counted' = counted /\ seen' = seen /\ request' = request
  BY DEF Publish
<1>2. /\ r \in RoundIds /\ rounds[r] \in Round
      /\ rounds[r].status \in {"draft", "published"}
      /\ rounds \in RoundsType
  BY <1>1 DEF Existing, IInv, TypeOK, RoundsType
<1>3. /\ rounds' \in RoundsType
      /\ rounds'[r].status = "published"
      /\ rounds'[r].matches = rounds[r].matches /\ rounds'[r].scored = rounds[r].scored
      /\ \A s \in RoundIds \ {r} : rounds'[s] = rounds[s]
  BY <1>1, <1>2 DEF RoundsType, Round
<1>4. TypeOK'
  BY <1>1, <1>3 DEF IInv, TypeOK, RoundsType
<1>5. RoundsInv'
  BY <1>1, <1>2, <1>3 DEF IInv, RoundsInv
<1>6. \A s \in RoundIds : Points(rounds[s]) = Points(rounds'[s])
  BY <1>2, <1>3 DEF Points, IInv, RoundsInv
<1>7. ASSUME NEW o \in Pages, request[o] # Idle
      PROVE  Sound(request[o], rounds')
  <2> DEFINE q == request[o]
  <2>1. q \in Request /\ Sound(q, rounds)
    BY <1>7 DEF IInv, RequestsInv, TypeOK
  <2>2. SoundGenerate(q, rounds')
    <3>1. Drafts(rounds') \subseteq Drafts(rounds)
      BY <1>2, <1>3 DEF Drafts, RoundsType
    <3> QED
      BY <2>1, <3>1 DEF Sound, SoundGenerate
  <2>3. SoundAdd(q, rounds')
    BY <1>2, <1>3, <2>1 DEF Sound, SoundAdd
  <2>4. SoundWritten(q, rounds')
    <3>1. \A s \in Existing(rounds) :
              /\ s \in Existing(rounds')
              /\ rounds[s].matches \subseteq rounds'[s].matches
              /\ rounds[s].status = "published" => rounds'[s].status = "published"
      BY <1>2, <1>3 DEF Existing, RoundsType
    <3>2. Later(q, q)
      BY DEF Later
    <3>3. TypeOK
      BY DEF IInv
    <3> HIDE DEF q
    <3> QED
      BY <1>3, <1>6, <2>1, <3>1, <3>2, <3>3, WrittenSurvives DEF Sound
  <2> QED
    BY <2>1, <2>2, <2>3, <2>4 DEF Sound
<1>8. RequestsInv' /\ ExclusiveInv'
  BY <1>1, <1>7 DEF RequestsInv, ExclusiveInv, IInv, Writing
<1> QED
  BY <1>4, <1>5, <1>6, <1>8 DEF IInv

LEMMA CommitGenerateKeeps ==
    ASSUME IInv, NEW p \in Pages, CommitGenerate(p)
    PROVE  /\ IInv'
           /\ \A r \in RoundIds : Points(rounds[r]) = Points(rounds'[r])
           /\ \E r \in RoundIds :
                 /\ Drafts(rounds') = Drafts(rounds) \cup {r}
                 /\ Existing(rounds') = Existing(rounds) \cup {r}
                 /\ Apart(rounds'[r].matches)
                 /\ \A s \in Existing(rounds) : rounds'[s] = rounds[s]
<1> DEFINE mine == request[p]
<1>1. /\ mine # Idle /\ mine.op = "generate" /\ mine.at = "checked"
      /\ RoundLeft
      /\ request' = Overtaken(p, Idle)
      /\ counted' = counted /\ seen' = seen
  BY DEF CommitGenerate
<1>2. PICK n \in {mine.number, Numbered(rounds)} : rounds' = Inserted(rounds, mine.pairs, n)
  BY DEF CommitGenerate
<1>3. TypeOK
  BY DEF IInv
<1>4. mine \in Request
  BY <1>1, <1>3 DEF TypeOK
<1>5. n \in 0..MaxRounds
  BY <1>1, <1>2, <1>3, <1>4, NumberedInBound DEF Request
<1>6. PICK r \in RoundIds : /\ rounds[r].status = "new"
                           /\ rounds' = [rounds EXCEPT ![r] = Created(mine.pairs, n)]
  BY <1>1, <1>2, <1>3, InsertedIs
<1>7. Apart(mine.pairs)
  BY <1>1 DEF IInv, RequestsInv, Sound, SoundGenerate
<1>8. Created(mine.pairs, n) \in Round
  BY <1>4, <1>5 DEF Created, Round, Request, Match
<1>9. rounds \in RoundsType
  BY <1>3 DEF TypeOK, RoundsType
<1>10. /\ rounds' \in RoundsType
       /\ rounds'[r] = Created(mine.pairs, n)
       /\ \A s \in RoundIds \ {r} : rounds'[s] = rounds[s]
  <2> HIDE DEF mine
  <2> QED
    BY <1>6, <1>8, <1>9 DEF RoundsType
<1>11. /\ rounds'[r].status = "draft" /\ rounds'[r].matches = mine.pairs
       /\ rounds'[r].scored = {}
  BY <1>10 DEF Created
<1>12. TypeOK'
  BY <1>1, <1>3, <1>10, Recorded DEF TypeOK, RoundsType
<1>13. RoundsInv'
  BY <1>1, <1>6, <1>10, <1>11 DEF IInv, RoundsInv
<1>14. \A s \in RoundIds : Points(rounds[s]) = Points(rounds'[s])
  BY <1>6, <1>10, <1>11 DEF Points
<1>15. /\ Drafts(rounds') = Drafts(rounds) \cup {r}
       /\ Existing(rounds') = Existing(rounds) \cup {r}
       /\ r \notin Existing(rounds)
  BY <1>6, <1>9, <1>10, <1>11 DEF Drafts, Existing, RoundsType
<1>16. \A s \in Existing(rounds) : rounds'[s] = rounds[s]
  BY <1>9, <1>10, <1>15 DEF Existing, RoundsType
<1>17. ASSUME NEW o \in Pages, request'[o] # Idle
       PROVE  Sound(request'[o], rounds')
  <2> DEFINE q == request[o]
             x == request'[o]
  <2>1. o # p
    BY <1>1, <1>3, <1>17, Recorded
  <2>2. /\ q # Idle /\ q \in Request /\ x \in Request /\ Later(x, q)
        /\ Kind(mine.op) \in Outdates(q.op) => Kind(mine.op) \in x.overtaken
    BY <1>1, <1>3, <1>17, <2>1, RecordedLater
  <2>3. Sound(q, rounds)
    BY <2>2 DEF IInv, RequestsInv
  <2>4. SoundGenerate(x, rounds')
    <3>1. q.op = "generate" => "generate" \in x.overtaken
      BY <1>1, <2>2 DEF Kind, Outdates
    <3> QED
      BY <2>2, <2>3, <3>1 DEF Sound, SoundGenerate, Later
  <2>5. SoundAdd(x, rounds')
    BY <1>6, <1>10, <2>2, <2>3 DEF Sound, SoundAdd, Later
  <2>6. SoundWritten(x, rounds')
    <3>1. \A s \in Existing(rounds) :
              /\ s \in Existing(rounds')
              /\ rounds[s].matches \subseteq rounds'[s].matches
              /\ rounds[s].status = "published" => rounds'[s].status = "published"
      BY <1>15, <1>16
    <3>2. SoundWritten(q, rounds)
      BY <2>3 DEF Sound
    <3> HIDE DEF q, x
    <3> QED
      BY <1>3, <1>10, <1>14, <2>2, <3>1, <3>2, WrittenSurvives
  <2> QED
    BY <2>2, <2>3, <2>4, <2>5, <2>6 DEF Sound, Later
<1>18. ExclusiveInv'
  BY <1>1, CommitKeepsApart
<1>19. IInv'
  BY <1>12, <1>13, <1>17, <1>18 DEF IInv, RequestsInv
<1> QED
  BY <1>7, <1>11, <1>14, <1>15, <1>16, <1>19

LEMMA CommitAddKeeps ==
    ASSUME IInv, NEW p \in Pages, CommitAdd(p)
    PROVE  /\ IInv'
           /\ \A r \in RoundIds : Points(rounds[r]) = Points(rounds'[r])
           /\ Drafts(rounds') = Drafts(rounds) /\ Existing(rounds') = Existing(rounds)
           /\ \E pair \in request[p].pairs :
                 /\ rounds'[request[p].round].matches = rounds[request[p].round].matches \cup {pair}
                 /\ \A s \in RoundIds \ {request[p].round} : rounds'[s] = rounds[s]
<1> DEFINE mine == request[p]
           r == mine.round
<1>1. /\ mine # Idle /\ mine.op = "add"
      /\ r \in Existing(rounds)
      /\ request' = Overtaken(p, Idle)
      /\ counted' = counted /\ seen' = seen
  BY DEF CommitAdd
<1>2. PICK pair \in mine.pairs : rounds' = WithMatch(rounds, r, pair)
  BY DEF CommitAdd
<1>3. TypeOK
  BY DEF IInv
<1>4. mine \in Request
  BY <1>1, <1>3 DEF TypeOK
<1>5. pair \in Match
  BY <1>2, <1>4 DEF Request, Match
<1>6. rounds \in RoundsType /\ r \in RoundIds /\ rounds[r].status \in {"draft", "published"}
  BY <1>1, <1>3 DEF TypeOK, RoundsType, Existing
<1>7. rounds' = [rounds EXCEPT ![r].matches = @ \cup {pair}]
  BY <1>2 DEF WithMatch
<1>8. /\ rounds' \in RoundsType
      /\ rounds'[r].status = rounds[r].status /\ rounds'[r].scored = rounds[r].scored
      /\ rounds'[r].matches = rounds[r].matches \cup {pair}
      /\ \A s \in RoundIds \ {r} : rounds'[s] = rounds[s]
  <2> HIDE DEF r
  <2> QED
    BY <1>5, <1>6, <1>7 DEF RoundsType, Round
<1>9. TypeOK'
  BY <1>1, <1>3, <1>8, Recorded DEF TypeOK, RoundsType
<1>10. RoundsInv'
  BY <1>1, <1>6, <1>8 DEF IInv, RoundsInv
<1>11. \A s \in RoundIds : Points(rounds[s]) = Points(rounds'[s])
  BY <1>8 DEF Points
<1>12. Drafts(rounds') = Drafts(rounds) /\ Existing(rounds') = Existing(rounds)
  BY <1>6, <1>8 DEF Drafts, Existing, RoundsType
<1>13. ASSUME NEW o \in Pages, request'[o] # Idle
       PROVE  Sound(request'[o], rounds')
  <2> DEFINE q == request[o]
             x == request'[o]
  <2>1. o # p
    BY <1>1, <1>3, <1>13, Recorded
  <2>2. /\ q # Idle /\ q \in Request /\ x \in Request /\ Later(x, q)
        /\ Kind(mine.op) \in Outdates(q.op) => Kind(mine.op) \in x.overtaken
    BY <1>1, <1>3, <1>13, <2>1, RecordedLater
  <2>3. Sound(q, rounds)
    BY <2>2 DEF IInv, RequestsInv
  <2>4. SoundGenerate(x, rounds')
    BY <1>12, <2>2, <2>3 DEF Sound, SoundGenerate, Later
  <2>5. SoundAdd(x, rounds')
    <3>1. q.op = "add" => "add" \in x.overtaken
      BY <1>1, <2>2 DEF Kind, Outdates
    <3> QED
      BY <1>8, <2>2, <2>3, <3>1 DEF Sound, SoundAdd, Later
  <2>6. SoundWritten(x, rounds')
    <3>1. \A s \in Existing(rounds) :
              /\ s \in Existing(rounds')
              /\ rounds[s].matches \subseteq rounds'[s].matches
              /\ rounds[s].status = "published" => rounds'[s].status = "published"
      BY <1>6, <1>8, <1>12 DEF Existing, RoundsType
    <3>2. SoundWritten(q, rounds)
      BY <2>3 DEF Sound
    <3> HIDE DEF q, x
    <3> QED
      BY <1>3, <1>8, <1>11, <2>2, <3>1, <3>2, WrittenSurvives
  <2> QED
    BY <2>2, <2>3, <2>4, <2>5, <2>6 DEF Sound, Later
<1>14. ExclusiveInv'
  BY <1>1, CommitKeepsApart
<1>15. IInv'
  BY <1>9, <1>10, <1>13, <1>14 DEF IInv, RequestsInv
<1> QED
  BY <1>2, <1>8, <1>11, <1>12, <1>15

LEMMA CommitChangeKeeps ==
    ASSUME IInv, NEW p \in Pages, CommitChange(p)
    PROVE  /\ IInv'
           /\ "change" \notin request[p].overtaken => counted' = Results(rounds')
           /\ Drafts(rounds') \subseteq Drafts(rounds)
           /\ Existing(rounds') \subseteq Existing(rounds)
           /\ \A s \in RoundIds : rounds'[s].matches \subseteq rounds[s].matches
<1> DEFINE mine == request[p]
           r == mine.round
           next == IF mine.again THEN [Asking("generate", 0, {}) EXCEPT !.at = "sent"] ELSE Idle
<1>1. /\ mine # Idle /\ mine.at = "written"
      /\ rounds' = Changed(mine, rounds)
      /\ counted' = mine.points
      /\ request' = Overtaken(p, next)
      /\ seen' = seen
  BY DEF CommitChange
<1>2. TypeOK
  BY DEF IInv
<1>3. mine \in Request
  BY <1>1, <1>2 DEF TypeOK
<1>4. SoundWritten(mine, rounds)
  BY <1>1 DEF IInv, RequestsInv, Sound
<1>5. /\ mine.op \in {"remove", "delete", "score"}
      /\ r \in Existing(rounds)
      /\ mine.op = "score" => rounds[r].status = "published"
      /\ mine.pairs \subseteq rounds[r].matches
      /\ "change" \notin mine.overtaken => mine.points = Results(Changed(mine, rounds))
  BY <1>1, <1>4 DEF SoundWritten
<1>6. rounds \in RoundsType /\ r \in RoundIds /\ rounds[r].status \in {"draft", "published"}
  BY <1>2, <1>5 DEF TypeOK, RoundsType, Existing
<1>7. /\ rounds' \in RoundsType
      /\ rounds'[r] = After(mine, rounds[r])
      /\ \A s \in RoundIds \ {r} : rounds'[s] = rounds[s]
  <2> HIDE DEF mine
  <2> QED
    BY <1>1, <1>3, <1>5, <1>6, ChangeOfOneRound
<1>8. /\ rounds'[r].status = IF mine.op = "delete" THEN "deleted" ELSE rounds[r].status
      /\ rounds'[r].matches = IF mine.op = "delete" THEN {}
                  ELSE IF mine.op = "remove" THEN rounds[r].matches \ mine.pairs
                  ELSE rounds[r].matches
      /\ rounds'[r].scored = IF mine.op = "delete" THEN {}
                  ELSE (rounds[r].scored \ mine.pairs)
                          \cup (IF mine.op = "score" /\ mine.scored THEN mine.pairs ELSE {})
  BY <1>7 DEF After
<1>9. /\ next \in Request \cup {Idle}
      /\ next # Idle => next.at = "sent" /\ next.op = "generate"
  <2>1. Asking("generate", 0, {}) \in Request
    BY Asked, InputsAssumption
  <2>2. /\ [Asking("generate", 0, {}) EXCEPT !.at = "sent"] \in Request
        /\ [Asking("generate", 0, {}) EXCEPT !.at = "sent"].at = "sent"
        /\ [Asking("generate", 0, {}) EXCEPT !.at = "sent"].op = "generate"
    BY <2>1 DEF Request, Asking
  <2> QED
    BY <2>2
<1> HIDE DEF next
<1>10. mine.points \subseteq RoundIds \X Match
  BY <1>3 DEF Request
<1>11. TypeOK'
  BY <1>1, <1>2, <1>7, <1>9, <1>10, Recorded DEF TypeOK, RoundsType
<1>12. RoundsInv'
  <2>1. ASSUME NEW s \in RoundIds
        PROVE  /\ rounds'[s].status # "published" => rounds'[s].scored = {}
               /\ rounds'[s].status \notin {"draft", "published"} => rounds'[s].matches = {}
    <3>1. CASE s # r
      BY <1>7, <3>1 DEF IInv, RoundsInv
    <3>2. CASE s = r
      BY <1>5, <1>6, <1>8, <3>2 DEF IInv, RoundsInv
    <3> QED
      BY <3>1, <3>2
  <2>2. ASSUME NEW o \in SlowPages, NEW s \in RoundIds, seen'[o][s].status = "published"
        PROVE  rounds'[s].status \in {"published", "deleted"}
    <3>1. rounds[s].status \in {"published", "deleted"}
      BY <1>1, <2>2 DEF IInv, RoundsInv
    <3> QED
      BY <1>7, <1>8, <3>1
  <2> QED
    BY <2>1, <2>2 DEF RoundsInv
<1>13. /\ Drafts(rounds') \subseteq Drafts(rounds)
       /\ Existing(rounds') \subseteq Existing(rounds)
       /\ \A s \in Existing(rounds) : s # r => s \in Existing(rounds')
       /\ mine.op # "delete" => r \in Existing(rounds')
  BY <1>5, <1>6, <1>7, <1>8 DEF Drafts, Existing, RoundsType
<1>14. \A s \in RoundIds : rounds'[s].matches \subseteq rounds[s].matches
  BY <1>7, <1>8
<1>15. Kind(mine.op) = "change"
  BY <1>5 DEF Kind
<1>16. ASSUME NEW o \in Pages, request'[o] # Idle, o # p
       PROVE  Sound(request'[o], rounds')
  <2> DEFINE q == request[o]
             x == request'[o]
  <2>1. /\ q # Idle /\ q \in Request /\ x \in Request /\ Later(x, q)
        /\ Kind(mine.op) \in Outdates(q.op) => Kind(mine.op) \in x.overtaken
    BY <1>1, <1>2, <1>9, <1>16, RecordedLater
  <2>2. Sound(q, rounds)
    BY <2>1 DEF IInv, RequestsInv
  <2>3. SoundGenerate(x, rounds')
    BY <1>13, <2>1, <2>2 DEF Sound, SoundGenerate, Later
  <2>4. SoundAdd(x, rounds')
    <3> SUFFICES ASSUME x.op = "add"
                 PROVE  SoundAdd(x, rounds')
      BY DEF SoundAdd
    <3>1. q.round \in RoundIds /\ rounds[q.round].status # "new"
      BY <2>1, <2>2 DEF Sound, SoundAdd, Later
    <3>2. rounds'[q.round].status # "new"
      BY <1>7, <1>8, <3>1
    <3> QED
      BY <1>14, <2>1, <2>2, <3>1, <3>2 DEF Sound, SoundAdd, Later
  <2>5. SoundWritten(x, rounds')
    <3> SUFFICES ASSUME x.at = "written"
                 PROVE  SoundWritten(x, rounds')
      BY DEF SoundWritten
    <3>1. /\ q.op \in {"remove", "delete", "score"}
          /\ q.round \in Existing(rounds)
          /\ q.op = "score" => rounds[q.round].status = "published"
          /\ q.pairs \subseteq rounds[q.round].matches
          /\ q.op # "delete" => q.pairs # {}
      BY <2>1, <2>2 DEF Sound, SoundWritten, Later
    <3>2. Separate(q, mine)
      <4>1. Writing(o) /\ Writing(p)
        BY <1>1, <2>1 DEF Writing, Later
      <4> QED
        BY <1>16, <4>1 DEF IInv, ExclusiveInv
    <3>3. "change" \in x.overtaken
      BY <1>15, <2>1, <3>1 DEF Kind, Outdates
    <3>4. q.round \in RoundIds
      BY <1>2, <3>1 DEF Existing, TypeOK
    <3>5. CASE q.round = r
      <4>1. mine.op # "delete" /\ q.pairs \cap mine.pairs = {}
        BY <3>2, <3>5 DEF Separate
      <4>2. q.pairs \subseteq rounds'[r].matches
        BY <1>8, <3>1, <3>5, <4>1
      <4> QED
        BY <1>8, <1>13, <2>1, <3>1, <3>3, <3>5, <4>1, <4>2 DEF SoundWritten, Later
    <3>6. CASE q.round # r
      BY <1>7, <1>13, <2>1, <3>1, <3>3, <3>4, <3>6 DEF SoundWritten, Later
    <3> QED
      BY <3>5, <3>6
  <2> QED
    BY <2>1, <2>2, <2>3, <2>4, <2>5 DEF Sound, Later
<1>17. ASSUME request'[p] # Idle
       PROVE  Sound(request'[p], rounds')
  <2>1. request'[p] = next
    BY <1>1, <1>2, <1>9, Recorded
  <2> QED
    BY <1>9, <1>17, <2>1 DEF Sound, SoundGenerate, SoundAdd, SoundWritten
<1>18. ExclusiveInv'
  BY <1>1, <1>9, CommitKeepsApart
<1>19. IInv'
  BY <1>11, <1>12, <1>16, <1>17, <1>18 DEF IInv, RequestsInv
<1> QED
  BY <1>1, <1>5, <1>13, <1>14, <1>19

LEMMA ReloadKeeps ==
    ASSUME IInv, NEW p \in Pages, Reload(p)
    PROVE  IInv'
<1>1. /\ p \in SlowPages
      /\ seen' = [seen EXCEPT ![p] = Visible(rounds)]
      /\ rounds' = rounds /\ counted' = counted /\ request' = request
  BY DEF Reload
<1>2. ASSUME NEW r \in RoundIds
      PROVE  \E matches \in SUBSET Match :
                Visible(rounds)[r] = [status |-> rounds[r].status, matches |-> matches]
  <2>1. rounds[r].matches \in SUBSET Match
    BY DEF IInv, TypeOK, Round
  <2>2. CASE r \in Drafts(rounds)
    <3>1. Visible(rounds)[r] = [status |-> rounds[r].status, matches |-> rounds[r].matches]
      BY <2>2 DEF Visible
    <3> QED
      BY <2>1, <3>1
  <2>3. CASE r \notin Drafts(rounds)
    <3>1. Visible(rounds)[r] = [status |-> rounds[r].status, matches |-> {}]
      BY <2>3 DEF Visible
    <3> QED
      BY <3>1
  <2> QED
    BY <2>2, <2>3
<1>3. Visible(rounds) \in [RoundIds -> [status : {"new", "draft", "published", "deleted"},
                                       matches : SUBSET Match]]
  <2>1. ASSUME NEW r \in RoundIds
        PROVE  Visible(rounds)[r] \in
                  [status : {"new", "draft", "published", "deleted"}, matches : SUBSET Match]
    <3>1. rounds[r].status \in {"new", "draft", "published", "deleted"}
      BY DEF IInv, TypeOK, Round
    <3>2. PICK matches \in SUBSET Match :
              Visible(rounds)[r] = [status |-> rounds[r].status, matches |-> matches]
      BY <1>2
    <3> QED
      BY <3>1, <3>2
  <2> QED
    BY <2>1 DEF Visible
<1>4. ASSUME NEW r \in RoundIds
      PROVE  Visible(rounds)[r].status = rounds[r].status
  <2>1. PICK matches \in SUBSET Match :
            Visible(rounds)[r] = [status |-> rounds[r].status, matches |-> matches]
    BY <1>2
  <2> QED
    BY <2>1
<1>5. TypeOK'
  BY <1>1, <1>3 DEF IInv, TypeOK
<1>6. RoundsInv'
  <2>1. ASSUME NEW o \in SlowPages, NEW r \in RoundIds, seen'[o][r].status = "published"
        PROVE  rounds[r].status \in {"published", "deleted"}
    <3>1. CASE o = p
      <4>1. seen'[o] = Visible(rounds)
        BY <1>1, <3>1 DEF IInv, TypeOK
      <4> QED
        BY <1>4, <2>1, <4>1
    <3>2. CASE o # p
      <4>1. seen'[o] = seen[o]
        BY <1>1, <3>2 DEF IInv, TypeOK
      <4> QED
        BY <2>1, <4>1 DEF IInv, RoundsInv
    <3> QED
      BY <3>1, <3>2
  <2> QED
    BY <1>1, <2>1 DEF IInv, RoundsInv
<1>7. RequestsInv' /\ ExclusiveInv'
  BY <1>1 DEF IInv, RequestsInv, ExclusiveInv, Writing
<1> QED
  BY <1>5, <1>6, <1>7 DEF IInv

----------------------------------------------------------------------------

(* All steps but the three commits and publishing leave rounds and points. *)
LEMMA StepsOf ==
    ASSUME IInv, NEW p \in Pages, Click(p) \/ Serve(p) \/ Fail(p) \/ Reload(p)
    PROVE  /\ IInv'
           /\ \/ Publish(p) /\ counted' = counted
              \/ CommitGenerate(p) /\ counted' = counted
              \/ CommitAdd(p) /\ counted' = counted
              \/ CommitChange(p)
              \/ rounds' = rounds /\ counted' = counted
<1> DEFINE Effect == /\ IInv'
                     /\ \/ Publish(p) /\ counted' = counted
                        \/ CommitGenerate(p) /\ counted' = counted
                        \/ CommitAdd(p) /\ counted' = counted
                        \/ CommitChange(p)
                        \/ rounds' = rounds /\ counted' = counted
<1>1. CASE Generate(p) \/ GenerateAgain(p)
  BY <1>1, GenerateKeeps DEF Generate, GenerateAgain, Send
<1>2. CASE AddPairing(p)
  BY <1>2, AddPairingKeeps DEF AddPairing, Send
<1>3. CASE RemovePairing(p)
  BY <1>3, RemovePairingKeeps DEF RemovePairing, Send
<1>4. CASE Discard(p) \/ Regenerate(p) \/ DeleteLatest(p)
  BY <1>4, DeletionsKeep DEF Discard, Regenerate, DeleteLatest, DeleteRound, Send
<1>5. CASE EnterScore(p)
  BY <1>5, EnterScoreKeeps DEF EnterScore, Send
<1>6. CASE Publish(p)
  BY <1>6, PublishKeeps DEF Publish
<1>7. CASE WriteRemoval(p)
  BY <1>7, WriteRemovalKeeps DEF WriteRemoval, Send
<1>8. CASE CommitGenerate(p)
  BY <1>8, CommitGenerateKeeps DEF CommitGenerate
<1>9. CASE CommitAdd(p)
  BY <1>9, CommitAddKeeps DEF CommitAdd
<1>10. CASE CommitChange(p)
  BY <1>10, CommitChangeKeeps
<1>11. CASE Fail(p)
  BY <1>11, FailKeeps DEF Fail, Send
<1>12. CASE Reload(p)
  BY <1>12, ReloadKeeps DEF Reload
<1> QED
  BY <1>1, <1>2, <1>3, <1>4, <1>5, <1>6, <1>7, <1>8, <1>9, <1>10, <1>11, <1>12 DEF Click, Serve

LEMMA NextKeeps == IInv /\ [Next]_vars => IInv'
<1> SUFFICES ASSUME IInv, [Next]_vars
             PROVE  IInv'
  OBVIOUS
<1>1. CASE Next
  BY <1>1, StepsOf DEF Next
<1>2. CASE UNCHANGED vars
  BY <1>2 DEF vars, IInv, TypeOK, RoundsInv, RequestsInv, ExclusiveInv, Writing
<1> QED
  BY <1>1, <1>2

(* The inductive invariant: what each request under way may still rely on. *)
THEOREM Invariant == Spec => []IInv
<1> QED
  BY InitHolds, NextKeeps, PTL DEF Spec

(* Rounds, points, pages and requests keep their types; no round gets a    *)
(* number beyond the number of rounds there can be.                        *)
THEOREM TypeCorrect == Spec => []TypeOK
<1>1. IInv => TypeOK
  BY DEF IInv
<1> QED
  BY <1>1, Invariant, PTL

(* However many pages and however old what they show: a second draft takes *)
(* two overlapping requests to create a round.                             *)
THEOREM OneDraft == Spec => SecondDraftOnlyByOverlap
<1> DEFINE Overlap == \E p \in Pages : CommitGenerate(p) /\ "generate" \in request[p].overtaken
           Allowed == (Cardinality(Drafts(rounds)) <= 1 /\ Cardinality(Drafts(rounds')) > 1) => Overlap
<1>1. ASSUME IInv, [Next]_vars
      PROVE  [Allowed]_vars
  <2> SUFFICES ASSUME NEW p \in Pages, Click(p) \/ Serve(p) \/ Fail(p) \/ Reload(p),
                      Cardinality(Drafts(rounds)) <= 1, Cardinality(Drafts(rounds')) > 1
               PROVE  Overlap
    BY <1>1 DEF Next
  <2>1. IsFiniteSet(Drafts(rounds)) /\ Cardinality(Drafts(rounds)) \in Nat
    <3>1. Drafts(rounds) \subseteq RoundIds
      BY <1>1 DEF Drafts, IInv, TypeOK
    <3>2. IsFiniteSet(RoundIds)
      BY InputsAssumption, FS_Interval DEF RoundIds
    <3> QED
      BY <3>1, <3>2, FS_Subset, FS_CardinalityType
  <2>2. ~ (Drafts(rounds') \subseteq Drafts(rounds))
    <3> SUFFICES ASSUME Drafts(rounds') \subseteq Drafts(rounds)
                 PROVE  FALSE
      OBVIOUS
    <3>1. /\ IsFiniteSet(Drafts(rounds'))
          /\ Cardinality(Drafts(rounds')) <= Cardinality(Drafts(rounds))
      BY <2>1, FS_Subset
    <3>2. Cardinality(Drafts(rounds')) \in Nat
      BY <3>1, FS_CardinalityType
    <3> QED
      BY <2>1, <3>1, <3>2
  <2>3. CommitGenerate(p)
    <3>1. CASE Publish(p)
      <4>1. Drafts(rounds') \subseteq Drafts(rounds)
        BY <1>1, <3>1 DEF Publish, Drafts, IInv, TypeOK, Round, Existing
      <4> QED
        BY <2>2, <4>1
    <3>2. CASE CommitAdd(p)
      BY <1>1, <2>2, <3>2, CommitAddKeeps
    <3>3. CASE CommitChange(p)
      BY <1>1, <2>2, <3>3, CommitChangeKeeps
    <3> QED
      BY <1>1, <2>2, <3>1, <3>2, <3>3, StepsOf
  <2>4. ASSUME "generate" \notin request[p].overtaken
        PROVE  FALSE
    <3>1. Drafts(rounds) = {}
      BY <1>1, <2>3, <2>4 DEF CommitGenerate, IInv, RequestsInv, Sound, SoundGenerate
    <3>2. PICK r \in RoundIds : Drafts(rounds') = {r}
      BY <1>1, <2>3, <3>1, CommitGenerateKeeps
    <3>3. Cardinality(Drafts(rounds')) = 1
      BY <3>2, FS_Singleton
    <3> QED
      BY <3>3
  <2> QED
    BY <2>3, <2>4
<1> QED
  BY <1>1, Invariant, PTL DEF Spec, SecondDraftOnlyByOverlap

(* An input gets a second match in a round only by two overlapping         *)
(* requests to add a pairing.                                              *)
THEOREM OneMatchEach == Spec => PairedTwiceOnlyByOverlap
<1> DEFINE Overlap == \E p \in Pages : CommitAdd(p) /\ "add" \in request[p].overtaken
           Allowed == (EachOncePerRound(rounds) /\ ~EachOncePerRound(rounds')) => Overlap
<1>1. ASSUME IInv, [Next]_vars
      PROVE  [Allowed]_vars
  <2> SUFFICES ASSUME NEW p \in Pages, Click(p) \/ Serve(p) \/ Fail(p) \/ Reload(p),
                      EachOncePerRound(rounds), ~Overlap
               PROVE  EachOncePerRound(rounds')
    BY <1>1 DEF Next
  <2>0. Existing(rounds) \subseteq RoundIds
    BY <1>1 DEF Existing, IInv, TypeOK
  <2>1. CASE Publish(p)
    <3>1. Existing(rounds') = Existing(rounds)
      BY <1>1, <2>1 DEF Publish, Existing, IInv, TypeOK, Round
    <3>2. \A r \in RoundIds : rounds'[r].matches = rounds[r].matches
      BY <1>1, <2>1 DEF Publish, IInv, TypeOK, Round
    <3> QED
      BY <2>0, <3>1, <3>2 DEF EachOncePerRound
  <2>2. CASE CommitGenerate(p)
    BY <1>1, <2>0, <2>2, CommitGenerateKeeps DEF EachOncePerRound, Apart
  <2>3. CASE CommitAdd(p)
    <3> DEFINE r == request[p].round
    <3>1. \A x \in request[p].pairs, m \in rounds[r].matches : x \cap m = {}
      BY <1>1, <2>3 DEF CommitAdd, IInv, RequestsInv, Sound, SoundAdd
    <3>2. PICK pair \in request[p].pairs :
              /\ rounds'[r].matches = rounds[r].matches \cup {pair}
              /\ \A s \in RoundIds \ {r} : rounds'[s] = rounds[s]
      BY <1>1, <2>3, CommitAddKeeps
    <3>3. Existing(rounds') = Existing(rounds)
      BY <1>1, <2>3, CommitAddKeeps
    <3> HIDE DEF r
    <3> QED
      BY <2>0, <3>1, <3>2, <3>3 DEF EachOncePerRound
  <2>4. CASE CommitChange(p)
    <3>1. /\ Existing(rounds') \subseteq Existing(rounds)
          /\ \A s \in RoundIds : rounds'[s].matches \subseteq rounds[s].matches
      BY <1>1, <2>4, CommitChangeKeeps
    <3> QED
      BY <2>0, <3>1 DEF EachOncePerRound
  <2>5. CASE rounds' = rounds
    BY <2>5
  <2> QED
    BY <1>1, <2>1, <2>2, <2>3, <2>4, <2>5, StepsOf
<1> QED
  BY <1>1, Invariant, PTL DEF Spec, PairedTwiceOnlyByOverlap

(* The points stay those of the published rounds unless two recalculations *)
(* overlapped.                                                             *)
THEOREM PointsAreCurrent == Spec => PointsStayCurrent
<1> DEFINE Allowed == counted = Results(rounds) =>
                        \/ counted' = Results(rounds')
                        \/ \E p \in Pages : CommitChange(p) /\ "change" \in request[p].overtaken
<1>1. ASSUME IInv, [Next]_vars
      PROVE  [Allowed]_vars
  <2> SUFFICES ASSUME NEW p \in Pages, Click(p) \/ Serve(p) \/ Fail(p) \/ Reload(p),
                      counted = Results(rounds),
                      ~ (CommitChange(p) /\ "change" \in request[p].overtaken)
               PROVE  counted' = Results(rounds')
    BY <1>1 DEF Next
  <2>1. CASE (Publish(p) \/ CommitGenerate(p) \/ CommitAdd(p)) /\ counted' = counted
    <3>1. \A r \in RoundIds : Points(rounds[r]) = Points(rounds'[r])
      BY <1>1, <2>1, PublishKeeps, CommitGenerateKeeps, CommitAddKeeps
    <3>2. rounds \in RoundsType /\ rounds' \in RoundsType
      BY <1>1, NextKeeps DEF IInv, TypeOK, RoundsType
    <3> QED
      BY <2>1, <3>1, <3>2, SameResults
  <2>2. CASE CommitChange(p)
    BY <1>1, <2>2, CommitChangeKeeps
  <2>3. CASE rounds' = rounds /\ counted' = counted
    BY <2>3
  <2> QED
    BY <1>1, <2>1, <2>2, <2>3, StepsOf
<1> QED
  BY <1>1, Invariant, PTL DEF Spec, PointsStayCurrent

----------------------------------------------------------------------------
(* The numbers of the rounds. *)

(* Ids are used in order, the drafts are the newest rounds, and a page that *)
(* shows a draft shows the drafts before it.                               *)
OldestFirst ==
    /\ \A r, s \in RoundIds :
          /\ (rounds[r].status = "new" /\ rounds[s].status # "new") => s < r
          /\ (r \in Drafts(rounds) /\ s \in Published(rounds)) => s < r
    /\ \A p \in SlowPages, r \in RoundIds :
          seen[p][r].status = "draft" =>
             /\ rounds[r].status # "new"
             /\ \A s \in Drafts(rounds) : s < r => seen[p][s].status = "draft"

(* Unless another round was created or changed since, the number of a new  *)
(* round is still the next one, and a page that was up to date deletes a   *)
(* draft or the newest round.                                              *)
Numbering(q, rs) ==
    q.overtaken = {} =>
        /\ (q.op = "generate" /\ q.at = "checked") => q.number = Numbered(rs)
        /\ (q.op = "delete" /\ q.at = "written" /\ ~q.stale) =>
               q.round \in Drafts(rs) \cup Newest(Existing(rs))

NumbersInv ==
    /\ OldestFirst
    /\ \A p \in Pages : request[p] # Idle => Numbering(request[p], rounds)

(* A request that is sent changes no round and no page. *)
LEMMA SendKeepsNumbers ==
    ASSUME TypeOK, NumbersInv, NEW p \in Pages, NEW q, Send(p, q),
           q # Idle => Numbering(q, rounds)
    PROVE  NumbersInv'
<1>1. /\ rounds' = rounds /\ seen' = seen
      /\ request'[p] = q /\ \A o \in Pages \ {p} : request'[o] = request[o]
  BY DEF Send, TypeOK
<1> QED
  BY <1>1 DEF NumbersInv, OldestFirst

LEMMA GenerateKeepsNumbers ==
    ASSUME TypeOK, NumbersInv, NEW p \in Pages, Generate(p) \/ GenerateAgain(p)
    PROVE  NumbersInv'
<1>1. PICK pairs \in Pairings(rounds) : Send(p, Creating(pairs))
  BY DEF Generate, GenerateAgain
<1>2. Creating(pairs).op = "generate" /\ Creating(pairs).number = Numbered(rounds)
  BY DEF Creating, Asking
<1>3. Numbering(Creating(pairs), rounds)
  BY <1>2 DEF Numbering
<1> QED
  BY <1>1, <1>3, SendKeepsNumbers

(* Adding and removing pairings and entering scores number nothing. *)
LEMMA OthersKeepNumbers ==
    ASSUME TypeOK, NumbersInv, NEW p \in Pages,
           NEW q \in Request, q.op \in {"add", "remove", "score"},
           Send(p, q) \/ Send(p, Written(q))
    PROVE  NumbersInv'
<1>1. Numbering(q, rounds)
  BY DEF Numbering
<1>2. Numbering(Written(q), rounds)
  BY WrittenIs DEF Numbering
<1> QED
  BY <1>1, <1>2, SendKeepsNumbers

LEMMA DeleteRoundKeepsNumbers ==
    ASSUME TypeOK, NumbersInv, NEW p \in Pages, NEW r, NEW again \in BOOLEAN,
           DeleteRound(p, r, again),
           ~Outdated(p) => r \in Drafts(rounds) \cup Newest(Existing(rounds))
    PROVE  NumbersInv'
<1> DEFINE q == AskingToDelete(r, again, Outdated(p))
<1>1. Send(p, Written(q)) /\ r \in RoundIds
  BY DEF DeleteRound, AskingToDelete, Existing, TypeOK
<1>2. Outdated(p) \in BOOLEAN
  BY DEF Outdated
<1>3. q \in Request /\ q.op = "delete" /\ q.round = r
  BY <1>1, <1>2, AskedToDelete
<1>4. q.stale = Outdated(p)
  BY DEF AskingToDelete, Asking
<1>5. Written(q).op = "delete" /\ Written(q).round = r /\ Written(q).stale = q.stale
  BY <1>3 DEF Written, Request
<1>6. Numbering(Written(q), rounds)
  BY <1>4, <1>5 DEF Numbering
<1> HIDE DEF q
<1> QED
  BY <1>1, <1>6, SendKeepsNumbers

(* A page that is up to date shows which rounds are drafts and which are   *)
(* published.                                                              *)
LEMMA UpToDate ==
    ASSUME TypeOK, NEW p \in Pages, ~Outdated(p)
    PROVE  /\ Drafts(Shown(p)) = Drafts(rounds)
           /\ Published(Shown(p)) = Published(rounds)
<1>1. \A r \in RoundIds : Shown(p)[r].status = rounds[r].status
  BY DEF Outdated
<1>2. DOMAIN Shown(p) = RoundIds /\ DOMAIN rounds = RoundIds
  BY DEF Shown, Visible, TypeOK
<1> QED
  BY <1>1, <1>2 DEF Drafts, Published

LEMMA DeletionsKeepNumbers ==
    ASSUME TypeOK, NumbersInv, NEW p \in Pages, Discard(p) \/ Regenerate(p) \/ DeleteLatest(p)
    PROVE  NumbersInv'
<1>1. PICK r :
          /\ \E again \in BOOLEAN : DeleteRound(p, r, again)
          /\ \/ r \in ShownDraft(p)
             \/ Drafts(Shown(p)) = {} /\ r \in Newest(Published(Shown(p)))
  BY DEF Discard, Regenerate, DeleteLatest
<1>2. ASSUME ~Outdated(p)
      PROVE  r \in Drafts(rounds) \cup Newest(Existing(rounds))
  <2>1. /\ Drafts(Shown(p)) = Drafts(rounds)
        /\ Published(Shown(p)) = Published(rounds)
    BY <1>2, UpToDate
  <2>2. CASE r \in ShownDraft(p)
    BY <2>1, <2>2 DEF ShownDraft, Oldest
  <2>3. CASE Drafts(Shown(p)) = {} /\ r \in Newest(Published(Shown(p)))
    <3>1. Existing(rounds) = Published(rounds)
      BY <2>1, <2>3 DEF Existing, Published, Drafts
    <3> QED
      BY <2>1, <2>3, <3>1
  <2> QED
    BY <1>1, <2>2, <2>3
<1> QED
  BY <1>1, <1>2, DeleteRoundKeepsNumbers

LEMMA AskingKeepsNumbers ==
    ASSUME IInv, NumbersInv, NEW p \in Pages,
           AddPairing(p) \/ RemovePairing(p) \/ WriteRemoval(p) \/ EnterScore(p) \/ Fail(p)
    PROVE  NumbersInv'
<1>0. TypeOK
  BY DEF IInv
<1>1. CASE AddPairing(p) \/ RemovePairing(p)
  <2>1. ASSUME NEW op \in {"add", "remove"}, NEW r, NEW m, Send(p, Asking(op, r, {m}))
        PROVE  NumbersInv'
    <3>1. Asking(op, r, {m}).op = op
      BY DEF Asking
    <3>2. Numbering(Asking(op, r, {m}), rounds)
      BY <3>1 DEF Numbering
    <3> QED
      BY <1>0, <2>1, <3>2, SendKeepsNumbers
  <2>2. CASE AddPairing(p)
    <3>1. PICK r \in ShownDraft(p), m \in Pairs : Send(p, Asking("add", r, {m}))
      BY <2>2 DEF AddPairing
    <3> QED
      BY <2>1, <3>1
  <2>3. CASE RemovePairing(p)
    <3>1. PICK r \in ShownDraft(p) : \E m \in Shown(p)[r].matches : Send(p, Asking("remove", r, {m}))
      BY <2>3 DEF RemovePairing
    <3>2. PICK m \in Shown(p)[r].matches : Send(p, Asking("remove", r, {m}))
      BY <3>1
    <3> QED
      BY <2>1, <3>2
  <2> QED
    BY <1>1, <2>2, <2>3
<1>2. CASE WriteRemoval(p)
  <2>1. request[p] \in Request /\ request[p].op = "remove" /\ Send(p, Written(request[p]))
    BY <1>0, <1>2 DEF WriteRemoval, TypeOK
  <2> QED
    BY <1>0, <2>1, OthersKeepNumbers
<1>3. CASE EnterScore(p)
  <2> DEFINE Scoring(r, m, scored) == [Asking("score", r, {m}) EXCEPT !.scored = scored]
  <2>1. PICK r \in Published(Shown(p)) : \E m \in rounds[r].matches :
            Send(p, Written(Scoring(r, m, m \notin rounds[r].scored)))
    BY <1>3 DEF EnterScore
  <2>2. PICK m \in rounds[r].matches :
            Send(p, Written(Scoring(r, m, m \notin rounds[r].scored)))
    BY <2>1
  <2>3. ASSUME NEW scored
        PROVE  Numbering(Written(Scoring(r, m, scored)), rounds)
    <3>1. Written(Scoring(r, m, scored)).op = "score"
      BY DEF Written, Asking
    <3> QED
      BY <3>1 DEF Numbering
  <2> HIDE DEF Scoring
  <2> QED
    BY <1>0, <2>2, <2>3, SendKeepsNumbers
<1>4. CASE Fail(p)
  BY <1>0, <1>4, SendKeepsNumbers DEF Fail
<1> QED
  BY <1>1, <1>2, <1>3, <1>4

(* Of several drafts the first is published, however old the page is.      *)
LEMMA PublishKeepsNumbers ==
    ASSUME IInv, NumbersInv, NEW p \in Pages, Publish(p)
    PROVE  /\ NumbersInv'
           /\ Existing(rounds') = Existing(rounds)
           /\ \A r \in RoundIds : rounds'[r].number = rounds[r].number
<1>1. PICK r \in ShownDraft(p) :
          /\ r \in Existing(rounds)
          /\ Free(r, {})
          /\ rounds' = [rounds EXCEPT ![r].status = "published"]
          /\ seen' = seen /\ request' = request
  BY DEF Publish
<1>2. /\ r \in RoundIds /\ rounds[r] \in Round
      /\ rounds[r].status \in {"draft", "published"}
  BY <1>1 DEF Existing, IInv, TypeOK
<1>3. /\ rounds'[r].status = "published"
      /\ \A s \in RoundIds : rounds'[s].number = rounds[s].number
      /\ \A s \in RoundIds \ {r} : rounds'[s] = rounds[s]
      /\ DOMAIN rounds' = RoundIds /\ DOMAIN rounds = RoundIds
  BY <1>1, <1>2 DEF IInv, TypeOK, Round
<1>4. /\ Existing(rounds') = Existing(rounds)
      /\ Drafts(rounds') = Drafts(rounds) \ {r}
      /\ Published(rounds') = Published(rounds) \cup {r}
  BY <1>2, <1>3 DEF Existing, Drafts, Published
<1>5. ASSUME NEW s \in Drafts(rounds), s # r
      PROVE  r < s
  <2>1. s \in RoundIds
    BY <1>3, <1>5 DEF Drafts
  <2>2. CASE rounds[r].status = "published"
    BY <1>2, <1>3, <1>5, <2>1, <2>2 DEF NumbersInv, OldestFirst, Published
  <2>3. CASE p \in SlowPages
    <3>1. seen[p][r].status = "draft" /\ \A t \in Drafts(seen[p]) : r <= t
      BY <1>1, <2>3 DEF ShownDraft, Oldest, Shown, Drafts
    <3>2. ASSUME s < r
          PROVE  FALSE
      <4>1. seen[p][s].status = "draft"
        BY <1>2, <1>5, <2>3, <3>1, <3>2 DEF NumbersInv, OldestFirst
      <4>2. s \in Drafts(seen[p])
        BY <2>1, <2>3, <4>1 DEF Drafts, IInv, TypeOK
      <4> QED
        BY <1>2, <2>1, <3>1, <3>2, <4>2 DEF RoundIds
    <3> QED
      BY <1>2, <1>5, <2>1, <3>2 DEF RoundIds
  <2>4. CASE p \notin SlowPages /\ rounds[r].status = "draft"
    <3>1. s \in Drafts(Shown(p))
      BY <1>3, <1>5, <2>1, <2>4 DEF Shown, Visible, Drafts
    <3>2. r <= s
      BY <1>1, <3>1 DEF ShownDraft, Oldest
    <3> QED
      BY <1>2, <1>5, <2>1, <3>2 DEF RoundIds
  <2> QED
    BY <1>2, <2>2, <2>3, <2>4
<1>6. OldestFirst'
  <2>1. ASSUME NEW s \in RoundIds, NEW t \in RoundIds
        PROVE  /\ (rounds'[s].status = "new" /\ rounds'[t].status # "new") => t < s
               /\ (s \in Drafts(rounds') /\ t \in Published(rounds')) => t < s
    BY <1>2, <1>3, <1>4, <1>5 DEF NumbersInv, OldestFirst
  <2>2. ASSUME NEW o \in SlowPages, NEW s \in RoundIds, seen[o][s].status = "draft"
        PROVE  /\ rounds'[s].status # "new"
               /\ \A t \in Drafts(rounds') : t < s => seen[o][t].status = "draft"
    BY <1>3, <1>4, <2>2 DEF NumbersInv, OldestFirst
  <2> QED
    BY <1>1, <2>1, <2>2 DEF OldestFirst
<1>7. ASSUME NEW o \in Pages, request[o] # Idle
      PROVE  Numbering(request[o], rounds')
  <2>1. Numbered(rounds') = Numbered(rounds)
    BY <1>4 DEF Numbered
  <2>2. ASSUME request[o].op = "delete", request[o].at = "written"
        PROVE  request[o].round # r
    BY <1>1, <1>7, <2>2 DEF Free, Holds
  <2> QED
    BY <1>4, <1>7, <2>1, <2>2 DEF NumbersInv, Numbering
<1> QED
  BY <1>1, <1>3, <1>4, <1>6, <1>7 DEF NumbersInv

LEMMA ReloadKeepsNumbers ==
    ASSUME TypeOK, NumbersInv, NEW p \in Pages, Reload(p)
    PROVE  NumbersInv'
<1>1. /\ p \in SlowPages
      /\ seen' = [seen EXCEPT ![p] = Visible(rounds)]
      /\ rounds' = rounds /\ request' = request
  BY DEF Reload
<1>2. \A r \in RoundIds : Visible(rounds)[r].status = rounds[r].status
  BY DEF Visible
<1>3. ASSUME NEW o \in SlowPages, NEW r \in RoundIds, seen'[o][r].status = "draft"
      PROVE  /\ rounds[r].status # "new"
             /\ \A s \in Drafts(rounds) : s < r => seen'[o][s].status = "draft"
  <2>1. CASE o = p
    <3>1. seen'[o] = Visible(rounds)
      BY <1>1, <2>1 DEF TypeOK
    <3>2. \A s \in Drafts(rounds) : s \in RoundIds /\ rounds[s].status = "draft"
      BY DEF Drafts, TypeOK
    <3> QED
      BY <1>2, <1>3, <3>1, <3>2
  <2>2. CASE o # p
    <3>1. seen'[o] = seen[o]
      BY <1>1, <2>2 DEF TypeOK
    <3> QED
      BY <1>3, <3>1 DEF NumbersInv, OldestFirst
  <2> QED
    BY <2>1, <2>2
<1>4. OldestFirst'
  BY <1>1, <1>3 DEF NumbersInv, OldestFirst
<1> QED
  BY <1>1, <1>4 DEF NumbersInv

(* A commit that changes which rounds there are outdates every request     *)
(* whose number or choice of a round depends on it.                        *)
LEMMA CommitKeepsNumbering ==
    ASSUME TypeOK, NumbersInv, NEW p \in Pages, request[p] # Idle,
           NEW next \in Request \cup {Idle}, next # Idle => next.at = "sent",
           request' = Overtaken(p, next),
           NEW rs,
           \/ Kind(request[p].op) \in {"generate", "change"}
           \/ Existing(rs) = Existing(rounds) /\ Drafts(rs) = Drafts(rounds),
           NEW o \in Pages, request'[o] # Idle
    PROVE  Numbering(request'[o], rs)
<1> DEFINE q == request[o]
           x == request'[o]
           done == Kind(request[p].op)
           late == IF done \in Outdates(q.op) THEN q.overtaken \cup {done} ELSE q.overtaken
<1>1. CASE o = p
  <2>1. x = next
    BY <1>1, Recorded
  <2> QED
    BY <2>1 DEF Numbering
<1>2. CASE o # p
  <2>1. q # Idle /\ x = [q EXCEPT !.overtaken = late]
    BY <1>2, Recorded
  <2>2. q \in Request
    BY <2>1 DEF TypeOK
  <2>3. /\ x.overtaken = late /\ x.op = q.op /\ x.at = q.at /\ x.number = q.number
        /\ x.stale = q.stale /\ x.round = q.round
    BY <2>1, <2>2 DEF Request
  <2>4. Numbering(q, rounds)
    BY <2>1 DEF NumbersInv
  <2>5. CASE done \in {"generate", "change"}
    <3>1. q.op \in {"generate", "delete"} => x.overtaken # {}
      BY <2>3, <2>5 DEF Outdates
    <3> QED
      BY <2>3, <3>1 DEF Numbering
  <2>6. CASE Existing(rs) = Existing(rounds) /\ Drafts(rs) = Drafts(rounds)
    <3>1. x.overtaken = {} => q.overtaken = {}
      BY <2>3
    <3> QED
      BY <2>3, <2>4, <2>6, <3>1 DEF Numbering, Numbered
  <2> QED
    BY <2>5, <2>6
<1> QED
  BY <1>1, <1>2

(* A new round comes after all others.                                     *)
LEMMA CommitGenerateKeepsNumbers ==
    ASSUME IInv, NumbersInv, NEW p \in Pages, CommitGenerate(p)
    PROVE  /\ NumbersInv'
           /\ \E r \in RoundIds :
                 /\ Existing(rounds') = Existing(rounds) \cup {r}
                 /\ \A s \in Existing(rounds) : s < r /\ rounds'[s] = rounds[s]
                 /\ request[p].overtaken = {} => rounds'[r].number = Numbered(rounds)
<1> DEFINE mine == request[p]
<1>1. /\ mine # Idle /\ mine.op = "generate" /\ mine.at = "checked"
      /\ RoundLeft
      /\ request' = Overtaken(p, Idle)
      /\ seen' = seen
  BY DEF CommitGenerate
<1>2. PICK n \in {mine.number, Numbered(rounds)} : rounds' = Inserted(rounds, mine.pairs, n)
  BY DEF CommitGenerate
<1>3. TypeOK
  BY DEF IInv
<1>4. PICK r \in RoundIds : /\ rounds[r].status = "new"
                           /\ \A s \in RoundIds : rounds[s].status = "new" => r <= s
                           /\ rounds' = [rounds EXCEPT ![r] = Created(mine.pairs, n)]
  BY <1>1, <1>2, <1>3, InsertedIs
<1>5. /\ rounds'[r].status = "draft" /\ rounds'[r].number = n
      /\ \A s \in RoundIds \ {r} : rounds'[s] = rounds[s]
      /\ DOMAIN rounds' = RoundIds /\ DOMAIN rounds = RoundIds
  BY <1>3, <1>4 DEF TypeOK, Created
<1>6. /\ Existing(rounds') = Existing(rounds) \cup {r}
      /\ Drafts(rounds') = Drafts(rounds) \cup {r}
      /\ Published(rounds') = Published(rounds)
      /\ Existing(rounds) = Drafts(rounds) \cup Published(rounds)
      /\ Existing(rounds) \subseteq RoundIds
      /\ r \notin Existing(rounds)
  BY <1>4, <1>5 DEF Existing, Drafts, Published
<1>7. \A s \in RoundIds : rounds[s].status # "new" => s < r
  BY <1>4 DEF NumbersInv, OldestFirst
<1>8. \A s \in Existing(rounds) : s < r /\ rounds'[s] = rounds[s]
  BY <1>5, <1>6, <1>7 DEF Existing
<1>9. OldestFirst'
  <2>1. ASSUME NEW s \in RoundIds, NEW t \in RoundIds
        PROVE  /\ (rounds'[s].status = "new" /\ rounds'[t].status # "new") => t < s
               /\ (s \in Drafts(rounds') /\ t \in Published(rounds')) => t < s
    <3>1. (rounds'[s].status = "new" /\ rounds'[t].status # "new") => t < s
      <4>1. CASE t = r /\ s # r
        BY <1>4, <1>5, <4>1 DEF RoundIds
      <4>2. CASE t # r /\ s # r
        BY <1>5, <4>2 DEF NumbersInv, OldestFirst
      <4> QED
        BY <1>5, <4>1, <4>2
    <3>2. (s \in Drafts(rounds') /\ t \in Published(rounds')) => t < s
      BY <1>6, <1>8 DEF NumbersInv, OldestFirst
    <3> QED
      BY <3>1, <3>2
  <2>2. ASSUME NEW o \in SlowPages, NEW s \in RoundIds, seen[o][s].status = "draft"
        PROVE  /\ rounds'[s].status # "new"
               /\ \A t \in Drafts(rounds') : t < s => seen[o][t].status = "draft"
    <3>1. rounds[s].status # "new"
      BY <2>2 DEF NumbersInv, OldestFirst
    <3>2. s < r
      BY <1>7, <3>1
    <3>3. \A t \in Drafts(rounds) : t < s => seen[o][t].status = "draft"
      BY <2>2 DEF NumbersInv, OldestFirst
    <3> QED
      BY <1>5, <1>6, <3>1, <3>2, <3>3 DEF RoundIds
  <2> QED
    BY <1>1, <2>1, <2>2 DEF OldestFirst
<1>10. \A o \in Pages : request'[o] # Idle => Numbering(request'[o], rounds')
  <2>1. Kind(mine.op) = "generate"
    BY <1>1 DEF Kind
  <2> QED
    BY <1>1, <1>3, <2>1, CommitKeepsNumbering
<1>11. mine.overtaken = {} => rounds'[r].number = Numbered(rounds)
  BY <1>1, <1>2, <1>5 DEF NumbersInv, Numbering
<1> QED
  BY <1>6, <1>8, <1>9, <1>10, <1>11 DEF NumbersInv

LEMMA CommitAddKeepsNumbers ==
    ASSUME IInv, NumbersInv, NEW p \in Pages, CommitAdd(p)
    PROVE  /\ NumbersInv'
           /\ Existing(rounds') = Existing(rounds)
           /\ \A r \in RoundIds : rounds'[r].number = rounds[r].number
<1> DEFINE mine == request[p]
<1>1. /\ mine # Idle /\ mine.op = "add"
      /\ request' = Overtaken(p, Idle)
      /\ seen' = seen
  BY DEF CommitAdd
<1>2. PICK pair : rounds' = [rounds EXCEPT ![mine.round].matches = @ \cup {pair}]
  BY DEF CommitAdd, WithMatch
<1>3. TypeOK
  BY DEF IInv
<1>4. /\ \A r \in RoundIds : /\ rounds'[r].status = rounds[r].status
                             /\ rounds'[r].number = rounds[r].number
      /\ DOMAIN rounds' = RoundIds /\ DOMAIN rounds = RoundIds
  <2> HIDE DEF mine
  <2> QED
    BY <1>2, <1>3 DEF TypeOK, Round
<1>5. /\ Existing(rounds') = Existing(rounds)
      /\ Drafts(rounds') = Drafts(rounds)
      /\ Published(rounds') = Published(rounds)
  BY <1>4 DEF Existing, Drafts, Published
<1>6. OldestFirst'
  <2>1. OldestFirst
    BY DEF NumbersInv
  <2> QED
    BY <1>1, <1>4, <1>5, <2>1 DEF OldestFirst
<1>7. \A o \in Pages : request'[o] # Idle => Numbering(request'[o], rounds')
  BY <1>1, <1>3, <1>5, CommitKeepsNumbering
<1> QED
  BY <1>4, <1>5, <1>6, <1>7 DEF NumbersInv

(* A deletion takes its round away; any other change numbers nothing.      *)
LEMMA CommitChangeKeepsNumbers ==
    ASSUME IInv, NumbersInv, NEW p \in Pages, CommitChange(p)
    PROVE  LET mine == request[p]
           IN  /\ NumbersInv'
               /\ Existing(rounds') = IF mine.op = "delete" THEN Existing(rounds) \ {mine.round}
                                                            ELSE Existing(rounds)
               /\ mine.op = "delete" => mine.at = "written" /\ mine.round \in Existing(rounds)
               /\ \A r \in Existing(rounds') : rounds'[r].number = rounds[r].number
<1> DEFINE mine == request[p]
           r == mine.round
           next == IF mine.again THEN [Asking("generate", 0, {}) EXCEPT !.at = "sent"] ELSE Idle
<1>1. /\ mine # Idle /\ mine.at = "written"
      /\ rounds' = Changed(mine, rounds)
      /\ request' = Overtaken(p, next)
      /\ seen' = seen
  BY DEF CommitChange
<1>2. TypeOK
  BY DEF IInv
<1>3. mine \in Request /\ rounds \in RoundsType
  BY <1>1, <1>2 DEF TypeOK, RoundsType
<1>4. mine.op \in {"remove", "delete", "score"} /\ r \in Existing(rounds)
  BY <1>1 DEF IInv, RequestsInv, Sound, SoundWritten
<1>5. r \in RoundIds
  BY <1>2, <1>4 DEF TypeOK, Existing
<1>6. /\ rounds' \in RoundsType
      /\ rounds'[r] = After(mine, rounds[r])
      /\ \A s \in RoundIds \ {r} : rounds'[s] = rounds[s]
  <2> HIDE DEF mine
  <2> QED
    BY <1>1, <1>3, <1>4, <1>5, ChangeOfOneRound
<1>7. /\ rounds'[r].status = IF mine.op = "delete" THEN "deleted" ELSE rounds[r].status
      /\ mine.op # "delete" => rounds'[r].number = rounds[r].number
      /\ DOMAIN rounds' = RoundIds /\ DOMAIN rounds = RoundIds
  BY <1>3, <1>6 DEF After, RoundsType
<1>8. /\ Existing(rounds') = IF mine.op = "delete" THEN Existing(rounds) \ {r} ELSE Existing(rounds)
      /\ Drafts(rounds') \subseteq Drafts(rounds)
      /\ Published(rounds') \subseteq Published(rounds)
  BY <1>5, <1>6, <1>7 DEF Existing, Drafts, Published
<1>9. \A s \in RoundIds : rounds'[s].status = "new" <=> rounds[s].status = "new"
  <2>1. rounds[r].status # "new"
    BY <1>4 DEF Existing
  <2> QED
    BY <1>6, <1>7, <2>1
<1>10. \A s \in Existing(rounds') : rounds'[s].number = rounds[s].number
  BY <1>6, <1>7, <1>8 DEF Existing
<1>11. OldestFirst'
  <2>1. OldestFirst
    BY DEF NumbersInv
  <2>2. ASSUME NEW s \in RoundIds, NEW t \in RoundIds
        PROVE  /\ (rounds'[s].status = "new" /\ rounds'[t].status # "new") => t < s
               /\ (s \in Drafts(rounds') /\ t \in Published(rounds')) => t < s
    BY <1>8, <1>9, <2>1 DEF OldestFirst
  <2>3. ASSUME NEW o \in SlowPages, NEW s \in RoundIds, seen[o][s].status = "draft"
        PROVE  /\ rounds'[s].status # "new"
               /\ \A t \in Drafts(rounds') : t < s => seen[o][t].status = "draft"
    BY <1>8, <1>9, <2>1, <2>3 DEF OldestFirst
  <2> QED
    BY <1>1, <2>2, <2>3 DEF OldestFirst
<1>12. \A o \in Pages : request'[o] # Idle => Numbering(request'[o], rounds')
  <2>1. Kind(mine.op) = "change"
    BY <1>4 DEF Kind
  <2>2. next \in Request \cup {Idle} /\ (next # Idle => next.at = "sent")
    <3>1. Asking("generate", 0, {}) \in Request
      BY Asked, InputsAssumption
    <3>2. /\ [Asking("generate", 0, {}) EXCEPT !.at = "sent"] \in Request
          /\ [Asking("generate", 0, {}) EXCEPT !.at = "sent"].at = "sent"
      BY <3>1 DEF Request, Asking
    <3> QED
      BY <3>2
  <2> HIDE DEF next
  <2> QED
    BY <1>1, <1>2, <2>1, <2>2, CommitKeepsNumbering
<1> QED
  BY <1>1, <1>4, <1>8, <1>10, <1>11, <1>12 DEF NumbersInv

LEMMA NumbersKept == IInv /\ NumbersInv /\ [Next]_vars => NumbersInv'
<1> SUFFICES ASSUME IInv, NumbersInv, [Next]_vars
             PROVE  NumbersInv'
  OBVIOUS
<1>0. TypeOK
  BY DEF IInv
<1>1. ASSUME NEW p \in Pages, Click(p) \/ Serve(p) \/ Fail(p) \/ Reload(p)
      PROVE  NumbersInv'
  BY <1>0, <1>1, GenerateKeepsNumbers, AskingKeepsNumbers, DeletionsKeepNumbers,
     PublishKeepsNumbers, CommitGenerateKeepsNumbers, CommitAddKeepsNumbers,
     CommitChangeKeepsNumbers, ReloadKeepsNumbers DEF Click, Serve
<1>2. CASE UNCHANGED vars
  BY <1>2 DEF vars, NumbersInv, OldestFirst
<1> QED
  BY <1>1, <1>2 DEF Next

LEMMA NumbersAtFirst == Init => NumbersInv
<1> SUFFICES ASSUME Init
             PROVE  NumbersInv
  OBVIOUS
<1>1. \A r \in RoundIds : rounds[r].status = "new"
  BY DEF Init, NewRound
<1>2. DOMAIN rounds = RoundIds
  BY DEF Init
<1>3. \A p \in SlowPages, r \in RoundIds : seen[p][r].status = "new"
  BY <1>1 DEF Init, Visible
<1> QED
  BY <1>1, <1>2, <1>3 DEF Init, NumbersInv, OldestFirst, Drafts

(* Rounds and pages are in the order in which the rounds were created.     *)
THEOREM NumbersInvariant == Spec => []NumbersInv
<1> QED
  BY Invariant, NumbersAtFirst, NumbersKept, PTL DEF Spec

----------------------------------------------------------------------------
(* What keeps rounds numbered in order. *)

UpTo(rs, r) == {s \in Existing(rs) : s <= r}

LEMMA SameOrder ==
    ASSUME NEW rs, NEW rt, InOrder(rs),
           Existing(rt) \subseteq Existing(rs),
           \A r \in Existing(rt) : /\ UpTo(rt, r) = UpTo(rs, r)
                                   /\ rt[r].number = rs[r].number
    PROVE  InOrder(rt)
BY DEF InOrder, UpTo

(* A round is added behind all others, with the number after theirs.       *)
LEMMA AddedInOrder ==
    ASSUME NEW rs, NEW rt, NEW r \in RoundIds, InOrder(rs),
           Existing(rs) \subseteq RoundIds,
           Existing(rt) = Existing(rs) \cup {r},
           \A s \in Existing(rs) : s < r /\ rt[s] = rs[s],
           rt[r].number = Numbered(rs)
    PROVE  InOrder(rt)
<1>1. IsFiniteSet(Existing(rs))
  BY InputsAssumption, FS_Interval, FS_Subset DEF RoundIds
<1>2. r \notin Existing(rs)
  BY DEF RoundIds
<1>3. Cardinality(Existing(rt)) = Numbered(rs)
  BY <1>1, <1>2, FS_AddElement DEF Numbered
<1>4. {s \in Existing(rt) : s <= r} = Existing(rt)
  BY DEF RoundIds
<1>5. ASSUME NEW t \in Existing(rs)
      PROVE  {s \in Existing(rt) : s <= t} = {s \in Existing(rs) : s <= t}
  BY DEF RoundIds
<1>6. \A t \in Existing(rs) : rt[t].number = Cardinality({s \in Existing(rt) : s <= t})
  BY <1>5 DEF InOrder
<1> QED
  BY <1>3, <1>4, <1>6 DEF InOrder

(* The newest round goes. *)
LEMMA RemovedInOrder ==
    ASSUME NEW rs, NEW rt, NEW r \in Newest(Existing(rs)), InOrder(rs),
           Existing(rs) \subseteq RoundIds,
           Existing(rt) = Existing(rs) \ {r},
           \A s \in Existing(rt) : rt[s].number = rs[s].number
    PROVE  InOrder(rt)
<1>1. \A s \in Existing(rs) : s <= r
  BY DEF Newest
<1>2. r \in RoundIds
  BY DEF Newest
<1>3. ASSUME NEW t \in Existing(rt)
      PROVE  UpTo(rt, t) = UpTo(rs, t)
  <2>1. t \in RoundIds /\ t <= r /\ t # r
    BY <1>1, <1>3
  <2>2. ~ (r <= t)
    BY <1>2, <2>1 DEF RoundIds
  <2> QED
    BY <2>2 DEF UpTo
<1> QED
  BY <1>3, SameOrder

(* The only draft is the newest round.                                     *)
LEMMA OnlyDraftIsNewest ==
    ASSUME TypeOK, OldestFirst, NEW r \in Drafts(rounds), Cardinality(Drafts(rounds)) <= 1
    PROVE  r \in Newest(Existing(rounds))
<1>1. Drafts(rounds) \subseteq RoundIds /\ Existing(rounds) = Drafts(rounds) \cup Published(rounds)
  BY DEF TypeOK, Drafts, Existing, Published
<1>2. IsFiniteSet(Drafts(rounds))
  BY <1>1, InputsAssumption, FS_Interval, FS_Subset DEF RoundIds
<1>3. ASSUME NEW s \in Drafts(rounds), s # r
      PROVE  FALSE
  <2>1. /\ IsFiniteSet({r}) /\ Cardinality({r}) = 1
    BY FS_Singleton
  <2>2. Cardinality({r} \cup {s}) = 2
    BY <1>3, <2>1, FS_AddElement
  <2>3. {r} \cup {s} \subseteq Drafts(rounds)
    BY <1>3
  <2>4. Cardinality({r} \cup {s}) <= Cardinality(Drafts(rounds))
    BY <1>2, <2>3, FS_Subset
  <2>5. Cardinality(Drafts(rounds)) \in Nat
    BY <1>2, FS_CardinalityType
  <2> QED
    BY <2>2, <2>4, <2>5
<1>4. \A s \in Existing(rounds) : s <= r
  <2>1. \A s \in Published(rounds) : s \in RoundIds /\ s < r
    BY <1>1 DEF OldestFirst, Published, TypeOK
  <2> QED
    BY <1>1, <1>3, <2>1 DEF RoundIds
<1> QED
  BY <1>1, <1>4 DEF Newest

(* Rounds stay numbered in order but for overlapping requests, a deletion  *)
(* from a page that is out of date, and what follows from two drafts.      *)
THEOREM NumbersStayInOrder == Spec => NumberedInOrder
<1> DEFINE Overlap(p) == \/ CommitGenerate(p) /\ request[p].overtaken # {}
                         \/ CommitChange(p) /\ (request[p].stale \/ request[p].overtaken # {})
                         \/ Cardinality(Drafts(rounds)) > 1
           Allowed == (InOrder(rounds) /\ ~InOrder(rounds')) => \E p \in Pages : Overlap(p)
<1>1. ASSUME IInv, NumbersInv, [Next]_vars
      PROVE  [Allowed]_vars
  <2> SUFFICES ASSUME NEW p \in Pages, Click(p) \/ Serve(p) \/ Fail(p) \/ Reload(p),
                      InOrder(rounds), ~Overlap(p)
               PROVE  InOrder(rounds')
    BY <1>1 DEF Next
  <2>0. TypeOK /\ OldestFirst /\ Existing(rounds) \subseteq RoundIds
    BY <1>1 DEF IInv, NumbersInv, TypeOK, Existing
  <2>1. CASE Publish(p) \/ CommitAdd(p)
    <3>1. /\ Existing(rounds') = Existing(rounds)
          /\ \A r \in RoundIds : rounds'[r].number = rounds[r].number
      BY <1>1, <2>1, PublishKeepsNumbers, CommitAddKeepsNumbers
    <3> QED
      BY <2>0, <3>1, SameOrder DEF UpTo
  <2>2. CASE CommitGenerate(p)
    <3>1. PICK r \in RoundIds :
              /\ Existing(rounds') = Existing(rounds) \cup {r}
              /\ \A s \in Existing(rounds) : s < r /\ rounds'[s] = rounds[s]
              /\ request[p].overtaken = {} => rounds'[r].number = Numbered(rounds)
      BY <1>1, <2>2, CommitGenerateKeepsNumbers
    <3> QED
      BY <2>0, <2>2, <3>1, AddedInOrder
  <2>3. CASE CommitChange(p)
    <3> DEFINE mine == request[p]
    <3>1. /\ Existing(rounds') = IF mine.op = "delete" THEN Existing(rounds) \ {mine.round}
                                                       ELSE Existing(rounds)
          /\ mine.op = "delete" => mine.at = "written"
          /\ \A r \in Existing(rounds') : rounds'[r].number = rounds[r].number
      BY <1>1, <2>3, CommitChangeKeepsNumbers
    <3>2. CASE mine.op # "delete"
      BY <3>1, <3>2, SameOrder DEF UpTo
    <3>3. CASE mine.op = "delete"
      <4>1. mine.overtaken = {} /\ ~mine.stale /\ mine # Idle
        BY <2>3 DEF CommitChange
      <4>2. mine.round \in Drafts(rounds) \cup Newest(Existing(rounds))
        BY <1>1, <3>1, <3>3, <4>1 DEF NumbersInv, Numbering
      <4>3. Cardinality(Drafts(rounds)) <= 1
        <5>1. Drafts(rounds) \subseteq RoundIds
          BY <2>0 DEF TypeOK, Drafts
        <5>2. IsFiniteSet(RoundIds)
          BY InputsAssumption, FS_Interval DEF RoundIds
        <5>3. Cardinality(Drafts(rounds)) \in Nat
          BY <5>1, <5>2, FS_Subset, FS_CardinalityType
        <5> QED
          BY <5>3
      <4>4. mine.round \in Newest(Existing(rounds))
        BY <2>0, <4>2, <4>3, OnlyDraftIsNewest
      <4> HIDE DEF mine
      <4> QED
        BY <2>0, <3>1, <3>3, <4>4, RemovedInOrder
    <3> QED
      BY <3>2, <3>3
  <2>4. CASE rounds' = rounds
    BY <2>4
  <2> QED
    BY <1>1, <2>1, <2>2, <2>3, <2>4, StepsOf
<1> QED
  BY <1>1, Invariant, NumbersInvariant, PTL DEF Spec, NumberedInOrder
=============================================================================
