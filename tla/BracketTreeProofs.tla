------------------------- MODULE BracketTreeProofs -------------------------
(***************************************************************************)
(* Where in a bracket an input can get to.  The places of an input are the *)
(* side it is seeded on and, with each place, the side fed by the match of *)
(* that place.  They do not depend on any score, so a side that was left   *)
(* stale is a place of its input too; and no two are in the same round.    *)
(***************************************************************************)
EXTENDS BracketTree, TLAPS, FiniteSetTheorems, WellFoundedInduction

(* What is assumed of the tree, written out.                                *)
LEMMA TreeIs ==
    /\ Matches \subseteq Nat \ {None}
    /\ Entrants \subseteq Nat \ {None}
    /\ RoundOf \in [Matches -> Nat]
    /\ Feeder \in [Matches -> [Sides -> Matches \cup {None}]]
    /\ \A m \in Matches, k \in Sides :
          Feeder[m][k] # None => RoundOf[Feeder[m][k]] < RoundOf[m]
    /\ Seed \in [Matches -> Sheet]
    /\ \A m \in Matches, k \in Sides : Feeder[m][k] # None => Seed[m][k] = None
    /\ Scores \subseteq Nat \X Nat
    /\ NoScore \in Scores
BY TreeAssumption DEF IsTree, Sheet

LEMMA RoundsAre ==
    \A m, o \in Matches, k, l \in Sides :
        /\ (Seed[m][k] # None /\ Seed[m][k] = Seed[o][l]) => (m = o /\ k = l)
        /\ (Feeder[m][k] # None /\ Feeder[m][k] = Feeder[o][l]) => (m = o /\ k = l)
        /\ (Feeder[m][k] # None /\ RoundOf[m] = RoundOf[o]) =>
              /\ Feeder[o][l] # None
              /\ RoundOf[Feeder[m][k]] = RoundOf[Feeder[o][l]]
BY RoundsAssumption DEF IsRoundByRound

(* A set of numbers that is not empty has a first one.                      *)
LEMMA LeastExists ==
    ASSUME NEW S \in SUBSET Nat, S # {}
    PROVE  \E x \in S : \A s \in S : x <= s
<1> DEFINE Less == {pair \in Nat \X Nat : pair[1] < pair[2]}
<1>1. IsWellFoundedOn(Less, Nat)
  BY ONLY NatLessThanWellFounded DEF OpToRel
<1>2. PICK x \in S : \A y \in S : ~(<<y, x>> \in Less)
  <2> HIDE DEF Less
  <2> QED
    BY <1>1, WFMin
<1>3. \A y \in S : ~(y < x)
  BY <1>2
<1> QED
  BY <1>3

Positions == Matches \X Sides

(* A set of positions that contains where x is seeded and every side fed    *)
(* from the set.                                                            *)
ClosedFor(x, P) ==
    \A m \in Matches, k \in Sides :
        \/ Seed[m][k] = x
        \/ Feeder[m][k] # None /\ \E l \in Sides : <<Feeder[m][k], l>> \in P
        => <<m, k>> \in P

Places(x) == {p \in Positions : \A P \in SUBSET Positions : ClosedFor(x, P) => p \in P}

(* Every side shows an input that can get there, or nobody. *)
Placed(in) ==
    \A m \in Matches, k \in Sides : in[m][k] # None => <<m, k>> \in Places(in[m][k])

----------------------------------------------------------------------------

(* A winner is an input of the stage item, or nobody. *)
LEMMA WinnerType ==
    ASSUME NEW sheet \in Sheet, NEW score
    PROVE  Winner(sheet, score) \in Entrants \cup {None}
  BY DEF Winner, Sheet, Sides

(* A match may show nobody. *)
LEMMA EmptySheetType == EmptySheet \in Sheet
  BY DEF EmptySheet, Sheet

(* The places of an input are closed themselves. *)
LEMMA PlacesClosed == \A x : ClosedFor(x, Places(x))
<1> SUFFICES ASSUME NEW x, NEW m \in Matches, NEW k \in Sides,
                    \/ Seed[m][k] = x
                    \/ /\ Feeder[m][k] # None
                       /\ \E l \in Sides : <<Feeder[m][k], l>> \in Places(x),
                    NEW P \in SUBSET Positions, ClosedFor(x, P)
             PROVE  <<m, k>> \in P
  BY DEF ClosedFor, Places, Positions
<1> QED
  BY DEF ClosedFor, Places

(* A place is where the input is seeded or is fed from another place:       *)
(* without it the set would be closed as well.                              *)
LEMMA PlaceHasOrigin ==
    ASSUME NEW x, NEW m \in Matches, NEW k \in Sides, <<m, k>> \in Places(x)
    PROVE  \/ Seed[m][k] = x
           \/ /\ Feeder[m][k] # None
              /\ \E l \in Sides : <<Feeder[m][k], l>> \in Places(x)
<1> SUFFICES ASSUME Seed[m][k] # x,
                    ~(/\ Feeder[m][k] # None
                      /\ \E l \in Sides : <<Feeder[m][k], l>> \in Places(x))
             PROVE  FALSE
  OBVIOUS
<1> DEFINE Rest == Places(x) \ {<<m, k>>}
<1>1. Rest \in SUBSET Positions
  BY DEF Places
<1>2. ClosedFor(x, Rest)
  <2> SUFFICES ASSUME NEW n \in Matches, NEW j \in Sides,
                      \/ Seed[n][j] = x
                      \/ Feeder[n][j] # None /\ \E l \in Sides : <<Feeder[n][j], l>> \in Rest
               PROVE  <<n, j>> \in Rest
    BY DEF ClosedFor
  <2>1. <<n, j>> \in Places(x)
    BY PlacesClosed DEF ClosedFor
  <2>2. <<n, j>> # <<m, k>>
    OBVIOUS
  <2> QED
    BY <2>1, <2>2
<1>3. <<m, k>> \in Rest
  <2> HIDE DEF Rest
  <2> QED
    BY <1>1, <1>2 DEF Places
<1> QED
  BY <1>3

(* x has two places in round r. *)
TwicePlaced(x, r) ==
    \E m, o \in Matches, k, l \in Sides :
        /\ <<m, k>> \in Places(x) /\ <<o, l>> \in Places(x)
        /\ RoundOf[m] = r /\ RoundOf[o] = r
        /\ ~(m = o /\ k = l)

(* Two places in one round have their origins in one earlier round: they    *)
(* are not both where the input is seeded.                                  *)
LEMMA OriginsMeetToo ==
    ASSUME NEW x, x # None, NEW r \in Nat, TwicePlaced(x, r)
    PROVE  \E s \in Nat : s < r /\ TwicePlaced(x, s)
<1>1. PICK m, o \in Matches, k, l \in Sides :
          /\ <<m, k>> \in Places(x) /\ <<o, l>> \in Places(x)
          /\ RoundOf[m] = r /\ RoundOf[o] = r
          /\ ~(m = o /\ k = l)
  BY DEF TwicePlaced
<1>2. CASE Feeder[m][k] = None
  <2>1. Seed[m][k] = x
    BY <1>1, <1>2, PlaceHasOrigin
  <2>2. Seed[o][l] = x
    <3>1. Feeder[o][l] = None
      BY <1>1, <1>2, RoundsAre
    <3> QED
      BY <1>1, <3>1, PlaceHasOrigin
  <2> QED
    BY <1>1, <2>1, <2>2, RoundsAre
<1>3. CASE Feeder[m][k] # None
  <2>1. Feeder[o][l] # None /\ RoundOf[Feeder[m][k]] = RoundOf[Feeder[o][l]]
    BY <1>1, <1>3, RoundsAre
  <2>2. Seed[m][k] # x /\ Seed[o][l] # x
    BY <1>3, <2>1, TreeIs
  <2>3. PICK i \in Sides : <<Feeder[m][k], i>> \in Places(x)
    BY <1>1, <2>2, PlaceHasOrigin
  <2>4. PICK j \in Sides : <<Feeder[o][l], j>> \in Places(x)
    BY <1>1, <2>2, PlaceHasOrigin
  <2>5. Feeder[m][k] # Feeder[o][l]
    BY <1>1, <1>3, RoundsAre
  <2>6. /\ Feeder[m][k] \in Matches /\ Feeder[o][l] \in Matches
        /\ RoundOf[Feeder[m][k]] < r
        /\ RoundOf[Feeder[m][k]] \in Nat
    <3>1. RoundOf[Feeder[m][k]] < RoundOf[m]
      BY <1>3, TreeIs
    <3>2. Feeder[m][k] \in Matches /\ Feeder[o][l] \in Matches
      BY <1>3, <2>1, TreeIs
    <3>3. RoundOf[Feeder[m][k]] \in Nat
      BY <3>2, TreeIs
    <3> QED
      BY <1>1, <3>1, <3>2, <3>3
  <2>7. TwicePlaced(x, RoundOf[Feeder[m][k]])
    <3> DEFINE f == Feeder[m][k]
               g == Feeder[o][l]
    <3>1. /\ f \in Matches /\ g \in Matches /\ f # g /\ RoundOf[f] = RoundOf[g]
          /\ <<f, i>> \in Places(x) /\ <<g, j>> \in Places(x)
      BY <2>1, <2>3, <2>4, <2>5, <2>6
    <3> HIDE DEF f, g
    <3>2. TwicePlaced(x, RoundOf[f])
      BY <3>1 DEF TwicePlaced
    <3> QED
      BY <3>2 DEF f
  <2> QED
    BY <2>6, <2>7
<1> QED
  BY <1>2, <1>3

(* An input has one place in a round at most: of the rounds where it has    *)
(* two, none is the first.                                                  *)
LEMMA OnePlaceInRound ==
    ASSUME NEW x, x # None, NEW r \in Nat
    PROVE  ~TwicePlaced(x, r)
<1> DEFINE Twice == {s \in Nat : TwicePlaced(x, s)}
<1> SUFFICES ASSUME TwicePlaced(x, r)
             PROVE  FALSE
  OBVIOUS
<1>1. Twice \in SUBSET Nat /\ Twice # {}
  OBVIOUS
<1>2. PICK first \in Twice : \A s \in Twice : first <= s
  <2> HIDE DEF Twice
  <2> QED
    BY <1>1, LeastExists
<1>3. PICK s \in Nat : s < first /\ TwicePlaced(x, s)
  BY OriginsMeetToo
<1> QED
  BY <1>2, <1>3

----------------------------------------------------------------------------

(* The bracket as it is built. *)
LEMMA SeedPlaced == Placed(Seed)
  BY PlacesClosed DEF Placed, ClosedFor

(* The winner of the match that feeds a side can get to that side. *)
LEMMA WinnerPlaced ==
    ASSUME NEW in \in [Matches -> Sheet], Placed(in),
           NEW m \in Matches, NEW k \in Sides, NEW alive \in SUBSET Matches,
           FedBy(alive, m, k) # None, NEW score,
           Winner(in[FedBy(alive, m, k)], score) # None
    PROVE  <<m, k>> \in Places(Winner(in[FedBy(alive, m, k)], score))
<1> DEFINE f == Feeder[m][k]
           x == Winner(in[f], score)
<1>1. FedBy(alive, m, k) = f /\ f \in Matches /\ f # None
  BY DEF FedBy
<1>2. PICK l \in Sides : x = in[f][l]
  BY <1>1 DEF Winner, Sides
<1>3. <<f, l>> \in Places(x)
  BY <1>1, <1>2 DEF Placed
<1> HIDE DEF x
<1>4. <<m, k>> \in Places(x)
  BY <1>1, <1>3, PlacesClosed DEF ClosedFor
<1> QED
  BY <1>1, <1>4 DEF x

(* A bracket whose inputs are all at places of theirs has each of them once *)
(* in a round.                                                              *)
LEMMA PlacedOncePerRound ==
    ASSUME NEW in, Placed(in),
           NEW m \in Matches, NEW o \in Matches, NEW k \in Sides, NEW l \in Sides,
           RoundOf[m] = RoundOf[o], in[m][k] # None, in[m][k] = in[o][l]
    PROVE  m = o /\ k = l
<1>1. /\ <<m, k>> \in Places(in[m][k])
      /\ <<o, l>> \in Places(in[m][k])
  BY DEF Placed
<1>2. RoundOf[m] \in Nat
  BY TreeIs
<1> QED
  BY <1>1, <1>2, OnePlaceInRound DEF TwicePlaced

----------------------------------------------------------------------------
(* A bracket that is worked out from its first round upwards.  The library *)
(* theorems about recursive functions take operators as parameters; here   *)
(* the rule for a side is a function of what its feeder shows.             *)

Rules == [Matches -> [Sides -> [Sheet -> Entrants \cup {None}]]]

(* The matches of R show base where they are not fed and what rule says of  *)
(* their feeders' sheets elsewhere.                                         *)
WorkedOut(in, base, rule, R) ==
    \A m \in R, k \in Sides :
        in[m][k] = IF Feeder[m][k] = None THEN base[m][k] ELSE rule[m][k][in[Feeder[m][k]]]

RoundsBefore(r) == {m \in Matches : RoundOf[m] < r}

(* Rounds have numbers. *)
LEMMA RoundsAreNat == \A m \in Matches : RoundOf[m] \in Nat
  BY TreeIs

(* Feeders are matches of earlier rounds. *)
LEMMA FeederIsEarlier ==
    ASSUME NEW m \in Matches, NEW k \in Sides, Feeder[m][k] # None
    PROVE  /\ Feeder[m][k] \in Matches
           /\ RoundOf[Feeder[m][k]] \in Nat
           /\ RoundOf[Feeder[m][k]] < RoundOf[m]
<1>1. Feeder[m][k] \in Matches /\ RoundOf[Feeder[m][k]] < RoundOf[m]
  BY TreeIs
<1> QED
  BY <1>1, TreeIs

(* A property of matches that can only fail where it fails in an earlier    *)
(* round holds everywhere.                                                  *)
LEMMA NoFirstFailure ==
    ASSUME NEW Fails \in SUBSET Matches,
           \A m \in Fails : \E o \in Fails : RoundOf[o] < RoundOf[m]
    PROVE  Fails = {}
<1> SUFFICES ASSUME Fails # {}
             PROVE  FALSE
  OBVIOUS
<1> DEFINE S == {RoundOf[m] : m \in Fails}
<1>1. S \in SUBSET Nat /\ S # {}
  BY RoundsAreNat
<1>2. PICK first \in S : \A s \in S : first <= s
  <2> HIDE DEF S
  <2> QED
    BY <1>1, LeastExists
<1>3. PICK m \in Fails : first = RoundOf[m]
  OBVIOUS
<1>4. PICK o \in Fails : RoundOf[o] < RoundOf[m]
  OBVIOUS
<1>5. RoundOf[o] \in S /\ RoundOf[o] \in Nat /\ first \in Nat
  BY <1>1
<1> QED
  BY <1>2, <1>3, <1>4, <1>5

(* Two brackets that follow the same rules are the same. *)
LEMMA WorkedOutOnce ==
    ASSUME NEW in1 \in [Matches -> Sheet], NEW in2 \in [Matches -> Sheet],
           NEW base, NEW rule, NEW r \in Nat,
           WorkedOut(in1, base, rule, RoundsBefore(r)),
           WorkedOut(in2, base, rule, RoundsBefore(r))
    PROVE  \A m \in RoundsBefore(r) : in1[m] = in2[m]
<1> DEFINE Fails == {m \in RoundsBefore(r) : in1[m] # in2[m]}
<1>1. ASSUME NEW m \in Fails
      PROVE  \E o \in Fails : RoundOf[o] < RoundOf[m]
  <2>1. m \in Matches /\ m \in RoundsBefore(r) /\ in1[m] # in2[m]
    BY DEF RoundsBefore
  <2>2. PICK k \in Sides : in1[m][k] # in2[m][k]
    <3>1. in1[m] \in [Sides -> Entrants \cup {None}] /\ in2[m] \in [Sides -> Entrants \cup {None}]
      BY <2>1 DEF Sheet
    <3> QED
      BY <2>1, <3>1
  <2>3. Feeder[m][k] # None /\ in1[Feeder[m][k]] # in2[Feeder[m][k]]
    BY <2>1, <2>2 DEF WorkedOut
  <2>4. Feeder[m][k] \in Matches /\ RoundOf[Feeder[m][k]] < RoundOf[m]
    BY <2>1, <2>3, FeederIsEarlier
  <2>5. RoundOf[Feeder[m][k]] < r
    BY <2>1, <2>3, <2>4, FeederIsEarlier, TreeIs DEF RoundsBefore
  <2> QED
    BY <2>3, <2>4, <2>5 DEF RoundsBefore
<1>2. Fails \in SUBSET Matches
  BY DEF RoundsBefore
<1>3. Fails = {}
  <2> HIDE DEF Fails
  <2> QED
    BY <1>1, <1>2, NoFirstFailure
<1> QED
  BY <1>3

(* There is a bracket that follows the rules up to any round. *)
LEMMA WorkedOutBefore ==
    ASSUME NEW base \in [Matches -> Sheet], NEW rule \in Rules, NEW r \in Nat
    PROVE  \E in \in [Matches -> Sheet] : WorkedOut(in, base, rule, RoundsBefore(r))
<1> DEFINE Bad == {n \in Nat : ~\E in \in [Matches -> Sheet] :
                                   WorkedOut(in, base, rule, RoundsBefore(n))}
<1> SUFFICES ASSUME Bad # {}
             PROVE  FALSE
  OBVIOUS
<1>1. PICK first \in Bad : \A n \in Bad : first <= n
  <2>1. Bad \in SUBSET Nat
    OBVIOUS
  <2> HIDE DEF Bad
  <2> QED
    BY <2>1, LeastExists
<1>2. first # 0
  <2>1. RoundsBefore(0) = {}
    BY RoundsAreNat DEF RoundsBefore
  <2>2. WorkedOut(base, base, rule, RoundsBefore(0))
    BY <2>1 DEF WorkedOut
  <2> QED
    BY <2>2
<1>3. PICK n \in Nat : first = n + 1
  BY <1>2
<1>4. PICK in \in [Matches -> Sheet] : WorkedOut(in, base, rule, RoundsBefore(n))
  BY <1>1, <1>3
<1> DEFINE Side(m, k) == IF Feeder[m][k] = None THEN base[m][k]
                                                ELSE rule[m][k][in[Feeder[m][k]]]
           next == [m \in Matches |-> IF RoundOf[m] = n THEN [k \in Sides |-> Side(m, k)]
                                                        ELSE in[m]]
<1>5. next \in [Matches -> Sheet]
  <2>1. ASSUME NEW m \in Matches, NEW k \in Sides
        PROVE  Side(m, k) \in Entrants \cup {None}
    <3>1. base[m][k] \in Entrants \cup {None}
      BY DEF Sheet
    <3>2. ASSUME Feeder[m][k] # None
          PROVE  rule[m][k][in[Feeder[m][k]]] \in Entrants \cup {None}
      <4>1. in[Feeder[m][k]] \in Sheet
        BY <3>2, FeederIsEarlier
      <4> QED
        BY <4>1 DEF Rules
    <3> QED
      BY <3>1, <3>2
  <2> HIDE DEF Side
  <2>2. \A m \in Matches : [k \in Sides |-> Side(m, k)] \in Sheet
    BY <2>1 DEF Sheet
  <2> QED
    BY <2>2
<1>6. WorkedOut(next, base, rule, RoundsBefore(first))
  <2> SUFFICES ASSUME NEW m \in RoundsBefore(first), NEW k \in Sides
               PROVE  next[m][k] = IF Feeder[m][k] = None THEN base[m][k]
                                   ELSE rule[m][k][next[Feeder[m][k]]]
    BY DEF WorkedOut
  <2>1. m \in Matches /\ RoundOf[m] \in Nat /\ RoundOf[m] < n + 1
    BY <1>3, RoundsAreNat DEF RoundsBefore
  <2>2. next[m][k] = Side(m, k)
    <3>1. CASE RoundOf[m] = n
      BY <2>1, <3>1
    <3>2. CASE RoundOf[m] # n
      <4>1. m \in RoundsBefore(n)
        BY <2>1, <3>2 DEF RoundsBefore
      <4> QED
        BY <1>4, <2>1, <3>2, <4>1 DEF WorkedOut
    <3> QED
      BY <3>1, <3>2
  <2>3. Feeder[m][k] # None => next[Feeder[m][k]] = in[Feeder[m][k]]
    <3> SUFFICES ASSUME Feeder[m][k] # None
                 PROVE  next[Feeder[m][k]] = in[Feeder[m][k]]
      OBVIOUS
    <3>1. Feeder[m][k] \in Matches /\ RoundOf[Feeder[m][k]] # n
      BY <2>1, FeederIsEarlier
    <3> QED
      BY <3>1
  <2> HIDE DEF next
  <2> QED
    BY <2>2, <2>3
<1> HIDE DEF next
<1> QED
  BY <1>1, <1>5, <1>6

(* There is a bracket that follows the rules throughout: each match shows   *)
(* what it does in the brackets worked out as far as its round.             *)
LEMMA WorkedOutExists ==
    ASSUME NEW base \in [Matches -> Sheet], NEW rule \in Rules
    PROVE  \E in \in [Matches -> Sheet] : WorkedOut(in, base, rule, Matches)
<1> DEFINE Upto(r) == CHOOSE in \in [Matches -> Sheet] :
                         WorkedOut(in, base, rule, RoundsBefore(r))
           all == [m \in Matches |-> Upto(RoundOf[m] + 1)[m]]
<1>1. ASSUME NEW r \in Nat
      PROVE  /\ Upto(r) \in [Matches -> Sheet]
             /\ WorkedOut(Upto(r), base, rule, RoundsBefore(r))
  BY WorkedOutBefore
<1> HIDE DEF Upto
<1>2. \A m \in Matches : RoundOf[m] + 1 \in Nat
  BY TreeIs
<1>3. all \in [Matches -> Sheet]
  BY <1>1, <1>2
<1>4. WorkedOut(all, base, rule, Matches)
  <2> SUFFICES ASSUME NEW m \in Matches, NEW k \in Sides
               PROVE  all[m][k] = IF Feeder[m][k] = None THEN base[m][k]
                                  ELSE rule[m][k][all[Feeder[m][k]]]
    BY DEF WorkedOut
  <2> DEFINE in == Upto(RoundOf[m] + 1)
  <2>1. in[m][k] = IF Feeder[m][k] = None THEN base[m][k] ELSE rule[m][k][in[Feeder[m][k]]]
    <3>1. m \in RoundsBefore(RoundOf[m] + 1)
      BY RoundsAreNat DEF RoundsBefore
    <3> QED
      BY <1>1, <1>2, <3>1 DEF WorkedOut
  <2>2. ASSUME Feeder[m][k] # None
        PROVE  in[Feeder[m][k]] = all[Feeder[m][k]]
    <3> DEFINE f == Feeder[m][k]
               own == Upto(RoundOf[f] + 1)
    <3>1. f \in Matches /\ RoundOf[f] \in Nat /\ RoundOf[f] < RoundOf[m] /\ RoundOf[m] \in Nat
      BY <2>2, FeederIsEarlier, TreeIs
    <3> HIDE DEF f
    <3>2. f \in RoundsBefore(RoundOf[f] + 1)
      BY <3>1 DEF RoundsBefore
    <3>3. RoundsBefore(RoundOf[f] + 1) \subseteq RoundsBefore(RoundOf[m] + 1)
      BY <3>1, RoundsAreNat DEF RoundsBefore
    <3>4. WorkedOut(in, base, rule, RoundsBefore(RoundOf[f] + 1))
      BY <1>1, <1>2, <3>3 DEF WorkedOut
    <3>5. in[f] = own[f]
      BY <1>1, <1>2, <3>1, <3>2, <3>4, WorkedOutOnce
    <3> QED
      BY <3>1, <3>5 DEF f
  <2>3. all[m] = in[m]
    OBVIOUS
  <2> HIDE DEF in, all
  <2> QED
    BY <2>1, <2>2, <2>3
<1> HIDE DEF all
<1> QED
  BY <1>3, <1>4

(* Where each side shows nobody, an input at a place of its own or one that *)
(* its feeder shows, every side shows an input that can get there.          *)
LEMMA PlacedFromBelow ==
    ASSUME NEW in,
           \A m \in Matches, k \in Sides :
              \/ in[m][k] = None
              \/ <<m, k>> \in Places(in[m][k])
              \/ Feeder[m][k] # None /\ \E l \in Sides : in[m][k] = in[Feeder[m][k]][l]
    PROVE  Placed(in)
<1> DEFINE Fails == {m \in Matches : \E k \in Sides :
                        in[m][k] # None /\ <<m, k>> \notin Places(in[m][k])}
<1>1. ASSUME NEW m \in Fails
      PROVE  \E o \in Fails : RoundOf[o] < RoundOf[m]
  <2>1. PICK k \in Sides : in[m][k] # None /\ <<m, k>> \notin Places(in[m][k])
    OBVIOUS
  <2>2. PICK l \in Sides : Feeder[m][k] # None /\ in[m][k] = in[Feeder[m][k]][l]
    BY <2>1
  <2>3. Feeder[m][k] \in Matches /\ RoundOf[Feeder[m][k]] < RoundOf[m]
    BY <2>2, FeederIsEarlier
  <2> DEFINE x == in[m][k]
  <2>4. <<Feeder[m][k], l>> \notin Places(x)
    <3> HIDE DEF x
    <3>1. <<m, k>> \notin Places(x)
      BY <2>1 DEF x
    <3> QED
      BY <2>2, <3>1, PlacesClosed DEF ClosedFor
  <2>5. Feeder[m][k] \in Fails
    BY <2>1, <2>2, <2>3, <2>4
  <2> QED
    BY <2>3, <2>5
<1>2. Fails = {}
  <2> HIDE DEF Fails
  <2>1. Fails \in SUBSET Matches
    BY DEF Fails
  <2> QED
    BY <1>1, <2>1, NoFirstFailure
<1> QED
  BY <1>2 DEF Placed

(* A bracket in which each side that is not an input or nobody shows the    *)
(* winner of its feeder has only sheets.                                    *)
LEMMA SheetsFromBelow ==
    ASSUME NEW in, in = [m \in Matches |-> [k \in Sides |-> in[m][k]]],
           \A m \in Matches, k \in Sides :
              \/ in[m][k] \in Entrants \cup {None}
              \/ Feeder[m][k] # None /\ \E score : in[m][k] = Winner(in[Feeder[m][k]], score)
    PROVE  in \in [Matches -> Sheet]
<1> DEFINE Fails == {m \in Matches : in[m] \notin Sheet}
<1>1. ASSUME NEW m \in Fails
      PROVE  \E o \in Fails : RoundOf[o] < RoundOf[m]
  <2>1. PICK k \in Sides : in[m][k] \notin Entrants \cup {None}
    <3>1. in[m] = [k \in Sides |-> in[m][k]]
      OBVIOUS
    <3> QED
      BY <3>1 DEF Sheet
  <2>2. Feeder[m][k] # None /\ in[Feeder[m][k]] \notin Sheet
    BY <2>1, WinnerType
  <2> QED
    BY <2>2, FeederIsEarlier
<1>2. Fails = {}
  <2> HIDE DEF Fails
  <2>1. Fails \in SUBSET Matches
    BY DEF Fails
  <2> QED
    BY <1>1, <2>1, NoFirstFailure
<1> QED
  BY <1>2
=============================================================================
