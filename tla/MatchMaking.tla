----------------------------- MODULE MatchMaking -----------------------------
(***************************************************************************)
(* The matches the code makes up by itself.  For the inputs of a Swiss     *)
(* stage item: what swiss.py may return, compared with what its docstring  *)
(* promises, which says nothing of graphs or weights.  For a new round     *)
(* robin or elimination stage item: what it creates for every size.        *)
(*                                                                         *)
(* Bounds: up to MaxTeams teams with ratings 0 .. MaxPoints, the lowest 0, *)
(* any pairs already met; in up to MaxExtra teams, one team may have       *)
(* played once more, against a team that is not active any more.  The      *)
(* sizes of round robins are all that StageItemCreateBody allows up to     *)
(* MaxSize, those of brackets all that have a round count.                 *)
(***************************************************************************)
EXTENDS SwissPairing, RoundRobin, BracketBuild

CONSTANTS MaxTeams, MaxPoints, MaxExtra, MaxSize

ASSUME BoundsAssumption == MaxTeams \in Nat /\ MaxPoints \in Nat /\ MaxSize \in Nat

VARIABLES
    n,                   \* the number of teams or inputs
    points, met, times,  \* what swiss.py is given for n teams
    pairs,               \* what it returned
    kind,                \* of the stage item
    rounds               \* the matches it is created with, by round

swiss == <<points, met, times, pairs>>
vars == <<n, swiss, kind, rounds>>

Teams == 1 .. n

Degree(i) == Cardinality({e \in met : i \in e})

Unset == {{}}

Init ==
    /\ n \in 0 .. MaxTeams
    /\ points \in {p \in [Teams -> 0 .. MaxPoints] :
                      /\ \A i, j \in Teams : i < j => p[i] >= p[j]
                      /\ n > 0 => p[n] = 0}
    /\ met \in SUBSET Pairs(Teams)
    /\ \E extra \in {0} \cup (IF n <= MaxExtra THEN Teams ELSE {}) :
          times = [i \in Teams |-> Degree(i) + (IF i = extra THEN 1 ELSE 0)]
    /\ pairs = Unset
    /\ kind = "swiss" /\ rounds = <<>>

Pair ==
    /\ pairs = Unset /\ kind = "swiss"
    /\ pairs' \in Pairings(points, met, times, n)
    /\ UNCHANGED <<n, points, met, times, kind, rounds>>

(* A stage item is created before anything is known of its inputs. *)
Nothing == n = 0 /\ pairs = Unset /\ kind = "swiss"

CreateRoundRobin ==
    /\ Nothing
    /\ n' \in 2 .. MaxSize
    /\ kind' = "round robin"
    /\ rounds' = BuildRoundRobin(n')
    /\ UNCHANGED swiss

CreateElimination ==
    /\ Nothing
    /\ n' \in DOMAIN EliminationRounds
    /\ rounds' = BuildSingleElimination(n')
    /\ kind' = "elimination"
    /\ UNCHANGED swiss

Next == Pair \/ CreateRoundRobin \/ CreateElimination

Spec == Init /\ [][Next]_vars

----------------------------------------------------------------------------

Paired == pairs # Unset

(* Of the sets of disjoint pairs of teams that have not met, the largest. *)
Largest ==
    LET candidates == Matchings(Unmet(n, met), n)
        most       == Max({Cardinality(M) : M \in candidates})
    IN  {M \in candidates : Cardinality(M) = most}

(* Which of the teams that one of these sets leaves out sits out. *)
FirstToSitOut(sets) ==
    LET may   == UNION {Unpaired(M, n) : M \in sets}
        fresh == {i \in may : HasntSatOut(times, n, i)}
    IN  IF fresh # {} THEN Max(fresh) ELSE Max(may)

TotalGap(M) == TotalWeight([e \in M |-> Gap(points, Min(e), Max(e))], M)

(* Nobody plays twice or meets an opponent again, and as many teams as      *)
(* possible get an opponent (get_swiss_pairing), which a pairing from the   *)
(* top down would not achieve.                                              *)
AsManyAsPossible == Paired => pairs \in Largest

(* With an odd number of teams, of the pairings with the most pairs one is  *)
(* chosen in which the lowest ranked team that has not sat out before sits  *)
(* out, if there is such a pairing (get_swiss_pairing).                     *)
SitsOutFairly == (Paired /\ n % 2 = 1) => FirstToSitOut(Largest) \in Unpaired(pairs, n)

(* Among the pairings that are left, the teams meet opponents as close to   *)
(* them in the standings as possible: no other choice has a smaller sum of  *)
(* squared gaps (get_swiss_pairing).                                        *)
ClosestOpponents ==
    Paired =>
        LET sets == Largest
            out  == IF n % 2 = 1 THEN {FirstToSitOut(sets)} ELSE {}
            own  == TotalGap(pairs)
        IN  \A M \in sets : out \subseteq Unpaired(M, n) => own <= TotalGap(M)

(* The rows of all rounds: in which round, and which one. *)
Created == UNION {{<<r, m>> : m \in DOMAIN rounds[r]} : r \in DOMAIN rounds}

(* Who can meet, and who does.                                              *)
Opponents(size) == {{i, j} : i, j \in 0 .. size - 1} \ {{i} : i \in 0 .. size - 1}
SidesOf(r, m) == {rounds[r][m][1], rounds[r][m][2]}

(* Every two inputs of a round robin meet once, and nobody plays twice in a *)
(* round: turning the table loses no pair, whatever the number of inputs,   *)
(* and the free rounds of an odd number cost no match                       *)
(* (get_round_robin_combinations).                                          *)
EveryPairMeetsOnce ==
    kind = "round robin" =>
        /\ {SidesOf(c[1], c[2]) : c \in Created} = Opponents(n)
        /\ Cardinality(Created) = Cardinality(Opponents(n))
        /\ \A r \in DOMAIN rounds : \A m, o \in DOMAIN rounds[r] :
              m # o => SidesOf(r, m) \cap SidesOf(r, o) = {}

(* The matches of a bracket, the finals, the sides that the winner of a     *)
(* match goes on to and those an input starts on.                           *)
Matches == {rounds[c[1]][c[2]] : c \in Created}
Finals == {b \in Matches : b.round = EliminationRounds[n]}
FedBy(b) == {side \in Matches \X (1 .. 2) : side[1].from[side[2]] = b.id}
SeatsOf(i) == {side \in Matches \X (1 .. 2) : side[1].inputs[side[2]] = i}

(* Every input of a bracket is seated once and, as long as it wins, plays   *)
(* in each round up to one final: every match but the final feeds one side  *)
(* of one match, of the next round (build_single_elimination_stage_item).   *)
EveryWinnerReachesTheFinal ==
    kind = "elimination" =>
        /\ \A b, o \in Matches : b.id = o.id => b = o
        /\ Cardinality(Finals) = 1
        /\ \A b \in Matches \ Finals : \E o \in Matches, k \in 1 .. 2 :
              FedBy(b) = {<<o, k>>} /\ o.round = b.round + 1
        /\ \A i \in 1 .. n : \E b \in Matches, k \in 1 .. 2 :
              SeatsOf(i) = {<<b, k>>} /\ b.round = 1
=============================================================================
