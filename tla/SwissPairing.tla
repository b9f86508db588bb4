---------------------------- MODULE SwissPairing ----------------------------
(***************************************************************************)
(* How the active teams of a Swiss stage item are paired for its next      *)
(* round (logic/scheduling/swiss.py).  Teams are numbered by their place   *)
(* in the shuffled and sorted list, the highest ranked first, so 1 .. n    *)
(* stands for any teams; points is their rating, met the pairs that are in *)
(* some round already, times how many matches each team is in.             *)
(*                                                                         *)
(* The code builds a weighted graph and leaves the choice to networkx,     *)
(* which returns some matching of the largest weight among those with the  *)
(* most edges.  SwissPairing defines the graph and the matchings that may  *)
(* be returned.                                                            *)
(***************************************************************************)
EXTENDS Naturals, FiniteSets, FiniteSetsExt

(* The placeholder opponent of a team that sits out; it is -1 in the code. *)
BYE == 0

Pairs(nodes) == {e \in SUBSET nodes : Cardinality(e) = 2}

(* All sets of disjoint edges between the nodes 0 .. n. *)
Matchings(edges, n) ==
    LET upTo[k \in 0 .. n] ==
            IF k = 0 THEN {{}}
            ELSE LET below  == upTo[k - 1]
                     new    == {e \in edges : Max(e) = k}
                 IN  below \cup UNION {{M \cup {e} : M \in {N \in below : e \cap UNION N = {}}} : e \in new}
    IN  upTo[n]

----------------------------------------------------------------------------

Gap(points, i, j) ==
    LET d == IF points[i] > points[j] THEN points[i] - points[j] ELSE points[j] - points[i]
    IN  d * d

MaxGap(points, n) == IF n = 0 THEN 0 ELSE Gap(points, 1, n)

MaxTotalPairWeight(points, n) == (n \div 2) * (MaxGap(points, n) + 1)

(* Seeded fault: the gap is rewarded. *)
PairWeightFarApart(points, n, e) == Gap(points, Min(e), Max(e)) + 1

(* Teams far apart in the standings are paired last. *)
PairWeight(points, n, e) == MaxGap(points, n) - Gap(points, Min(e), Max(e)) + 1

HasntSatOut(times, n, i) == \A j \in 1 .. n : times[i] >= times[j]

(* Seeded fault: a team that sat out before may do so again. *)
ByeWeightByRank(points, times, n, i) == (MaxTotalPairWeight(points, n) + 1) * i

(* Who sits out outweighs every pairing: teams that have not sat out come   *)
(* first, and among those the lowest ranked.                                *)
ByeWeight(points, times, n, i) ==
    (MaxTotalPairWeight(points, n) + 1) * ((IF HasntSatOut(times, n, i) THEN n ELSE 0) + i)

Unmet(n, met) == {e \in Pairs(1 .. n) : e \notin met}

Edges(n, met) ==
    Unmet(n, met) \cup (IF n % 2 = 1 THEN {{BYE, i} : i \in 1 .. n} ELSE {})

Weights(points, met, times, n) ==
    [e \in Edges(n, met) |->
        IF BYE \in e THEN ByeWeight(points, times, n, Max(e)) ELSE PairWeight(points, n, e)]

TotalWeight(weight, M) == MapThenSumSet(LAMBDA e : weight[e], M)

(* Seeded fault: the number of pairs does not come first. *)
MaxWeightOnly(points, met, times, n) ==
    LET weight == Weights(points, met, times, n)
        all    == Matchings(DOMAIN weight, n)
        best   == Max({TotalWeight(weight, M) : M \in all})
    IN  {M \in all : TotalWeight(weight, M) = best}

(* nx.max_weight_matching(graph, maxcardinality=True) *)
MaxWeightMatchings(points, met, times, n) ==
    LET weight  == Weights(points, met, times, n)
        all     == Matchings(DOMAIN weight, n)
        size    == Max({Cardinality(M) : M \in all})
        largest == {M \in all : Cardinality(M) = size}
        best    == Max({TotalWeight(weight, M) : M \in largest})
    IN  {M \in largest : TotalWeight(weight, M) = best}

(* The sets of pairs get_swiss_pairing may return. *)
Pairings(points, met, times, n) ==
    {{e \in M : BYE \notin e} : M \in MaxWeightMatchings(points, met, times, n)}

Unpaired(pairs, n) == (1 .. n) \ UNION pairs
=============================================================================
