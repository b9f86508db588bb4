--------------------------- MODULE MatchMakingProofs ---------------------------
(***************************************************************************)
(* Theorems about the matches the code makes up, for every size.  Of       *)
(* get_swiss_pairing, for any number of teams, any points and any history: *)
(* whatever matching of the largest weight networkx returns, it is one     *)
(* that the docstring promises.  Of get_round_robin_combinations, for any  *)
(* number of inputs: each two meet once.  Of                               *)
(* build_single_elimination_stage_item, for every size it accepts: every   *)
(* winner goes on, up to one final.                                        *)
(***************************************************************************)
EXTENDS MatchMaking, BracketShape, TLAPS, SequenceTheorems, FunctionTheorems, FiniteSetTheorems

(* If what fails for a finite set fails for a smaller one too, it fails for *)
(* none.                                                                    *)
LEMMA NoSmallestFailure ==
    ASSUME NEW U, IsFiniteSet(U), NEW Fails \in SUBSET SUBSET U,
           \A S \in Fails : \E T \in Fails : T \subseteq S /\ T # S
    PROVE  Fails = {}
<1> SUFFICES ASSUME Fails # {}
             PROVE  FALSE
  OBVIOUS
<1>1. Fails \subseteq FiniteSubsetsOf(U)
  BY FS_FiniteSubsetsOfFinite
<1>2. PICK S \in Fails : \A T \in Fails : <<T, S>> \notin StrictSubsetOrdering(U)
  BY <1>1, FS_StrictSubsetOrderingWellFounded, WFMin
<1>3. PICK T \in Fails : T \subseteq S /\ T # S
  OBVIOUS
<1>4. <<T, S>> \in StrictSubsetOrdering(U)
  BY <1>3 DEF StrictSubsetOrdering
<1> QED
  BY <1>2, <1>4

(* The first number that fails.                                             *)
LEMMA NoFirstFailure ==
    ASSUME NEW b \in Nat, NEW Fails \in SUBSET (0 .. b),
           \A k \in Fails : \E l \in Fails : l < k
    PROVE  Fails = {}
<1> DEFINE Heads == {0 .. k : k \in Fails}
<1>1. Heads \in SUBSET SUBSET (0 .. b)
  OBVIOUS
<1>2. ASSUME NEW S \in Heads
      PROVE  \E T \in Heads : T \subseteq S /\ T # S
  <2>1. PICK k \in Fails : S = 0 .. k
    OBVIOUS
  <2>2. PICK l \in Fails : l < k
    OBVIOUS
  <2>3. 0 .. l \subseteq 0 .. k /\ k \in 0 .. k /\ k \notin 0 .. l
    BY <2>2
  <2>4. 0 .. l \in Heads
    OBVIOUS
  <2> QED
    BY <2>1, <2>3, <2>4
<1>3. IsFiniteSet(0 .. b)
  BY FS_Interval
<1>4. Heads = {}
  <2> HIDE DEF Heads
  <2> QED
    BY <1>1, <1>2, <1>3, NoSmallestFailure
<1> QED
  BY <1>4

----------------------------------------------------------------------------
(* The largest of some values. *)

LEMMA MaxIs ==
    ASSUME NEW S \in SUBSET Int, NEW x \in S, \A y \in S : y <= x
    PROVE  Max(S) = x
<1>1. \A z \in S : (\A y \in S : z >= y) => z = x
  OBVIOUS
<1> QED
  BY <1>1 DEF Max

LEMMA BestExists ==
    ASSUME NEW S, IsFiniteSet(S), S # {}, NEW v \in [S -> Int]
    PROVE  \E x \in S : \A y \in S : v[y] <= v[x]
<1> DEFINE Fails == {T \in SUBSET S : T # {} /\ ~ \E x \in T : \A y \in T : v[y] <= v[x]}
<1>1. ASSUME NEW T \in Fails
      PROVE  \E Q \in Fails : Q \subseteq T /\ Q # T
  <2>1. PICK x \in T : TRUE
    OBVIOUS
  <2>2. CASE T \ {x} = {}
    <3>1. T = {x}
      BY <2>2
    <3> QED
      BY <3>1
  <2>3. CASE T \ {x} # {}
    <3>1. ASSUME NEW z \in T \ {x}, \A y \in T \ {x} : v[y] <= v[z]
          PROVE  FALSE
      <4>1. CASE v[x] <= v[z]
        BY <3>1, <4>1
      <4>2. CASE v[z] < v[x]
        BY <3>1, <4>2
      <4> QED
        BY <4>1, <4>2
    <3>2. T \ {x} \in Fails
      BY <2>3, <3>1
    <3> QED
      BY <3>2
  <2> QED
    BY <2>2, <2>3
<1>2. Fails = {}
  <2>1. Fails \in SUBSET SUBSET S
    OBVIOUS
  <2> HIDE DEF Fails
  <2> QED
    BY <1>1, <2>1, NoSmallestFailure
<1> QED
  BY <1>2

(* Those whose value is the largest. *)
LEMMA BestAre ==
    ASSUME NEW S, IsFiniteSet(S), S # {}, NEW v \in [S -> Int]
    PROVE  /\ {x \in S : v[x] = Max({v[y] : y \in S})} = {x \in S : \A y \in S : v[y] <= v[x]}
           /\ \E x \in S : \A y \in S : v[y] <= v[x]
<1>1. PICK x \in S : \A y \in S : v[y] <= v[x]
  BY BestExists
<1>2. Max({v[y] : y \in S}) = v[x]
  <2> DEFINE values == {v[y] : y \in S}
  <2>1. values \in SUBSET Int /\ v[x] \in values /\ \A z \in values : z <= v[x]
    BY <1>1
  <2> HIDE DEF values
  <2>2. Max(values) = v[x]
    BY <2>1, MaxIs
  <2> QED
    BY <2>2 DEF values
<1>3. ASSUME NEW z \in S
      PROVE  v[z] = v[x] <=> \A y \in S : v[y] <= v[z]
  BY <1>1
<1> QED
  BY <1>1, <1>2, <1>3

----------------------------------------------------------------------------
(* Sums over finite sets. *)

Chosen(S) == CHOOSE x \in S : TRUE

(* f sums up v over the subsets of U. *)
SumsUp(sum, v, U) ==
    \A S \in SUBSET U : sum[S] = IF S = {} THEN 0 ELSE v[Chosen(S)] + sum[S \ {Chosen(S)}]

LEMMA ChosenIsIn == \A S : S # {} => Chosen(S) \in S
BY DEF Chosen

LEMMA OneSum ==
    ASSUME NEW U, IsFiniteSet(U), NEW v, NEW f, NEW g, SumsUp(f, v, U), SumsUp(g, v, U)
    PROVE  \A S \in SUBSET U : f[S] = g[S]
<1> DEFINE Fails == {S \in SUBSET U : f[S] # g[S]}
<1>1. ASSUME NEW S \in Fails
      PROVE  \E T \in Fails : T \subseteq S /\ T # S
  <2>1. S # {} /\ Chosen(S) \in S
    BY ChosenIsIn DEF SumsUp
  <2>2. f[S \ {Chosen(S)}] # g[S \ {Chosen(S)}]
    BY <2>1 DEF SumsUp
  <2>3. S \ {Chosen(S)} \in Fails
    BY <2>2
  <2> QED
    BY <2>1, <2>3
<1>2. Fails = {}
  <2>1. Fails \in SUBSET SUBSET U
    OBVIOUS
  <2> HIDE DEF Fails
  <2> QED
    BY <1>1, <2>1, NoSmallestFailure
<1> QED
  BY <1>2

(* The sum as MapThenSumSet defines it. *)
SumOver(v, U) ==
    CHOOSE g : g = [S \in SUBSET U |-> IF S = {} THEN 0 ELSE v[Chosen(S)] + g[S \ {Chosen(S)}]]

HasSum(v, U) ==
    SumOver(v, U) = [S \in SUBSET U |->
                        IF S = {} THEN 0 ELSE v[Chosen(S)] + SumOver(v, U)[S \ {Chosen(S)}]]

LEMMA SumExists ==
    ASSUME NEW M, IsFiniteSet(M), NEW v
    PROVE  \A U \in SUBSET M : HasSum(v, U)
<1> DEFINE Fails == {U \in SUBSET M : ~HasSum(v, U)}
<1>1. ASSUME NEW U \in Fails, \A T \in Fails : T \subseteq U => T = U
      PROVE  FALSE
  <2>1. ASSUME NEW T \in SUBSET U, T # U
        PROVE  SumsUp(SumOver(v, T), v, T)
    <3>1. HasSum(v, T)
      BY <1>1, <2>1
    <3> QED
      BY <3>1 DEF HasSum, SumsUp
  <2> DEFINE total(T) == SumOver(v, T)[T]
             g == [S \in SUBSET U |-> IF S = {} THEN 0 ELSE v[Chosen(S)] + total(S \ {Chosen(S)})]
  <2>2. ASSUME NEW S \in SUBSET U, S # U
        PROVE  total(S) = g[S]
    <3>1. CASE S = {}
      BY <2>1, <2>2, <3>1 DEF SumsUp
    <3>2. CASE S # {}
      <4> DEFINE T == S \ {Chosen(S)}
      <4>1. Chosen(S) \in S
        BY <3>2, ChosenIsIn
      <4>2. SumOver(v, S)[S] = v[Chosen(S)] + SumOver(v, S)[T]
        BY <2>1, <2>2, <3>2 DEF SumsUp
      <4>3. SumOver(v, S)[T] = SumOver(v, T)[T]
        <5>1. T \in SUBSET S /\ T # U /\ T \in SUBSET U
          BY <2>2, <4>1
        <5>2. SumsUp(SumOver(v, T), v, T)
          BY <2>1, <5>1
        <5>3. SumsUp(SumOver(v, S), v, T)
          BY <2>1, <2>2, <5>1 DEF SumsUp
        <5>4. IsFiniteSet(T)
          BY <1>1, <5>1, FS_Subset
        <5> HIDE DEF T
        <5> QED
          BY <5>2, <5>3, <5>4, OneSum
      <4> QED
        BY <3>2, <4>2, <4>3
    <3> QED
      BY <3>1, <3>2
  <2>3. g = [S \in SUBSET U |-> IF S = {} THEN 0 ELSE v[Chosen(S)] + g[S \ {Chosen(S)}]]
    <3>1. ASSUME NEW S \in SUBSET U, S # {}
          PROVE  total(S \ {Chosen(S)}) = g[S \ {Chosen(S)}]
      <4>1. S \ {Chosen(S)} \in SUBSET U /\ S \ {Chosen(S)} # U
        BY <3>1, ChosenIsIn
      <4> HIDE DEF g, total
      <4> QED
        BY <2>2, <4>1
    <3> HIDE DEF total
    <3> QED
      BY <3>1
  <2>4. HasSum(v, U)
    <3> HIDE DEF g
    <3> QED
      BY <2>3 DEF HasSum, SumOver
  <2> QED
    BY <2>4
<1>2. Fails = {}
  <2>1. Fails \in SUBSET SUBSET M
    OBVIOUS
  <2> HIDE DEF Fails
  <2> QED
    BY <1>1, <2>1, NoSmallestFailure
<1> QED
  BY <1>2

LEMMA TotalSumsUp ==
    ASSUME NEW M, IsFiniteSet(M), NEW v
    PROVE  /\ M = {} => TotalWeight(v, M) = 0
           /\ M # {} => TotalWeight(v, M) = v[Chosen(M)] + TotalWeight(v, M \ {Chosen(M)})
<1>1. \A S : TotalWeight(v, S) = SumOver(v, S)[S]
  BY DEF TotalWeight, MapThenSumSet, MapThenFoldSet, Chosen, SumOver
<1>2. ASSUME NEW S \in SUBSET M
      PROVE  SumsUp(SumOver(v, S), v, S)
  <2>1. HasSum(v, S)
    BY SumExists
  <2> QED
    BY <2>1 DEF HasSum, SumsUp
<1>3. CASE M = {}
  BY <1>1, <1>2, <1>3 DEF SumsUp
<1>4. CASE M # {}
  <2> DEFINE T == M \ {Chosen(M)}
  <2>1. T \in SUBSET M
    OBVIOUS
  <2>2. SumsUp(SumOver(v, M), v, T) /\ SumsUp(SumOver(v, T), v, T)
    BY <1>2, <2>1 DEF SumsUp
  <2>3. IsFiniteSet(T)
    BY <2>1, FS_Subset
  <2>4. SumOver(v, M)[T] = SumOver(v, T)[T]
    <3> HIDE DEF T
    <3> QED
      BY <2>2, <2>3, OneSum
  <2>5. SumOver(v, M)[M] = v[Chosen(M)] + SumOver(v, M)[T]
    BY <1>2, <1>4 DEF SumsUp
  <2> QED
    BY <1>1, <1>4, <2>4, <2>5
<1> QED
  BY <1>3, <1>4

LEMMA TotalOfNone == ASSUME NEW v PROVE TotalWeight(v, {}) = 0
BY TotalSumsUp, FS_EmptySet

LEMMA TotalType ==
    ASSUME NEW M, IsFiniteSet(M), NEW v, \A x \in M : v[x] \in Int
    PROVE  \A S \in SUBSET M : TotalWeight(v, S) \in Int
<1> DEFINE Fails == {S \in SUBSET M : TotalWeight(v, S) \notin Int}
<1>1. ASSUME NEW S \in Fails
      PROVE  \E T \in Fails : T \subseteq S /\ T # S
  <2> DEFINE T == S \ {Chosen(S)}
  <2>1. S # {} /\ Chosen(S) \in S
    BY TotalOfNone, ChosenIsIn
  <2>2. IsFiniteSet(S)
    BY FS_Subset
  <2>3. TotalWeight(v, S) = v[Chosen(S)] + TotalWeight(v, T)
    BY <2>1, <2>2, TotalSumsUp
  <2>4. TotalWeight(v, T) \notin Int
    BY <2>1, <2>3
  <2> QED
    BY <2>1, <2>4
<1>2. Fails = {}
  <2>1. Fails \in SUBSET SUBSET M
    OBVIOUS
  <2> HIDE DEF Fails
  <2> QED
    BY <1>1, <2>1, NoSmallestFailure
<1> QED
  BY <1>2

(* The order in which they are added makes no difference. *)
LEMMA TotalWithout ==
    ASSUME NEW M, IsFiniteSet(M), NEW v, \A x \in M : v[x] \in Int
    PROVE  \A S \in SUBSET M : \A x \in S :
              TotalWeight(v, S) = v[x] + TotalWeight(v, S \ {x})
<1> DEFINE Fails == {S \in SUBSET M : ~ \A x \in S :
                        TotalWeight(v, S) = v[x] + TotalWeight(v, S \ {x})}
<1>1. ASSUME NEW S \in Fails, \A T \in Fails : T \subseteq S => T = S
      PROVE  FALSE
  <2>1. PICK x \in S : TotalWeight(v, S) # v[x] + TotalWeight(v, S \ {x})
    OBVIOUS
  <2> DEFINE a == Chosen(S)
  <2>2. a \in S
    BY <2>1, ChosenIsIn
  <2>3. TotalWeight(v, S) = v[a] + TotalWeight(v, S \ {a})
    <3>1. IsFiniteSet(S)
      BY FS_Subset
    <3> QED
      BY <2>1, <3>1, TotalSumsUp
  <2>4. x # a
    BY <2>1, <2>3
  <2>5. TotalWeight(v, S \ {a}) = v[x] + TotalWeight(v, (S \ {a}) \ {x})
    <3>1. S \ {a} \notin Fails /\ x \in S \ {a}
      BY <1>1, <2>2, <2>4
    <3> HIDE DEF a
    <3> QED
      BY <3>1
  <2>6. TotalWeight(v, S \ {x}) = v[a] + TotalWeight(v, (S \ {x}) \ {a})
    <3>1. S \ {x} \notin Fails /\ a \in S \ {x}
      BY <1>1, <2>2, <2>4
    <3> HIDE DEF a
    <3> QED
      BY <3>1
  <2>7. (S \ {x}) \ {a} = (S \ {a}) \ {x}
    OBVIOUS
  <2>8. TotalWeight(v, (S \ {a}) \ {x}) \in Int /\ v[a] \in Int /\ v[x] \in Int
    <3>1. (S \ {a}) \ {x} \in SUBSET M
      OBVIOUS
    <3> QED
      BY <2>2, <3>1, TotalType
  <2> DEFINE rest == TotalWeight(v, (S \ {a}) \ {x})
             other == TotalWeight(v, S \ {x})
  <2>9. TotalWeight(v, S) = v[a] + (v[x] + rest) /\ other = v[a] + rest
    BY <2>3, <2>5, <2>6, <2>7
  <2> HIDE DEF a, rest, Fails
  <2>10. rest \in Int /\ v[a] \in Int /\ v[x] \in Int
    BY <2>8 DEF rest
  <2>11. v[a] + (v[x] + rest) = v[x] + (v[a] + rest)
    BY <2>10
  <2> QED
    BY <2>1, <2>9, <2>11
<1>2. Fails = {}
  <2>1. Fails \in SUBSET SUBSET M
    OBVIOUS
  <2> HIDE DEF Fails
  <2> QED
    BY <1>1, <2>1, NoSmallestFailure
<1> QED
  BY <1>2

LEMMA OneTimesMore ==
    ASSUME NEW a \in Int, NEW b \in Int
    PROVE  a * b \in Int /\ (a - 1) * b \in Int /\ (a - 1) * b + b = a * b
OBVIOUS

(* A sum of so many weights, each of them not above k. *)
LEMMA TotalBound ==
    ASSUME NEW M, IsFiniteSet(M), NEW v, NEW k \in Nat, \A x \in M : v[x] \in 0 .. k
    PROVE  TotalWeight(v, M) \in 0 .. Cardinality(M) * k
<1> DEFINE Fails == {S \in SUBSET M : TotalWeight(v, S) \notin 0 .. Cardinality(S) * k}
<1>0. 0 * k = 0
  OBVIOUS
<1>1. ASSUME NEW S \in Fails
      PROVE  \E T \in Fails : T \subseteq S /\ T # S
  <2>1. IsFiniteSet(S) /\ Cardinality(S) \in Nat
    BY FS_Subset, FS_CardinalityType
  <2>2. S # {}
    BY <1>0, TotalOfNone, FS_EmptySet
  <2>3. PICK x \in S : TRUE
    BY <2>2
  <2> DEFINE T == S \ {x}
  <2>4. Cardinality(T) = Cardinality(S) - 1
    BY <2>1, FS_RemoveElement
  <2>5. TotalWeight(v, S) = v[x] + TotalWeight(v, T) /\ TotalWeight(v, T) \in Int
    <3>1. T \in SUBSET M /\ \A y \in M : v[y] \in Int
      OBVIOUS
    <3> HIDE DEF T
    <3>2. TotalWeight(v, T) \in Int
      BY <3>1, TotalType
    <3> QED
      BY <3>1, <3>2, TotalWithout DEF T
  <2>6. Cardinality(T) * k + k = Cardinality(S) * k /\ Cardinality(T) * k \in Int
    <3> HIDE DEF T, Fails
    <3>1. Cardinality(S) \in Int /\ k \in Int
      BY <2>1
    <3> QED
      BY ONLY <2>4, <3>1, OneTimesMore
  <2>7. TotalWeight(v, T) \notin 0 .. Cardinality(T) * k
    <3>1. v[x] \in 0 .. k /\ Cardinality(S) * k \in Int
      BY <2>1
    <3>2. TotalWeight(v, S) \notin 0 .. Cardinality(S) * k
      OBVIOUS
    <3> HIDE DEF T, Fails
    <3> QED
      BY <2>5, <2>6, <3>1, <3>2
  <2> QED
    BY <2>7
<1>2. Fails = {}
  <2>1. Fails \in SUBSET SUBSET M
    OBVIOUS
  <2> HIDE DEF Fails
  <2> QED
    BY <1>1, <2>1, NoSmallestFailure
<1> QED
  BY <1>2

(* The more the one, the less the other. *)
LEMMA TotalComplement ==
    ASSUME NEW M, IsFiniteSet(M), NEW v, NEW u, NEW k \in Int,
           \A x \in M : v[x] \in Int /\ u[x] \in Int /\ v[x] + u[x] = k
    PROVE  TotalWeight(v, M) + TotalWeight(u, M) = Cardinality(M) * k
<1> DEFINE Fails == {S \in SUBSET M : TotalWeight(v, S) + TotalWeight(u, S) # Cardinality(S) * k}
<1>0. 0 * k = 0
  OBVIOUS
<1>1. ASSUME NEW S \in Fails
      PROVE  \E T \in Fails : T \subseteq S /\ T # S
  <2>1. IsFiniteSet(S) /\ Cardinality(S) \in Nat
    BY FS_Subset, FS_CardinalityType
  <2>2. S # {}
    <3>1. TotalWeight(v, {}) + TotalWeight(u, {}) = Cardinality({}) * k
      <4>1. TotalWeight(v, {}) = 0 /\ TotalWeight(u, {}) = 0 /\ Cardinality({}) = 0
        BY TotalOfNone, FS_EmptySet
      <4> QED
        BY <1>0, <4>1
    <3>2. {} \notin Fails
      BY <3>1
    <3> HIDE DEF Fails
    <3> QED
      BY <3>2
  <2>3. PICK x \in S : TRUE
    BY <2>2
  <2> DEFINE T == S \ {x}
  <2>4. Cardinality(T) = Cardinality(S) - 1
    BY <2>1, FS_RemoveElement
  <2>5. /\ TotalWeight(v, S) = v[x] + TotalWeight(v, T) /\ TotalWeight(v, T) \in Int
        /\ TotalWeight(u, S) = u[x] + TotalWeight(u, T) /\ TotalWeight(u, T) \in Int
    <3>1. T \in SUBSET M /\ (\A y \in M : v[y] \in Int) /\ (\A y \in M : u[y] \in Int)
      OBVIOUS
    <3> HIDE DEF T
    <3>2. TotalWeight(v, T) \in Int /\ TotalWeight(u, T) \in Int
      BY <3>1, TotalType
    <3> QED
      BY <3>1, <3>2, TotalWithout DEF T
  <2>6. Cardinality(T) * k + k = Cardinality(S) * k /\ Cardinality(T) * k \in Int
    <3> HIDE DEF T, Fails
    <3>1. Cardinality(S) \in Int /\ k \in Int
      BY <2>1
    <3> QED
      BY ONLY <2>4, <3>1, OneTimesMore
  <2>7. TotalWeight(v, T) + TotalWeight(u, T) # Cardinality(T) * k
    <3>1. v[x] + u[x] = k /\ v[x] \in Int /\ u[x] \in Int
      OBVIOUS
    <3>2. TotalWeight(v, S) + TotalWeight(u, S) # Cardinality(S) * k
      OBVIOUS
    <3> HIDE DEF T, Fails
    <3> QED
      BY <2>5, <2>6, <3>1, <3>2
  <2> QED
    BY <2>7
<1>2. Fails = {}
  <2>1. Fails \in SUBSET SUBSET M
    OBVIOUS
  <2> HIDE DEF Fails
  <2> QED
    BY <1>1, <2>1, NoSmallestFailure
<1> QED
  BY <1>2

----------------------------------------------------------------------------
(* Pairs and sets of disjoint pairs. *)

LEMMA PairIs ==
    ASSUME NEW a \in Int, NEW b \in Int, a < b
    PROVE  Min({a, b}) = a /\ Max({a, b}) = b
<1>1. \A z \in {a, b} : (\A y \in {a, b} : z <= y) <=> z = a
  OBVIOUS
<1>2. \A z \in {a, b} : (\A y \in {a, b} : z >= y) <=> z = b
  OBVIOUS
<1> QED
  BY <1>1, <1>2 DEF Min, Max

LEMMA PairsAre ==
    ASSUME NEW S \in SUBSET Int, IsFiniteSet(S)
    PROVE  \A e \in Pairs(S) : \E a \in S, b \in S : a < b /\ e = {a, b}
<1> TAKE e \in Pairs(S)
<1>1. e \subseteq S /\ Cardinality(e) = 2 /\ IsFiniteSet(e)
  BY FS_Subset DEF Pairs
<1>2. e # {}
  BY <1>1, FS_EmptySet
<1>3. PICK a \in e : TRUE
  BY <1>2
<1>4. IsFiniteSet(e \ {a}) /\ Cardinality(e \ {a}) = 1
  BY <1>1, FS_RemoveElement
<1>5. PICK b : e \ {a} = {b}
  BY <1>4, FS_Singleton
<1>6. a \in S /\ b \in S /\ a # b /\ e = {a, b} /\ e = {b, a}
  BY <1>1, <1>5
<1>7. a < b \/ b < a
  BY <1>6
<1> QED
  BY <1>6, <1>7

Disjoint(M) == \A e \in M : \A o \in M : e # o => e \cap o = {}

LEMMA SizeOfBoth ==
    ASSUME NEW S, NEW T, IsFiniteSet(S), IsFiniteSet(T), S \cap T = {}
    PROVE  IsFiniteSet(S \cup T) /\ Cardinality(S \cup T) = Cardinality(S) + Cardinality(T)
<1>1. /\ IsFiniteSet(S \cup T)
      /\ Cardinality(S \cup T) = Cardinality(S) + Cardinality(T) - Cardinality(S \cap T)
  BY FS_Union
<1>2. Cardinality(S) \in Nat /\ Cardinality(T) \in Nat
  BY FS_CardinalityType
<1>3. Cardinality(S \cap T) = 0
  BY FS_EmptySet
<1> QED
  BY <1>1, <1>2, <1>3

LEMMA UnionSize ==
    ASSUME NEW M, IsFiniteSet(M), Disjoint(M),
           \A e \in M : IsFiniteSet(e) /\ Cardinality(e) = 2
    PROVE  IsFiniteSet(UNION M) /\ Cardinality(UNION M) = 2 * Cardinality(M)
<1> DEFINE Fails == {S \in SUBSET M :
                        ~(IsFiniteSet(UNION S) /\ Cardinality(UNION S) = 2 * Cardinality(S))}
<1>1. ASSUME NEW S \in Fails
      PROVE  \E T \in Fails : T \subseteq S /\ T # S
  <2>1. IsFiniteSet(S) /\ Cardinality(S) \in Nat
    BY FS_Subset, FS_CardinalityType
  <2>2. S # {}
    <3>1. UNION {} = {}
      OBVIOUS
    <3> QED
      BY <3>1, FS_EmptySet
  <2>3. PICK e \in S : TRUE
    BY <2>2
  <2> DEFINE T == S \ {e}
  <2>4. Cardinality(T) = Cardinality(S) - 1
    BY <2>1, FS_RemoveElement
  <2>5. UNION S = (UNION T) \cup e /\ (UNION T) \cap e = {}
    BY DEF Disjoint
  <2>6. IsFiniteSet(e) /\ Cardinality(e) = 2
    OBVIOUS
  <2>7. ASSUME IsFiniteSet(UNION T), Cardinality(UNION T) = 2 * Cardinality(T)
        PROVE  IsFiniteSet(UNION S) /\ Cardinality(UNION S) = 2 * Cardinality(S)
    <3>1. /\ IsFiniteSet((UNION T) \cup e)
          /\ Cardinality((UNION T) \cup e) = Cardinality(UNION T) + Cardinality(e)
      <4> HIDE DEF T, Fails
      <4> QED
        BY <2>5, <2>6, <2>7, SizeOfBoth
    <3> QED
      <4> HIDE DEF T, Fails
      <4>1. IsFiniteSet(UNION S) /\ Cardinality(UNION S) = Cardinality(UNION T) + Cardinality(e)
        BY <2>5, <3>1
      <4> QED
        BY ONLY <2>1, <2>4, <2>6, <2>7, <4>1
  <2>8. ~(IsFiniteSet(UNION S) /\ Cardinality(UNION S) = 2 * Cardinality(S))
    OBVIOUS
  <2>9. T \in Fails
    BY <2>7, <2>8
  <2> QED
    BY <2>9
<1>2. Fails = {}
  <2>1. Fails \in SUBSET SUBSET M
    OBVIOUS
  <2> HIDE DEF Fails
  <2> QED
    BY <1>1, <2>1, NoSmallestFailure
<1>3. M \notin Fails
  BY <1>2
<1> QED
  BY <1>3

(* Edges between the nodes 0 .. size: each has a larger end above 0. *)
EdgesTo(edges, size) ==
    \A e \in edges : e \subseteq 0 .. size /\ Max(e) \in 1 .. size /\ Max(e) \in e

DisjointUpTo(edges, k) == {M \in SUBSET edges : Disjoint(M) /\ \A e \in M : Max(e) <= k}

LEMMA DisjointFromNone ==
    ASSUME NEW size \in Nat, NEW edges, EdgesTo(edges, size)
    PROVE  DisjointUpTo(edges, 0) = {{}}
<1>1. \A e \in edges : ~(Max(e) <= 0)
  BY DEF EdgesTo
<1> QED
  BY <1>1 DEF DisjointUpTo, Disjoint

LEMMA DisjointFromBelow ==
    ASSUME NEW size \in Nat, NEW edges, EdgesTo(edges, size), NEW k \in 1 .. size
    PROVE  DisjointUpTo(edges, k) =
              LET below == DisjointUpTo(edges, k - 1)
                  new   == {e \in edges : Max(e) = k}
              IN  below \cup UNION {{M \cup {e} : M \in {N \in below : e \cap UNION N = {}}} : e \in new}
<1> DEFINE below == DisjointUpTo(edges, k - 1)
           new   == {e \in edges : Max(e) = k}
           with(e) == {M \cup {e} : M \in {N \in below : e \cap UNION N = {}}}
<1>0. \A e \in edges : Max(e) \in 1 .. size /\ Max(e) \in e
  BY DEF EdgesTo
<1>1. ASSUME NEW M \in DisjointUpTo(edges, k), M \notin below
      PROVE  \E e \in new : M \in with(e)
  <2>1. PICK e \in M : ~(Max(e) <= k - 1)
    BY <1>1 DEF DisjointUpTo
  <2>2. e \in edges /\ M \in SUBSET edges /\ Disjoint(M) /\ \A o \in M : Max(o) <= k
    BY DEF DisjointUpTo
  <2>3. Max(e) = k
    BY <1>0, <2>1, <2>2
  <2> DEFINE N == M \ {e}
  <2>4. ASSUME NEW o \in N
        PROVE  Max(o) <= k - 1 /\ e \cap o = {}
    <3>1. e \cap o = {}
      BY <2>2 DEF Disjoint
    <3>2. Max(o) # k
      BY <1>0, <2>2, <2>3, <3>1
    <3> QED
      BY <1>0, <2>2, <3>1, <3>2
  <2>5. N \in below
    BY <2>2, <2>4 DEF DisjointUpTo, Disjoint
  <2>6. e \cap UNION N = {} /\ M = N \cup {e}
    BY <2>4
  <2> HIDE DEF N, below
  <2> QED
    BY <2>2, <2>3, <2>5, <2>6
<1>2. ASSUME NEW e \in new, NEW M \in with(e)
      PROVE  M \in DisjointUpTo(edges, k)
  <2>1. PICK N \in below : e \cap UNION N = {} /\ M = N \cup {e}
    OBVIOUS
  <2>2. N \in SUBSET edges /\ Disjoint(N) /\ \A o \in N : Max(o) <= k - 1
    BY DEF DisjointUpTo
  <2>3. \A o \in N : e \cap o = {}
    BY <2>1
  <2>4. Disjoint(M)
    BY <2>1, <2>2, <2>3 DEF Disjoint
  <2>5. \A o \in M : Max(o) <= k
    BY <1>0, <2>1, <2>2
  <2> QED
    BY <2>1, <2>2, <2>4, <2>5 DEF DisjointUpTo
<1>3. below \subseteq DisjointUpTo(edges, k)
  <2>1. ASSUME NEW M \in below, NEW e \in M
        PROVE  Max(e) <= k
    <3>1. e \in edges /\ Max(e) <= k - 1
      BY DEF DisjointUpTo
    <3> QED
      BY <1>0, <3>1
  <2> QED
    BY <2>1 DEF DisjointUpTo
<1>4. DisjointUpTo(edges, k) = below \cup UNION {with(e) : e \in new}
  <2> HIDE DEF below, new, with
  <2> QED
    BY <1>1, <1>2, <1>3
<1> QED
  BY <1>4

(* What Matchings computes. *)
LEMMA MatchingsAre ==
    ASSUME NEW size \in Nat, NEW edges, EdgesTo(edges, size)
    PROVE  Matchings(edges, size) = {M \in SUBSET edges : Disjoint(M)}
<1> DEFINE step(f, k) ==
              IF k = 0 THEN {{}}
              ELSE LET below  == f[k - 1]
                       new    == {e \in edges : Max(e) = k}
                   IN  below \cup UNION {{M \cup {e} : M \in {N \in below : e \cap UNION N = {}}} : e \in new}
           g == [k \in 0 .. size |-> DisjointUpTo(edges, k)]
           f == CHOOSE f : f = [k \in 0 .. size |-> step(f, k)]
<1>1. \A k \in 0 .. size : step(g, k) = g[k]
  <2> SUFFICES ASSUME NEW k \in 0 .. size
               PROVE  step(g, k) = g[k]
    OBVIOUS
  <2>1. CASE k = 0
    BY <2>1, DisjointFromNone
  <2>2. CASE k # 0
    <3>1. k \in 1 .. size /\ k - 1 \in 0 .. size
      BY <2>2
    <3>2. g[k - 1] = DisjointUpTo(edges, k - 1) /\ g[k] = DisjointUpTo(edges, k)
      BY <3>1
    <3> HIDE DEF g
    <3> QED
      BY <2>2, <3>1, <3>2, DisjointFromBelow
  <2> QED
    BY <2>1, <2>2
<1>2. g = [k \in 0 .. size |-> step(g, k)]
  <2> HIDE DEF step
  <2> QED
    BY <1>1
<1>3. f = [k \in 0 .. size |-> step(f, k)]
  <2> HIDE DEF g, step
  <2> QED
    BY <1>2
<1>4. \A k \in 0 .. size : f[k] = g[k]
  <2> DEFINE Fails == {k \in 0 .. size : f[k] # g[k]}
  <2>1. ASSUME NEW k \in Fails
        PROVE  \E l \in Fails : l < k
    <3>1. f[k] = step(f, k) /\ g[k] = step(g, k) /\ k \in 0 .. size /\ f[k] # g[k]
      <4> HIDE DEF step, f, g
      <4> QED
        BY <1>1, <1>3
    <3> HIDE DEF f, g
    <3>2. k # 0
      BY <3>1
    <3>3. f[k - 1] # g[k - 1]
      BY <3>1, <3>2
    <3>4. k - 1 \in Fails /\ k - 1 < k
      BY <3>1, <3>2, <3>3
    <3> QED
      BY <3>4
  <2>2. Fails \in SUBSET (0 .. size)
    OBVIOUS
  <2>3. Fails = {}
    <3> HIDE DEF Fails
    <3> QED
      BY <2>1, <2>2, NoFirstFailure
  <2> QED
    BY <2>3
<1>5. Matchings(edges, size) = f[size]
  BY DEF Matchings
<1>6. f[size] = DisjointUpTo(edges, size)
  <2> HIDE DEF f
  <2> QED
    BY <1>4
<1>7. \A e \in edges : Max(e) <= size
  BY DEF EdgesTo
<1> QED
  BY <1>5, <1>6, <1>7 DEF DisjointUpTo

----------------------------------------------------------------------------
(* What swiss.py is given, and the graph it makes of it. *)

Ranked ==
    /\ n \in Nat
    /\ points \in [Teams -> Int]
    /\ \A i, j \in Teams : i < j => points[i] >= points[j]

weight == Weights(points, met, times, n)

Candidates == Matchings(Unmet(n, met), n)

Graph == Matchings(Edges(n, met), n)

LEMMA UnmetAre ==
    ASSUME Ranked, NEW e \in Unmet(n, met)
    PROVE  \E a \in Teams, b \in Teams :
              a < b /\ e = {a, b} /\ Min(e) = a /\ Max(e) = b
<1>1. IsFiniteSet(Teams) /\ Teams \subseteq Int
  BY FS_Interval DEF Ranked, Teams
<1>2. e \in Pairs(Teams)
  BY DEF Unmet, Teams
<1>3. PICK a \in Teams, b \in Teams : a < b /\ e = {a, b}
  BY ONLY <1>1, <1>2, PairsAre
<1>4. a \in Int /\ b \in Int
  BY <1>1
<1> QED
  BY <1>3, <1>4, PairIs

LEMMA UnmetIsPair ==
    ASSUME Ranked, NEW e \in Unmet(n, met)
    PROVE  e \subseteq Teams /\ IsFiniteSet(e) /\ Cardinality(e) = 2 /\ BYE \notin e
<1>1. IsFiniteSet(Teams) /\ BYE \notin Teams
  BY FS_Interval DEF Ranked, Teams, BYE
<1>2. e \subseteq Teams /\ Cardinality(e) = 2
  BY DEF Unmet, Teams, Pairs
<1> QED
  BY <1>1, <1>2, FS_Subset

LEMMA ByeEdge ==
    ASSUME Ranked, NEW i \in Teams
    PROVE  Max({BYE, i}) = i
<1>1. BYE \in Int /\ i \in Int /\ BYE < i
  BY DEF Ranked, Teams, BYE
<1> QED
  BY <1>1, PairIs

LEMMA GraphEdges ==
    ASSUME Ranked
    PROVE  /\ EdgesTo(Unmet(n, met), n) /\ IsFiniteSet(Unmet(n, met))
           /\ EdgesTo(Edges(n, met), n) /\ IsFiniteSet(Edges(n, met))
<1>1. EdgesTo(Unmet(n, met), n)
  <2>1. ASSUME NEW e \in Unmet(n, met)
        PROVE  e \subseteq 0 .. n /\ Max(e) \in 1 .. n /\ Max(e) \in e
    <3>1. PICK a \in Teams, b \in Teams : e = {a, b} /\ Max(e) = b
      BY UnmetAre
    <3> QED
      BY <3>1 DEF Ranked, Teams
  <2> QED
    BY <2>1 DEF EdgesTo
<1>2. EdgesTo(Edges(n, met), n)
  <2>1. ASSUME NEW i \in 1 .. n
        PROVE  /\ {BYE, i} \subseteq 0 .. n
               /\ Max({BYE, i}) \in 1 .. n /\ Max({BYE, i}) \in {BYE, i}
    BY ByeEdge DEF Ranked, Teams, BYE
  <2> QED
    BY <1>1, <2>1 DEF EdgesTo, Edges
<1>3. IsFiniteSet(Unmet(n, met)) /\ IsFiniteSet(Edges(n, met))
  <2>1. IsFiniteSet(0 .. n)
    BY FS_Interval DEF Ranked
  <2>2. IsFiniteSet(SUBSET (0 .. n))
    BY <2>1, FS_SUBSET
  <2>3. Unmet(n, met) \in SUBSET SUBSET (0 .. n) /\ Edges(n, met) \in SUBSET SUBSET (0 .. n)
    BY <1>1, <1>2 DEF EdgesTo
  <2> QED
    BY <2>2, <2>3, FS_Subset
<1> QED
  BY <1>1, <1>2, <1>3

LEMMA CandidatesAre ==
    ASSUME Ranked
    PROVE  /\ Candidates = {M \in SUBSET Unmet(n, met) : Disjoint(M)}
           /\ Graph = {M \in SUBSET Edges(n, met) : Disjoint(M)}
BY MatchingsAre, GraphEdges DEF Ranked, Candidates, Graph

LEMMA FinitelyMany ==
    ASSUME Ranked
    PROVE  /\ IsFiniteSet(Candidates) /\ {} \in Candidates
           /\ \A M \in Candidates : IsFiniteSet(M) /\ Cardinality(M) \in Nat
           /\ IsFiniteSet(Graph) /\ {} \in Graph
           /\ \A M \in Graph : IsFiniteSet(M) /\ Cardinality(M) \in Nat
<1> DEFINE unmet == Unmet(n, met)
           edges == Edges(n, met)
<1>1. IsFiniteSet(unmet) /\ IsFiniteSet(edges)
  BY GraphEdges
<1>2. Candidates \in SUBSET SUBSET unmet /\ Graph \in SUBSET SUBSET edges
  BY CandidatesAre
<1>3. {} \in Candidates /\ {} \in Graph
  BY CandidatesAre DEF Disjoint
<1> HIDE DEF unmet, edges
<1>4. IsFiniteSet(SUBSET unmet) /\ IsFiniteSet(SUBSET edges)
  BY <1>1, FS_SUBSET
<1>5. IsFiniteSet(Candidates) /\ IsFiniteSet(Graph)
  BY <1>2, <1>4, FS_Subset
<1>6. ASSUME NEW M, M \in Candidates \/ M \in Graph
      PROVE  IsFiniteSet(M) /\ Cardinality(M) \in Nat
  <2>1. IsFiniteSet(M)
    BY <1>1, <1>2, <1>6, FS_Subset
  <2> QED
    BY <2>1, FS_CardinalityType
<1> QED
  BY <1>3, <1>5, <1>6

LEMMA CandidateSize ==
    ASSUME Ranked, NEW M \in Candidates
    PROVE  /\ UNION M \subseteq Teams
           /\ Cardinality(UNION M) = 2 * Cardinality(M)
           /\ Cardinality(M) <= n \div 2
<1>1. M \in SUBSET Unmet(n, met) /\ Disjoint(M)
  BY CandidatesAre
<1>2. UNION M \subseteq Teams
  BY <1>1, UnmetIsPair
<1>3. IsFiniteSet(M) /\ Cardinality(M) \in Nat
  BY FinitelyMany
<1>4. \A e \in M : IsFiniteSet(e) /\ Cardinality(e) = 2
  BY <1>1, UnmetIsPair
<1>5. Cardinality(UNION M) = 2 * Cardinality(M)
  BY <1>1, <1>3, <1>4, UnionSize
<1>6. Cardinality(UNION M) <= n
  <2>1. IsFiniteSet(Teams) /\ Cardinality(Teams) = n
    BY FS_Interval DEF Ranked, Teams
  <2> QED
    BY <1>2, <2>1, FS_Subset
<1> QED
  BY <1>2, <1>3, <1>5, <1>6 DEF Ranked

----------------------------------------------------------------------------
(* The weights. *)

LEMMA SquaresGrow ==
    ASSUME NEW a \in Nat, NEW b \in Nat, a <= b
    PROVE  a * a \in Nat /\ a * a <= b * b
<1>1. PICK c \in Nat : b = a + c
  <2>1. b - a \in Nat /\ b = a + (b - a)
    OBVIOUS
  <2> QED
    BY <2>1
<1>2. b * b = a * a + (2 * a + c) * c
  BY <1>1
<1>3. a * a \in Nat /\ (2 * a + c) * c \in Nat
  OBVIOUS
<1> QED
  BY <1>2, <1>3

LEMMA ProductsGrow ==
    ASSUME NEW a \in Nat, NEW b \in Nat, NEW k \in Nat, a <= b
    PROVE  a * k \in Nat /\ b * k \in Nat /\ a * k <= b * k
<1>1. PICK c \in Nat : b = a + c
  <2>1. b - a \in Nat /\ b = a + (b - a)
    OBVIOUS
  <2> QED
    BY <2>1
<1>2. b * k = a * k + c * k
  BY <1>1
<1>3. a * k \in Nat /\ c * k \in Nat
  OBVIOUS
<1> QED
  BY <1>2, <1>3

LEMMA WidestGap ==
    ASSUME Ranked
    PROVE  /\ MaxGap(points, n) \in Nat
           /\ \A a, b \in Teams : a < b => Gap(points, a, b) \in 0 .. MaxGap(points, n)
<1>1. CASE n = 0
  BY <1>1 DEF MaxGap, Ranked, Teams
<1>2. CASE n # 0
  <2> DEFINE d == points[1] - points[n]
  <2>1. 1 \in Teams /\ n \in Teams
    BY <1>2 DEF Ranked, Teams
  <2>2. \A a \in Teams : points[a] \in Int /\ points[1] >= points[a] /\ points[a] >= points[n]
    <3>1. \A a \in Teams : (a = 1 \/ 1 < a) /\ (a = n \/ a < n)
      BY <2>1 DEF Ranked, Teams
    <3>2. \A a \in Teams : points[a] \in Int
      BY DEF Ranked
    <3> QED
      BY <2>1, <3>1, <3>2 DEF Ranked
  <2>3. d \in Nat
    BY <2>1, <2>2
  <2>4. MaxGap(points, n) = d * d
    <3>1. CASE points[1] > points[n]
      BY <1>2, <3>1 DEF MaxGap, Gap
    <3>2. CASE ~(points[1] > points[n])
      BY <1>2, <2>1, <2>2, <3>2 DEF MaxGap, Gap
    <3> QED
      BY <3>1, <3>2
  <2>5. ASSUME NEW a \in Teams, NEW b \in Teams, a < b
        PROVE  Gap(points, a, b) \in 0 .. MaxGap(points, n)
    <3> DEFINE c == points[a] - points[b]
    <3>1. points[a] >= points[b]
      BY <2>5 DEF Ranked
    <3>2. c \in Nat /\ c <= d
      BY <2>1, <2>2, <3>1
    <3>3. Gap(points, a, b) = c * c
      <4>1. CASE points[a] > points[b]
        BY <4>1 DEF Gap
      <4>2. CASE ~(points[a] > points[b])
        BY <2>2, <3>1, <4>2 DEF Gap
      <4> QED
        BY <4>1, <4>2
    <3>4. c * c \in Nat /\ c * c <= d * d /\ d * d \in Nat
      <4> HIDE DEF c, d
      <4> QED
        BY <2>3, <3>2, SquaresGrow
    <3> HIDE DEF c, d
    <3> QED
      BY <2>4, <3>3, <3>4
  <2>6. d * d \in Nat
    <3> HIDE DEF d
    <3> QED
      BY <2>3, SquaresGrow
  <2> QED
    BY <2>4, <2>5, <2>6
<1> QED
  BY <1>1, <1>2

(* The smaller the gap, the larger the weight. *)
LEMMA UnmetWeight ==
    ASSUME Ranked, NEW e \in Unmet(n, met)
    PROVE  /\ weight[e] \in 0 .. MaxGap(points, n) + 1
           /\ Gap(points, Min(e), Max(e)) \in Int
           /\ weight[e] + Gap(points, Min(e), Max(e)) = MaxGap(points, n) + 1
<1>1. weight[e] = PairWeight(points, n, e)
  <2>1. e \in Edges(n, met)
    BY DEF Edges
  <2> QED
    BY <2>1, UnmetIsPair DEF weight, Weights
<1>2. PICK a \in Teams, b \in Teams : a < b /\ Min(e) = a /\ Max(e) = b
  BY UnmetAre
<1>3. MaxGap(points, n) \in Nat /\ Gap(points, Min(e), Max(e)) \in 0 .. MaxGap(points, n)
  BY <1>2, WidestGap
<1> QED
  BY <1>1, <1>3 DEF PairWeight

(* The larger the weights, the smaller the gaps; and no sum of them is      *)
(* larger than what the weight of a team that sits out is multiplied by.    *)
LEMMA CandidateWeight ==
    ASSUME Ranked, NEW M \in Candidates
    PROVE  /\ TotalWeight(weight, M) \in 0 .. MaxTotalPairWeight(points, n)
           /\ TotalGap(M) \in Int
           /\ TotalWeight(weight, M) + TotalGap(M) = Cardinality(M) * (MaxGap(points, n) + 1)
<1> DEFINE k == MaxGap(points, n) + 1
           gap == [e \in M |-> Gap(points, Min(e), Max(e))]
<1>1. M \in SUBSET Unmet(n, met) /\ IsFiniteSet(M) /\ Cardinality(M) \in Nat
  BY CandidatesAre, FinitelyMany
<1>2. k \in Nat
  BY WidestGap
<1>3. \A e \in M : weight[e] \in 0 .. k /\ gap[e] \in Int /\ weight[e] + gap[e] = k
  BY <1>1, UnmetWeight
<1>4. TotalWeight(weight, M) \in 0 .. Cardinality(M) * k
  <2> HIDE DEF k, gap
  <2> QED
    BY <1>1, <1>2, <1>3, TotalBound
<1>5. TotalGap(M) \in Int
  <2>1. TotalWeight(gap, M) \in Int
    <3> HIDE DEF k, gap
    <3> QED
      BY <1>1, <1>3, TotalType
  <2> QED
    BY <2>1 DEF TotalGap
<1>6. TotalWeight(weight, M) + TotalGap(M) = Cardinality(M) * k
  <2>1. TotalWeight(weight, M) + TotalWeight(gap, M) = Cardinality(M) * k
    <3> HIDE DEF k, gap
    <3>1. \A e \in M : weight[e] \in Int /\ gap[e] \in Int /\ weight[e] + gap[e] = k
      BY <1>2, <1>3
    <3> QED
      BY <1>1, <1>2, <3>1, TotalComplement
  <2> QED
    BY <2>1 DEF TotalGap
<1>7. Cardinality(M) * k <= (n \div 2) * k /\ (n \div 2) * k \in Int /\ Cardinality(M) * k \in Int
  <2>1. Cardinality(M) <= n \div 2
    BY CandidateSize
  <2>2. n \div 2 \in Nat
    BY DEF Ranked
  <2> HIDE DEF k
  <2> QED
    BY <1>1, <1>2, <2>1, <2>2, ProductsGrow
<1> HIDE DEF gap
<1> QED
  BY <1>4, <1>5, <1>6, <1>7 DEF MaxTotalPairWeight

----------------------------------------------------------------------------
(* The matchings networkx may return, and the candidates. *)

LEMMA LargestAre ==
    ASSUME Ranked
    PROVE  /\ Largest = {M \in Candidates : \A N \in Candidates : Cardinality(N) <= Cardinality(M)}
           /\ Largest # {}
<1> DEFINE v == [M \in Candidates |-> Cardinality(M)]
<1>1. v \in [Candidates -> Int]
  BY FinitelyMany
<1>2. /\ {M \in Candidates : v[M] = Max({v[N] : N \in Candidates})} =
              {M \in Candidates : \A N \in Candidates : v[N] <= v[M]}
      /\ \E M \in Candidates : \A N \in Candidates : v[N] <= v[M]
  <2> HIDE DEF v
  <2> QED
    BY <1>1, FinitelyMany, BestAre
<1>3. {v[N] : N \in Candidates} = {Cardinality(N) : N \in Candidates}
  OBVIOUS
<1>4. Largest = {M \in Candidates : v[M] = Max({v[N] : N \in Candidates})}
  <2>1. Largest = {M \in Candidates : Cardinality(M) = Max({Cardinality(N) : N \in Candidates})}
    BY DEF Largest, Candidates
  <2> QED
    BY <1>3, <2>1
<1> QED
  BY <1>2, <1>4

(* Matchings with the most edges and, of those, the largest weight. *)
Best(M) ==
    /\ M \in Graph
    /\ \A N \in Graph :
          /\ Cardinality(N) <= Cardinality(M)
          /\ Cardinality(N) = Cardinality(M) => TotalWeight(weight, N) <= TotalWeight(weight, M)

LEMMA GraphWeight ==
    ASSUME Ranked, NEW M \in Graph, \A e \in Edges(n, met) : weight[e] \in Int
    PROVE  TotalWeight(weight, M) \in Int
<1>1. M \in SUBSET Edges(n, met) /\ IsFiniteSet(M)
  BY CandidatesAre, FinitelyMany
<1> QED
  BY <1>1, TotalType

LEMMA BestMatchings ==
    ASSUME Ranked, \A e \in Edges(n, met) : weight[e] \in Int
    PROVE  /\ \A M \in MaxWeightMatchings(points, met, times, n) : Best(M)
           /\ MaxWeightMatchings(points, met, times, n) # {}
<1> DEFINE size == [M \in Graph |-> Cardinality(M)]
           large == {M \in Graph : \A N \in Graph : size[N] <= size[M]}
           total == [M \in large |-> TotalWeight(weight, M)]
           best == {M \in large : \A N \in large : total[N] <= total[M]}
<1>1. size \in [Graph -> Int] /\ IsFiniteSet(Graph) /\ Graph # {}
  BY FinitelyMany
<1>2. {M \in Graph : size[M] = Max({size[N] : N \in Graph})} = large /\ large # {}
  <2>1. /\ {M \in Graph : size[M] = Max({size[N] : N \in Graph})} =
                {M \in Graph : \A N \in Graph : size[N] <= size[M]}
        /\ \E M \in Graph : \A N \in Graph : size[N] <= size[M]
    <3> HIDE DEF size
    <3> QED
      BY <1>1, BestAre
  <2> HIDE DEF size
  <2> QED
    BY <2>1
<1>3. total \in [large -> Int] /\ IsFiniteSet(large)
  <2>1. large \in SUBSET Graph
    OBVIOUS
  <2>2. IsFiniteSet(large)
    <3> HIDE DEF large
    <3> QED
      BY <1>1, <2>1, FS_Subset
  <2>3. \A M \in Graph : TotalWeight(weight, M) \in Int
    BY GraphWeight
  <2> HIDE DEF large
  <2> QED
    BY <2>1, <2>2, <2>3
<1>4. {M \in large : total[M] = Max({total[N] : N \in large})} = best /\ best # {}
  <2>1. /\ {M \in large : total[M] = Max({total[N] : N \in large})} =
                {M \in large : \A N \in large : total[N] <= total[M]}
        /\ \E M \in large : \A N \in large : total[N] <= total[M]
    <3> HIDE DEF total, large
    <3> QED
      BY <1>2, <1>3, BestAre
  <2> HIDE DEF total, large
  <2> QED
    BY <2>1
<1>5. {size[N] : N \in Graph} = {Cardinality(N) : N \in Graph}
  OBVIOUS
<1>6. {total[N] : N \in large} = {TotalWeight(weight, N) : N \in large}
  <2> HIDE DEF large
  <2> QED
    OBVIOUS
<1>7. MaxWeightMatchings(points, met, times, n) = best
  <2> DEFINE Sized == {M \in Graph : Cardinality(M) = Max({Cardinality(N) : N \in Graph})}
  <2>1. DOMAIN weight = Edges(n, met)
    BY DEF weight, Weights
  <2>2. MaxWeightMatchings(points, met, times, n) =
            {M \in Sized : TotalWeight(weight, M) = Max({TotalWeight(weight, N) : N \in Sized})}
    BY <2>1 DEF MaxWeightMatchings, weight, Graph
  <2>3. Sized = large
    <3>1. Sized = {M \in Graph : size[M] = Max({size[N] : N \in Graph})}
      BY <1>5
    <3> QED
      BY <1>2, <3>1
  <2> HIDE DEF Sized, large
  <2> QED
    BY <1>4, <1>6, <2>2, <2>3
<1>8. ASSUME NEW M \in best
      PROVE  Best(M)
  <2>1. M \in Graph /\ \A N \in Graph : Cardinality(N) <= Cardinality(M)
    OBVIOUS
  <2>2. ASSUME NEW N \in Graph, Cardinality(N) = Cardinality(M)
        PROVE  TotalWeight(weight, N) <= TotalWeight(weight, M)
    <3>1. N \in large
      BY <2>1, <2>2
    <3>2. M \in large /\ total[N] <= total[M]
      BY <3>1
    <3> HIDE DEF large
    <3> QED
      BY <3>1, <3>2
  <2> QED
    BY <2>1, <2>2 DEF Best
<1> HIDE DEF best
<1> QED
  BY <1>4, <1>7, <1>8

(* Of a matching in the graph, the pairs of teams are disjoint pairs. *)
LEMMA PairsOfMatching ==
    ASSUME Ranked, NEW M \in Graph
    PROVE  {e \in M : BYE \notin e} \in Candidates
BY CandidatesAre DEF Edges, Disjoint

(* With an even number of teams nobody sits out by design. *)
LEMMA EvenGraph ==
    ASSUME Ranked, n % 2 # 1
    PROVE  Graph = Candidates /\ \A M \in Graph : {e \in M : BYE \notin e} = M
<1>1. Edges(n, met) = Unmet(n, met)
  BY DEF Edges
<1>2. Graph = Candidates
  BY <1>1 DEF Graph, Candidates
<1>3. ASSUME NEW M \in Candidates, NEW e \in M
      PROVE  BYE \notin e
  <2>1. e \in Unmet(n, met)
    BY CandidatesAre
  <2> QED
    BY <2>1, UnmetIsPair
<1> QED
  BY <1>2, <1>3

LEMMA SomebodyIsLeft ==
    ASSUME Ranked, n % 2 = 1, NEW M \in Candidates
    PROVE  \E i \in Teams : i \in Unpaired(M, n)
<1>1. Cardinality(UNION M) = 2 * Cardinality(M) /\ UNION M \subseteq Teams
  BY CandidateSize
<1>2. Cardinality(M) \in Nat
  BY FinitelyMany
<1>3. Cardinality(Teams) = n
  <2>1. 1 \in Int /\ n \in Int /\ (IF 1 > n THEN 0 ELSE n - 1 + 1) = n
    BY DEF Ranked
  <2>2. Cardinality(1 .. n) = IF 1 > n THEN 0 ELSE n - 1 + 1
    BY <2>1, FS_Interval
  <2> QED
    BY <2>1, <2>2 DEF Teams
<1>4. UNION M # Teams
  <2>1. 2 * Cardinality(M) # n
    BY <1>2 DEF Ranked
  <2> QED
    BY <1>1, <1>3, <2>1
<1> QED
  BY <1>1, <1>4 DEF Unpaired, Teams

(* With an odd number of teams one of those left over can sit out. *)
LEMMA OneSitsOut ==
    ASSUME Ranked, n % 2 = 1, NEW M \in Candidates, NEW i \in Unpaired(M, n)
    PROVE  /\ M \cup {{BYE, i}} \in Graph
           /\ Cardinality(M \cup {{BYE, i}}) = Cardinality(M) + 1
           /\ {e \in M \cup {{BYE, i}} : BYE \notin e} = M
           /\ {BYE, i} \notin M
<1>1. M \in SUBSET Unmet(n, met) /\ Disjoint(M) /\ IsFiniteSet(M)
  BY CandidatesAre, FinitelyMany
<1>2. \A e \in M : BYE \notin e /\ i \notin e
  BY <1>1, UnmetIsPair DEF Unpaired
<1>3. i \in 1 .. n
  BY DEF Unpaired
<1>4. {BYE, i} \in Edges(n, met) /\ M \subseteq Edges(n, met)
  BY <1>1, <1>3 DEF Edges
<1>5. \A e \in M : e \cap {BYE, i} = {}
  BY <1>2
<1>6. Disjoint(M \cup {{BYE, i}})
  BY <1>1, <1>5 DEF Disjoint
<1>7. M \cup {{BYE, i}} \in Graph
  BY <1>4, <1>6, CandidatesAre
<1>8. {BYE, i} \notin M
  BY <1>2
<1>9. Cardinality(M \cup {{BYE, i}}) = Cardinality(M) + 1
  BY <1>1, <1>8, FS_AddElement
<1> QED
  BY <1>2, <1>7, <1>8, <1>9

(* Nobody else does. *)
LEMMA AtMostOneSitsOut ==
    ASSUME Ranked, n % 2 = 1, NEW M \in Graph
    PROVE  \/ M \in Candidates
           \/ \E i \in Unpaired({e \in M : BYE \notin e}, n) :
                 M = {e \in M : BYE \notin e} \cup {{BYE, i}}
<1> DEFINE P == {e \in M : BYE \notin e}
<1>1. M \in SUBSET Edges(n, met) /\ Disjoint(M) /\ P \in Candidates
  BY CandidatesAre, PairsOfMatching
<1>2. CASE \A e \in M : BYE \notin e
  <2>1. M = P
    BY <1>2
  <2> QED
    BY <1>1, <2>1
<1>3. CASE \E e \in M : BYE \in e
  <2>1. PICK e \in M : BYE \in e
    BY <1>3
  <2>2. e \notin Unmet(n, met)
    BY <2>1, UnmetIsPair
  <2>3. PICK i \in 1 .. n : e = {BYE, i}
    BY <1>1, <2>2 DEF Edges
  <2>4. \A o \in M : o # e => o \cap e = {}
    BY <1>1 DEF Disjoint
  <2>5. M = P \cup {e}
    BY <2>1, <2>4
  <2>6. i \in Unpaired(P, n)
    BY <2>1, <2>3, <2>4 DEF Unpaired
  <2> QED
    BY <2>3, <2>5, <2>6
<1> QED
  BY <1>2, <1>3

----------------------------------------------------------------------------
(* Who sits out outweighs how the others are paired. *)

Rank(i) == (IF HasntSatOut(times, n, i) THEN n ELSE 0) + i

Most == MaxTotalPairWeight(points, n)

LEMMA ByeWeights ==
    ASSUME Ranked
    PROVE  /\ Most \in Nat
           /\ \A i \in Teams : /\ Rank(i) \in Nat
                               /\ ByeWeight(points, times, n, i) = (Most + 1) * Rank(i)
                               /\ ByeWeight(points, times, n, i) \in Int
                               /\ n % 2 = 1 => weight[{BYE, i}] = ByeWeight(points, times, n, i)
<1>1. Most \in Nat
  <2>1. n \div 2 \in Nat /\ MaxGap(points, n) + 1 \in Nat
    BY WidestGap DEF Ranked
  <2> QED
    BY <2>1, ProductsGrow DEF Most, MaxTotalPairWeight
<1>2. ASSUME NEW i \in Teams
      PROVE  Rank(i) \in Nat
  BY DEF Rank, Teams, Ranked
<1>3. ASSUME NEW i \in Teams
      PROVE  ByeWeight(points, times, n, i) = (Most + 1) * Rank(i)
  BY DEF ByeWeight, Most, Rank
<1>4. ASSUME NEW i \in Teams
      PROVE  (Most + 1) * Rank(i) \in Int
  <2>1. Rank(i) \in Int /\ Most + 1 \in Int
    BY <1>1, <1>2
  <2> QED
    BY <2>1
<1>5. ASSUME NEW i \in Teams, n % 2 = 1
      PROVE  weight[{BYE, i}] = ByeWeight(points, times, n, i)
  <2>1. {BYE, i} \in Edges(n, met) /\ BYE \in {BYE, i}
    BY <1>5 DEF Edges, Teams
  <2> QED
    BY <2>1, ByeEdge DEF weight, Weights
<1> QED
  BY <1>1, <1>2, <1>3, <1>4, <1>5

LEMMA EdgeWeights ==
    ASSUME Ranked
    PROVE  \A e \in Edges(n, met) : weight[e] \in Int
<1> TAKE e \in Edges(n, met)
<1>1. CASE e \in Unmet(n, met)
  <2>1. weight[e] \in 0 .. MaxGap(points, n) + 1
    BY <1>1, UnmetWeight
  <2> QED
    BY <2>1
<1>2. CASE e \notin Unmet(n, met)
  <2>1. n % 2 = 1 /\ \E i \in Teams : e = {BYE, i}
    BY <1>2 DEF Edges, Teams
  <2> QED
    BY <2>1, ByeWeights
<1> QED
  BY <1>1, <1>2

LEMMA WeightWithBye ==
    ASSUME Ranked, n % 2 = 1, NEW M \in Candidates, NEW i \in Unpaired(M, n)
    PROVE  TotalWeight(weight, M \cup {{BYE, i}}) =
              ByeWeight(points, times, n, i) + TotalWeight(weight, M)
<1> DEFINE bye == {BYE, i}
           all == M \cup {bye}
<1>1. all \in Graph /\ bye \notin M /\ i \in Teams
  BY OneSitsOut DEF Unpaired, Teams
<1>2. all \in SUBSET Edges(n, met) /\ IsFiniteSet(all)
  BY <1>1, CandidatesAre, FinitelyMany
<1>3. \A e \in all : weight[e] \in Int
  BY <1>2, EdgeWeights
<1>4. TotalWeight(weight, all) = weight[bye] + TotalWeight(weight, all \ {bye})
  <2>1. bye \in all
    OBVIOUS
  <2> HIDE DEF all, bye
  <2> QED
    BY <1>2, <1>3, <2>1, TotalWithout
<1>5. all \ {bye} = M
  BY <1>1
<1>6. weight[bye] = ByeWeight(points, times, n, i)
  BY <1>1, ByeWeights
<1> HIDE DEF all, bye
<1>7. TotalWeight(weight, all) = ByeWeight(points, times, n, i) + TotalWeight(weight, M)
  BY <1>4, <1>5, <1>6
<1> QED
  BY <1>7 DEF all, bye

LEMMA HigherRankOutweighs ==
    ASSUME NEW k \in Nat, NEW r \in Int, NEW s \in Int, NEW a \in 0 .. k, NEW b \in 0 .. k,
           (k + 1) * r + a <= (k + 1) * s + b
    PROVE  r <= s
<1> SUFFICES ASSUME s < r
             PROVE  FALSE
  OBVIOUS
<1>1. PICK c \in Nat : r = s + 1 + c
  <2>1. r - s - 1 \in Nat /\ r = s + 1 + (r - s - 1)
    OBVIOUS
  <2> QED
    BY <2>1
<1>2. (k + 1) * r = (k + 1) * s + (k + 1) + (k + 1) * c
  BY <1>1
<1>3. (k + 1) * c \in Nat /\ (k + 1) * s \in Int
  OBVIOUS
<1> QED
  BY <1>2, <1>3

(* Of what is left of a best matching without the team that sits out. *)
OutOf(i, M) ==
    /\ i \in Unpaired(M, n)
    /\ \A N \in Largest : \A j \in Unpaired(N, n) :
          ByeWeight(points, times, n, j) + TotalWeight(weight, N) <=
             ByeWeight(points, times, n, i) + TotalWeight(weight, M)

LEMMA OddPairing ==
    ASSUME Ranked, n % 2 = 1, NEW M, Best(M)
    PROVE  /\ {e \in M : BYE \notin e} \in Largest
           /\ \E i \in Teams : OutOf(i, {e \in M : BYE \notin e})
<1> DEFINE P == {e \in M : BYE \notin e}
<1>0. M \in Graph /\ P \in Candidates
  BY PairsOfMatching DEF Best
<1>1. \A N \in Candidates : \A j \in Unpaired(N, n) :
         N \cup {{BYE, j}} \in Graph /\ Cardinality(N \cup {{BYE, j}}) = Cardinality(N) + 1
  BY OneSitsOut
<1>2. \A N \in Candidates : Cardinality(N) + 1 <= Cardinality(M)
  <2> TAKE N \in Candidates
  <2>1. PICK j \in Teams : j \in Unpaired(N, n)
    BY SomebodyIsLeft
  <2> QED
    BY <1>1, <2>1 DEF Best
<1>3. M \notin Candidates
  <2>1. Cardinality(M) \in Nat
    BY <1>0, FinitelyMany
  <2> QED
    BY <1>2, <2>1
<1>4. PICK i \in Unpaired(P, n) : M = P \cup {{BYE, i}}
  BY <1>0, <1>3, AtMostOneSitsOut
<1>5. Cardinality(M) = Cardinality(P) + 1
  <2> HIDE DEF P
  <2> QED
    BY <1>0, <1>1, <1>4
<1>6. \A N \in Candidates : Cardinality(N) \in Nat
  BY FinitelyMany
<1> HIDE DEF P
<1>7. P \in Largest
  <2>1. \A N \in Candidates : Cardinality(N) <= Cardinality(P)
    BY <1>0, <1>2, <1>5, <1>6
  <2> QED
    BY <1>0, <2>1, LargestAre
<1>8. TotalWeight(weight, M) = ByeWeight(points, times, n, i) + TotalWeight(weight, P)
  BY <1>0, <1>4, WeightWithBye
<1>9. ASSUME NEW N \in Largest, NEW j \in Unpaired(N, n)
      PROVE  ByeWeight(points, times, n, j) + TotalWeight(weight, N) <=
                ByeWeight(points, times, n, i) + TotalWeight(weight, P)
  <2>1. N \in Candidates /\ Cardinality(N) = Cardinality(P)
    <3>1. /\ N \in Candidates /\ P \in Candidates
          /\ Cardinality(N) <= Cardinality(P) /\ Cardinality(P) <= Cardinality(N)
      BY <1>7, LargestAre
    <3> QED
      BY <1>6, <3>1
  <2> DEFINE W == N \cup {{BYE, j}}
  <2>2. W \in Graph /\ Cardinality(W) = Cardinality(M)
    BY <1>1, <1>5, <2>1
  <2>3. TotalWeight(weight, W) = ByeWeight(points, times, n, j) + TotalWeight(weight, N)
    BY <2>1, WeightWithBye
  <2>4. TotalWeight(weight, W) <= TotalWeight(weight, M)
    <3> HIDE DEF W
    <3> QED
      BY <2>2 DEF Best
  <2> QED
    BY <1>8, <2>3, <2>4
<1>10. OutOf(i, P) /\ i \in Teams
  BY <1>9 DEF OutOf, Unpaired, Teams
<1> QED
  BY <1>7, <1>10 DEF P

(* It is the one the docstring names. *)
LEMMA SitsOutIs ==
    ASSUME Ranked, n % 2 = 1, NEW P \in Largest, NEW i \in Teams, OutOf(i, P)
    PROVE  FirstToSitOut(Largest) = i
<1> DEFINE may == UNION {Unpaired(M, n) : M \in Largest}
           fresh == {j \in may : HasntSatOut(times, n, j)}
<1>1. may \subseteq Teams /\ i \in may
  BY DEF OutOf, Unpaired, Teams
<1>2. ASSUME NEW j \in may
      PROVE  Rank(j) <= Rank(i)
  <2>1. PICK N \in Largest : j \in Unpaired(N, n)
    OBVIOUS
  <2> DEFINE a == TotalWeight(weight, N)
             b == TotalWeight(weight, P)
  <2>2. a \in 0 .. Most /\ b \in 0 .. Most
    <3>1. N \in Candidates /\ P \in Candidates
      BY LargestAre
    <3> QED
      BY <3>1, CandidateWeight DEF Most
  <2>3. ByeWeight(points, times, n, j) + a <= ByeWeight(points, times, n, i) + b
    BY <2>1 DEF OutOf
  <2> HIDE DEF a, b, may
  <2>4. (Most + 1) * Rank(j) + a <= (Most + 1) * Rank(i) + b
    BY <1>1, <2>3, ByeWeights
  <2>5. Most \in Nat /\ Rank(j) \in Int /\ Rank(i) \in Int
    <3>1. i \in Teams /\ j \in Teams
      BY <1>1
    <3>2. Most \in Nat /\ Rank(j) \in Nat /\ Rank(i) \in Nat
      BY <3>1, ByeWeights
    <3> QED
      BY <3>2
  <2> QED
    BY ONLY <2>2, <2>4, <2>5, HigherRankOutweighs
<1>3. FirstToSitOut(Largest) = IF fresh # {} THEN Max(fresh) ELSE Max(may)
  BY DEF FirstToSitOut
<1>4. may \subseteq Int /\ \A j \in may : 1 <= j /\ j <= n /\ j \in Int
  <2>1. \A j \in Teams : 1 <= j /\ j <= n /\ j \in Int
    BY DEF Teams, Ranked
  <2> HIDE DEF may, fresh
  <2> QED
    BY <1>1, <2>1
<1>5. \A j \in may : Rank(j) = IF j \in fresh THEN n + j ELSE j
  <2> TAKE j \in may
  <2>1. 0 + j = j
    BY <1>4
  <2> QED
    BY <2>1 DEF Rank
<1>6. CASE fresh = {}
  <2>1. \A j \in may : j <= i
    <3> HIDE DEF may
    <3> QED
      BY <1>1, <1>2, <1>5, <1>6
  <2> HIDE DEF may, fresh
  <2> QED
    BY <1>1, <1>3, <1>4, <1>6, <2>1, MaxIs
<1>7. CASE fresh # {}
  <2>1. fresh \subseteq may
    OBVIOUS
  <2> HIDE DEF may, fresh
  <2>2. i \in fresh
    <3>1. PICK j \in fresh : TRUE
      BY <1>7
    <3>2. j \in may /\ Rank(j) = n + j
      BY <1>5, <2>1, <3>1
    <3>3. ASSUME i \notin fresh
          PROVE  FALSE
      <4>1. Rank(i) = i
        BY <1>1, <1>5, <3>3
      <4>2. n + j <= i /\ 1 <= j /\ i <= n
        BY <1>1, <1>2, <1>4, <3>2, <4>1
      <4> QED
        BY <1>1, <1>4, <3>2, <4>2 DEF Ranked
    <3> QED
      BY <3>3
  <2>3. ASSUME NEW j \in fresh
        PROVE  j <= i
    <3>1. n + j <= n + i
      BY <1>2, <1>5, <2>1, <2>2
    <3> QED
      BY <1>4, <2>1, <2>2, <3>1 DEF Ranked
  <2>4. fresh \in SUBSET Int
    BY <1>4, <2>1
  <2> QED
    BY <1>3, <1>7, <2>2, <2>3, <2>4, MaxIs
<1> QED
  BY <1>6, <1>7

(* The heavier of two equally large sets of pairs has the smaller gaps. *)
LEMMA HeavierIsCloser ==
    ASSUME Ranked, NEW M \in Largest, NEW N \in Largest,
           TotalWeight(weight, N) <= TotalWeight(weight, M)
    PROVE  TotalGap(M) <= TotalGap(N)
<1>1. M \in Candidates /\ N \in Candidates /\ Cardinality(M) = Cardinality(N)
  <2>1. /\ N \in Candidates /\ M \in Candidates
        /\ Cardinality(N) <= Cardinality(M) /\ Cardinality(M) <= Cardinality(N)
    BY LargestAre
  <2>2. Cardinality(M) \in Nat /\ Cardinality(N) \in Nat
    BY <2>1, FinitelyMany
  <2> QED
    BY <2>1, <2>2
<1>2. /\ TotalWeight(weight, M) + TotalGap(M) = TotalWeight(weight, N) + TotalGap(N)
      /\ TotalGap(M) \in Int /\ TotalGap(N) \in Int
  BY <1>1, CandidateWeight
<1>3. TotalWeight(weight, M) \in 0 .. Most /\ TotalWeight(weight, N) \in 0 .. Most
  BY <1>1, CandidateWeight DEF Most
<1>4. Most \in Nat
  BY ByeWeights
<1> QED
  BY <1>2, <1>3, <1>4

----------------------------------------------------------------------------
(* What get_swiss_pairing returns, for any number of teams. *)

LEMMA PairingsAre ==
    ASSUME Ranked, NEW P \in Pairings(points, met, times, n)
    PROVE  \E M : Best(M) /\ P = {e \in M : BYE \notin e}
<1>1. PICK M \in MaxWeightMatchings(points, met, times, n) : P = {e \in M : BYE \notin e}
  BY DEF Pairings
<1>2. Best(M)
  BY EdgeWeights, BestMatchings
<1> QED
  BY <1>1, <1>2

LEMMA EvenPairing ==
    ASSUME Ranked, n % 2 # 1, NEW P \in Pairings(points, met, times, n)
    PROVE  /\ P \in Largest
           /\ \A N \in Largest : TotalGap(P) <= TotalGap(N)
<1>1. PICK M : Best(M) /\ P = {e \in M : BYE \notin e}
  BY PairingsAre
<1>2. P = M /\ Best(P) /\ Graph = Candidates
  BY <1>1, EvenGraph DEF Best
<1>3. P \in Largest
  BY <1>2, LargestAre DEF Best
<1>4. ASSUME NEW N \in Largest
      PROVE  TotalGap(P) <= TotalGap(N)
  <2>1. N \in Graph /\ Cardinality(N) = Cardinality(P)
    <3>1. /\ N \in Candidates /\ P \in Candidates
          /\ Cardinality(N) <= Cardinality(P) /\ Cardinality(P) <= Cardinality(N)
      BY <1>3, LargestAre
    <3>2. Cardinality(P) \in Nat /\ Cardinality(N) \in Nat
      BY <3>1, FinitelyMany
    <3> QED
      BY <1>2, <3>1, <3>2
  <2>2. TotalWeight(weight, N) <= TotalWeight(weight, P)
    BY <1>2, <2>1 DEF Best
  <2> QED
    BY <1>3, <2>2, HeavierIsCloser
<1> QED
  BY <1>3, <1>4

LEMMA OddPairings ==
    ASSUME Ranked, n % 2 = 1, NEW P \in Pairings(points, met, times, n)
    PROVE  /\ P \in Largest
           /\ FirstToSitOut(Largest) \in Unpaired(P, n)
           /\ \A N \in Largest : FirstToSitOut(Largest) \in Unpaired(N, n) => TotalGap(P) <= TotalGap(N)
<1>1. PICK M : Best(M) /\ P = {e \in M : BYE \notin e}
  BY PairingsAre
<1>2. P \in Largest /\ \E i \in Teams : OutOf(i, P)
  BY <1>1, OddPairing
<1>3. PICK i \in Teams : OutOf(i, P)
  BY <1>2
<1>4. FirstToSitOut(Largest) = i
  BY <1>2, <1>3, SitsOutIs
<1>5. ASSUME NEW N \in Largest, i \in Unpaired(N, n)
      PROVE  TotalGap(P) <= TotalGap(N)
  <2>1. ByeWeight(points, times, n, i) + TotalWeight(weight, N) <=
           ByeWeight(points, times, n, i) + TotalWeight(weight, P)
    BY <1>3, <1>5 DEF OutOf
  <2>2. N \in Candidates /\ P \in Candidates
    BY <1>2, LargestAre
  <2>3. /\ ByeWeight(points, times, n, i) \in Int /\ Most \in Nat
        /\ TotalWeight(weight, N) \in 0 .. Most /\ TotalWeight(weight, P) \in 0 .. Most
    BY <2>2, ByeWeights, CandidateWeight DEF Most
  <2>4. TotalWeight(weight, N) <= TotalWeight(weight, P)
    BY <2>1, <2>3
  <2> QED
    BY <1>2, <2>4, HeavierIsCloser
<1> QED
  BY <1>2, <1>3, <1>4, <1>5 DEF OutOf

(* While nothing else is created, there are teams in some order of their    *)
(* points, and what was returned for them is one of the pairings.           *)
Inv ==
    /\ kind = "swiss" => Ranked
    /\ Paired => kind = "swiss" /\ pairs \in Pairings(points, met, times, n)

LEMMA Invariant == Spec => []Inv
<1>1. Init => Inv
  <2> SUFFICES ASSUME Init
               PROVE  Inv
    OBVIOUS
  <2>1. n \in Nat
    BY BoundsAssumption DEF Init
  <2>2. points \in [Teams -> 0 .. MaxPoints] /\ \A i, j \in Teams : i < j => points[i] >= points[j]
    BY DEF Init
  <2>3. points \in [Teams -> Int]
    BY <2>2, BoundsAssumption
  <2> QED
    BY <2>1, <2>2, <2>3 DEF Init, Inv, Ranked, Paired
<1>2. Inv /\ [Next]_vars => Inv'
  <2> SUFFICES ASSUME Inv, [Next]_vars
               PROVE  Inv'
    OBVIOUS
  <2>1. CASE Pair
    <3>1. UNCHANGED <<n, points, met, times>> /\ kind' = kind /\ kind = "swiss" /\ Ranked
      BY <2>1 DEF Pair, Inv
    <3>2. Ranked'
      BY <3>1 DEF Ranked, Teams
    <3>3. pairs' \in Pairings(points', met', times', n')
      BY <2>1, <3>1 DEF Pair
    <3> QED
      BY <3>1, <3>2, <3>3 DEF Inv
  <2>2. CASE CreateRoundRobin
    BY <2>2 DEF CreateRoundRobin, Nothing, swiss, Inv, Paired
  <2>3. CASE CreateElimination
    BY <2>3 DEF CreateElimination, Nothing, swiss, Inv, Paired
  <2>4. CASE UNCHANGED vars
    <3>1. UNCHANGED <<n, points, met, times, pairs, kind>>
      BY <2>4 DEF vars, swiss
    <3> QED
      BY <3>1 DEF Inv, Ranked, Teams, Paired
  <2> QED
    BY <2>1, <2>2, <2>3, <2>4 DEF Next
<1> QED
  BY <1>1, <1>2, PTL DEF Spec

LEMMA Promises ==
    Inv => AsManyAsPossible /\ SitsOutFairly /\ ClosestOpponents
<1> SUFFICES ASSUME Inv, Paired
             PROVE  AsManyAsPossible /\ SitsOutFairly /\ ClosestOpponents
  BY DEF AsManyAsPossible, SitsOutFairly, ClosestOpponents
<1>1. Ranked /\ pairs \in Pairings(points, met, times, n)
  BY DEF Inv
<1>2. CASE n % 2 = 1
  BY <1>1, <1>2, OddPairings DEF AsManyAsPossible, SitsOutFairly, ClosestOpponents
<1>3. CASE n % 2 # 1
  BY <1>1, <1>3, EvenPairing DEF AsManyAsPossible, SitsOutFairly, ClosestOpponents
<1> QED
  BY <1>2, <1>3

(* Nobody plays twice or meets an opponent again, and no other pairing has  *)
(* more matches, whichever matching of the largest weight networkx chooses  *)
(* (get_swiss_pairing).                                                     *)
THEOREM PairsAsManyAsPossible == Spec => []AsManyAsPossible
BY Invariant, Promises, PTL

(* Of an odd number of teams the lowest ranked of those that have not sat   *)
(* out yet sits out, if the most matches can be had without it: the weight  *)
(* of sitting out is above any sum of the weights of pairs                  *)
(* (_get_bye_weight).                                                       *)
THEOREM LowestFreshTeamSitsOut == Spec => []SitsOutFairly
BY Invariant, Promises, PTL

(* Among the pairings left, none has a smaller sum of squared gaps          *)
(* (_get_pair_weight).                                                      *)
THEOREM OpponentsAreClosest == Spec => []ClosestOpponents
BY Invariant, Promises, PTL

(* There is always a pairing to return, if only the empty one, when no two  *)
(* teams are left that have not met (get_swiss_pairing).                    *)
THEOREM SomePairingIsFound == Spec => [](kind = "swiss" => Pairings(points, met, times, n) # {})
<1>1. ASSUME Inv, kind = "swiss"
      PROVE  Pairings(points, met, times, n) # {}
  <2>1. MaxWeightMatchings(points, met, times, n) # {}
    BY <1>1, EdgeWeights, BestMatchings DEF Inv
  <2> QED
    BY <2>1 DEF Pairings
<1>2. Inv => (kind = "swiss" => Pairings(points, met, times, n) # {})
  BY <1>1
<1> QED
  BY <1>2, Invariant, PTL

----------------------------------------------------------------------------
(* The table of a round robin, for half the number of its places. *)

(* Who is at place i of the table in round r.                               *)
Seat(half, r, i) ==
    IF i = 1 THEN 0 ELSE IF r < i THEN i - r ELSE i - r + 2 * half - 1

Table(half, r) == [i \in 1 .. 2 * half |-> Seat(half, r, i)]

LEMMA SeatsAre ==
    ASSUME NEW half \in Nat, half >= 1, NEW r \in 1 .. 2 * half - 1
    PROVE  /\ \A i \in 1 .. 2 * half : Seat(half, r, i) \in 0 .. 2 * half - 1
           /\ \A i, j \in 1 .. 2 * half : Seat(half, r, i) = Seat(half, r, j) => i = j
BY DEF Seat

LEMMA ThreePieces ==
    ASSUME NEW S, NEW a \in Seq(S), Len(a) = 1, NEW x \in S, NEW c \in Seq(S)
    PROVE  /\ a \o <<x>> \o c \in Seq(S) /\ Len(a \o <<x>> \o c) = Len(c) + 2
           /\ \A i \in 1 .. Len(c) + 2 :
                 (a \o <<x>> \o c)[i] = IF i = 1 THEN a[1] ELSE IF i = 2 THEN x ELSE c[i - 2]
<1> DEFINE y == <<x>>
           b == a \o y
<1>1. y \in Seq(S) /\ Len(y) = 1 /\ y[1] = x
  OBVIOUS
<1> HIDE DEF y
<1>2. /\ b \in Seq(S) /\ Len(b) = Len(a) + Len(y)
      /\ \A i \in 1 .. Len(a) + Len(y) : b[i] = IF i <= Len(a) THEN a[i] ELSE y[i - Len(a)]
  BY <1>1, ConcatProperties
<1>3. Len(b) = 2 /\ b[1] = a[1] /\ b[2] = x
  BY <1>1, <1>2
<1> HIDE DEF b
<1>4. Len(c) \in Nat
  OBVIOUS
<1>5. /\ b \o c \in Seq(S) /\ Len(b \o c) = Len(b) + Len(c)
      /\ \A i \in 1 .. Len(b) + Len(c) : (b \o c)[i] = IF i <= Len(b) THEN b[i] ELSE c[i - Len(b)]
  <2>1. b \in Seq(S)
    BY <1>2
  <2> QED
    BY <2>1, ConcatProperties
<1> DEFINE d == b \o c
<1> HIDE DEF d
<1>6. ASSUME NEW i \in 1 .. Len(c) + 2
      PROVE  d[i] = IF i = 1 THEN a[1] ELSE IF i = 2 THEN x ELSE c[i - 2]
  <2>1. i \in 1 .. Len(b) + Len(c)
    BY <1>3, <1>4
  <2>2. d[i] = IF i <= Len(b) THEN b[i] ELSE c[i - Len(b)]
    BY <1>5, <2>1 DEF d
  <2> QED
    BY <1>3, <1>4, <2>2
<1> QED
  BY <1>3, <1>4, <1>5, <1>6 DEF b, d, y

(* The last of the table is moved to the second place. *)
LEMMA LastMoved ==
    ASSUME NEW k \in Nat, k >= 2, NEW S, NEW table \in [1 .. k -> S],
           \A i \in 1 .. k : table[i] = table[k] => i = k
    PROVE  Turned(table, table[k]) =
              [i \in 1 .. k |-> IF i = 1 THEN table[1] ELSE IF i = 2 THEN table[k] ELSE table[i - 1]]
<1> DEFINE x == table[k]
           rest == [i \in 1 .. k - 1 |-> table[i]]
           turned == [i \in 1 .. k |-> IF i = 1 THEN table[1] ELSE IF i = 2 THEN x ELSE table[i - 1]]
<1>1. PlaceOf(table, x) = k
  BY DEF PlaceOf
<1>2. table \in Seq(S) /\ Len(table) = k
  OBVIOUS
<1>3. RemoveAt(table, k) = rest
  <2>1. RemoveAt(table, k) = SubSeq(table, 1, k - 1) \o SubSeq(table, k + 1, k)
    BY <1>2 DEF RemoveAt
  <2>2. SubSeq(table, 1, k - 1) = rest
    BY <1>2
  <2>3. SubSeq(table, k + 1, k) = <<>>
    BY <1>2
  <2>4. rest \in Seq(S)
    OBVIOUS
  <2> HIDE DEF rest
  <2> QED
    BY <2>1, <2>2, <2>3, <2>4
<1>4. rest \in Seq(S) /\ Len(rest) = k - 1
  OBVIOUS
<1> DEFINE head == SubSeq(rest, 1, 1)
           tail == SubSeq(rest, 2, k - 1)
<1>5. /\ head \in Seq(S) /\ Len(head) = 1 /\ head[1] = table[1]
      /\ tail \in Seq(S) /\ Len(tail) = k - 2 /\ \A i \in 1 .. k - 2 : tail[i] = table[i + 1]
  <2>1. \A i \in 1 .. k - 1 : rest[i] = table[i]
    OBVIOUS
  <2> HIDE DEF rest
  <2>2. head \in Seq(S) /\ Len(head) = 1 /\ head[1] = rest[1]
    BY <1>4
  <2>3. tail \in Seq(S) /\ Len(tail) = k - 2 /\ \A i \in 1 .. k - 2 : tail[i] = rest[i + 1]
    BY <1>4
  <2> QED
    BY <2>1, <2>2, <2>3
<1>6. InsertAt(rest, 2, x) = head \o <<x>> \o tail
  <2>1. 2 - 1 = 1
    OBVIOUS
  <2> HIDE DEF rest
  <2> QED
    BY <1>4, <2>1 DEF InsertAt
<1>7. head \o <<x>> \o tail = turned
  <2>1. x \in S
    OBVIOUS
  <2> DEFINE all == head \o <<x>> \o tail
  <2> HIDE DEF head, tail, x
  <2>2. /\ all \in Seq(S) /\ Len(all) = k
        /\ \A i \in 1 .. k : all[i] = IF i = 1 THEN head[1] ELSE IF i = 2 THEN x ELSE tail[i - 2]
    <3>1. Len(tail) + 2 = k
      BY <1>5
    <3> QED
      BY <1>5, <2>1, <3>1, ThreePieces
  <2> HIDE DEF all
  <2>3. ASSUME NEW i \in 1 .. k
        PROVE  all[i] = turned[i]
    <3>1. all[i] = IF i = 1 THEN head[1] ELSE IF i = 2 THEN x ELSE tail[i - 2]
      BY <2>2
    <3>2. i > 2 => tail[i - 2] = table[i - 1]
      BY <1>5
    <3> QED
      BY <1>5, <3>1, <3>2
  <2>4. DOMAIN all = 1 .. k /\ all = [i \in DOMAIN all |-> all[i]]
    BY <2>2
  <2> QED
    BY <2>3, <2>4 DEF all
<1> QED
  BY <1>1, <1>3, <1>6, <1>7 DEF Turned

LEMMA TableTurns ==
    ASSUME NEW half \in Nat, half >= 1, NEW r \in 2 .. 2 * half - 1
    PROVE  Turned(Table(half, r - 1), 2 * half + 1 - r) = Table(half, r)
<1> DEFINE k == 2 * half
           table == Table(half, r - 1)
<1>1. k \in Nat /\ k >= 2 /\ r - 1 \in 1 .. k - 1
  OBVIOUS
<1>2. table \in [1 .. k -> 0 .. k - 1] /\ \A i \in 1 .. k : table[i] = table[k] => i = k
  <2>1. /\ \A i \in 1 .. k : Seat(half, r - 1, i) \in 0 .. k - 1
        /\ \A i, j \in 1 .. k : Seat(half, r - 1, i) = Seat(half, r - 1, j) => i = j
    BY <1>1, SeatsAre
  <2> QED
    BY <1>1, <2>1 DEF Table
<1>3. table[k] = 2 * half + 1 - r
  BY <1>1 DEF Table, Seat
<1>4. Table(half, r) =
         [i \in 1 .. k |-> IF i = 1 THEN table[1] ELSE IF i = 2 THEN table[k] ELSE table[i - 1]]
  <2>1. ASSUME NEW i \in 1 .. k
        PROVE  Seat(half, r, i) =
                  IF i = 1 THEN table[1] ELSE IF i = 2 THEN table[k] ELSE table[i - 1]
    <3>1. CASE i = 1
      BY <1>1, <3>1 DEF Table, Seat
    <3>2. CASE i = 2
      BY <1>1, <1>3, <3>2 DEF Seat
    <3>3. CASE i > 2
      BY <1>1, <3>3 DEF Table, Seat
    <3> QED
      BY <3>1, <3>2, <3>3
  <2> HIDE DEF table
  <2> QED
    BY <2>1 DEF Table
<1>5. Turned(table, table[k]) =
         [i \in 1 .. k |-> IF i = 1 THEN table[1] ELSE IF i = 2 THEN table[k] ELSE table[i - 1]]
  <2> HIDE DEF table, k
  <2> QED
    BY <1>1, <1>2, LastMoved
<1> QED
  BY <1>3, <1>4, <1>5

LEMMA FirstTable ==
    ASSUME NEW half \in Nat, half >= 1
    PROVE  [i \in 1 .. 2 * half |-> i - 1] = Table(half, 1)
BY DEF Table, Seat

LEMMA HalfOf ==
    ASSUME NEW size \in Nat, size >= 2
    PROVE  \E half \in Nat : /\ half >= 1 /\ RoundCount(size) = 2 * half - 1
                             /\ size \in 2 * half - 1 .. 2 * half
<1>1. CASE size % 2 = 0
  <2>1. PICK half \in Nat : size = 2 * half
    BY <1>1
  <2> QED
    BY <1>1, <2>1 DEF RoundCount
<1>2. CASE size % 2 # 0
  <2>1. PICK half \in Nat : size = 2 * half - 1
    <3>1. size % 2 = 1
      BY <1>2
    <3>2. PICK below \in Nat : size = 2 * below + 1
      BY <3>1
    <3>3. below + 1 \in Nat /\ size = 2 * (below + 1) - 1
      BY <3>2
    <3> QED
      BY <3>3
  <2> QED
    BY <1>2, <2>1 DEF RoundCount
<1> QED
  BY <1>1, <1>2

(* Who meets whom in round r, at the m-th place of the table.               *)
Meeting(half, r, m) == {Seat(half, r, m), Seat(half, r, 2 * half + 1 - m)}

(* Which of them are created.                                               *)
Rows(half, size, r) ==
    {m \in 1 .. half : Seat(half, r, m) < size /\ Seat(half, r, 2 * half + 1 - m) < size}

LEMMA TablesAre ==
    ASSUME NEW size \in Nat, NEW half \in Nat, half >= 1, RoundCount(size) = 2 * half - 1
    PROVE  Combinations(size) = [r \in 1 .. 2 * half - 1 |-> Folded(Table(half, r))]
<1> DEFINE count == 2 * half - 1
           first == [i \in 1 .. count + 1 |-> i - 1]
           step(f, r) == IF r = 1 THEN first ELSE Turned(f[r - 1], count + 2 - r)
           g == [r \in 1 .. count |-> Table(half, r)]
           f == CHOOSE f : f = [r \in 1 .. count |-> step(f, r)]
<1>1. \A r \in 1 .. count : step(g, r) = g[r]
  <2> SUFFICES ASSUME NEW r \in 1 .. count
               PROVE  step(g, r) = g[r]
    OBVIOUS
  <2>1. CASE r = 1
    <3>1. count + 1 = 2 * half
      OBVIOUS
    <3> QED
      BY <2>1, <3>1, FirstTable
  <2>2. CASE r # 1
    <3>1. r \in 2 .. 2 * half - 1 /\ r - 1 \in 1 .. count /\ count + 2 - r = 2 * half + 1 - r
      BY <2>2
    <3>2. Turned(Table(half, r - 1), 2 * half + 1 - r) = Table(half, r)
      BY <3>1, TableTurns
    <3>3. g[r - 1] = Table(half, r - 1) /\ g[r] = Table(half, r)
      BY <3>1
    <3> HIDE DEF g, first, count
    <3> QED
      BY <2>2, <3>1, <3>2, <3>3
  <2> QED
    BY <2>1, <2>2
<1>2. g = [r \in 1 .. count |-> step(g, r)]
  <2> HIDE DEF step
  <2> QED
    BY <1>1
<1>3. f = [r \in 1 .. count |-> step(f, r)]
  <2> HIDE DEF g, step
  <2> QED
    BY <1>2
<1>4. \A r \in 1 .. count : f[r] = g[r]
  <2> DEFINE Fails == {r \in 1 .. count : f[r] # g[r]}
  <2>1. ASSUME NEW r \in Fails
        PROVE  \E q \in Fails : q < r
    <3>1. f[r] = step(f, r) /\ g[r] = step(g, r) /\ r \in 1 .. count /\ f[r] # g[r]
      <4> HIDE DEF step, f, g
      <4> QED
        BY <1>1, <1>3
    <3> HIDE DEF f, g
    <3>2. r # 1
      BY <3>1
    <3>3. f[r - 1] # g[r - 1]
      BY <3>1, <3>2
    <3>4. r - 1 \in Fails /\ r - 1 < r
      BY <3>1, <3>2, <3>3
    <3> QED
      BY <3>4
  <2>2. Fails \in SUBSET (0 .. count) /\ count \in Nat
    OBVIOUS
  <2>3. Fails = {}
    <3> HIDE DEF Fails, count
    <3> QED
      BY <2>1, <2>2, NoFirstFailure
  <2> QED
    BY <2>3
<1>5. Combinations(size) = [r \in 1 .. count |-> Folded(f[r])]
  BY DEF Combinations
<1> QED
  <2> HIDE DEF f
  <2> QED
    BY <1>4, <1>5

LEMMA RoundRobinIs ==
    ASSUME NEW size \in Nat, NEW half \in Nat, half >= 1, RoundCount(size) = 2 * half - 1
    PROVE  BuildRoundRobin(size) =
              [r \in 1 .. 2 * half - 1 |->
                  [m \in Rows(half, size, r) |-> <<Seat(half, r, m), Seat(half, r, 2 * half + 1 - m)>>]]
<1>1. ASSUME NEW r \in 1 .. 2 * half - 1
      PROVE  Existing(size, Folded(Table(half, r))) =
                [m \in Rows(half, size, r) |-> <<Seat(half, r, m), Seat(half, r, 2 * half + 1 - m)>>]
  <2>1. Len(Table(half, r)) = 2 * half /\ (2 * half) \div 2 = half
    BY DEF Table
  <2>2. Folded(Table(half, r)) =
           [m \in 1 .. half |-> <<Seat(half, r, m), Seat(half, r, 2 * half + 1 - m)>>]
    <3>1. ASSUME NEW m \in 1 .. half
          PROVE  Table(half, r)[m] = Seat(half, r, m)
                 /\ Table(half, r)[2 * half + 1 - m] = Seat(half, r, 2 * half + 1 - m)
      BY DEF Table
    <3> QED
      BY <2>1, <3>1 DEF Folded
  <2> DEFINE folded == [m \in 1 .. half |-> <<Seat(half, r, m), Seat(half, r, 2 * half + 1 - m)>>]
  <2>3. {m \in DOMAIN folded : folded[m][1] < size /\ folded[m][2] < size} = Rows(half, size, r)
    BY DEF Rows
  <2>4. Rows(half, size, r) \subseteq 1 .. half
    BY DEF Rows
  <2> QED
    BY <2>2, <2>3, <2>4 DEF Existing, Restrict
<1>2. BuildRoundRobin(size) = [r \in 1 .. 2 * half - 1 |-> Existing(size, Folded(Table(half, r)))]
  BY TablesAre DEF BuildRoundRobin
<1> QED
  BY <1>1, <1>2

(* Every two meet: in the round the sum of their numbers tells.             *)
LEMMA EveryTwoMeet ==
    ASSUME NEW half \in Nat, half >= 1, NEW a \in 0 .. 2 * half - 1, NEW b \in 0 .. 2 * half - 1, a < b
    PROVE  \E r \in 1 .. 2 * half - 1, m \in 1 .. half : Meeting(half, r, m) = {a, b}
<1> DEFINE k == 2 * half - 1
<1>1. ASSUME NEW r \in 1 .. k, NEW i \in 1 .. 2 * half,
             \/ Seat(half, r, i) = a /\ Seat(half, r, 2 * half + 1 - i) = b
             \/ Seat(half, r, i) = b /\ Seat(half, r, 2 * half + 1 - i) = a
      PROVE  \E m \in 1 .. half : Meeting(half, r, m) = {a, b}
  <2>1. CASE i <= half
    <3>1. Meeting(half, r, i) = {a, b}
      BY <1>1 DEF Meeting
    <3> QED
      BY <2>1, <3>1
  <2>2. CASE i > half
    <3> DEFINE m == 2 * half + 1 - i
    <3>1. m \in 1 .. half /\ 2 * half + 1 - m = i
      BY <2>2
    <3>2. Meeting(half, r, m) = {Seat(half, r, m), Seat(half, r, i)}
      BY <3>1 DEF Meeting
    <3>3. Meeting(half, r, m) = {a, b}
      BY <1>1, <3>2
    <3> QED
      BY <3>1, <3>3
  <2> QED
    BY <2>1, <2>2
<1>2. CASE a = 0
  <2> DEFINE r == 2 * half - b
  <2>1. r \in 1 .. k /\ 1 \in 1 .. 2 * half
    BY <1>2
  <2>2. Seat(half, r, 1) = 0 /\ Seat(half, r, 2 * half + 1 - 1) = b
    BY <1>2 DEF Seat
  <2> HIDE DEF r
  <2> QED
    BY <1>1, <1>2, <2>1, <2>2
<1>3. CASE a >= 1
  <2>1. PICK r \in 1 .. k : \E t \in 0 .. 3 : 2 * r + a + b = 2 + t * k
    <3>1. PICK h \in Nat : a + b = 2 * h \/ a + b = 2 * h + 1
      <4> DEFINE s == a + b
      <4>1. s \in Nat
        OBVIOUS
      <4> HIDE DEF s
      <4>2. s % 2 \in 0 .. 1 /\ s \div 2 \in Nat /\ s = 2 * (s \div 2) + (s % 2)
        BY <4>1
      <4>3. \E h \in Nat : s = 2 * h \/ s = 2 * h + 1
        BY <4>1, <4>2
      <4> QED
        BY <4>3 DEF s
    <3>2. CASE a + b = 2 * h
      <4>1. k + 1 - h \in 1 .. k /\ 2 * (k + 1 - h) + a + b = 2 + 2 * k
        BY <1>3, <3>2
      <4> QED
        BY <4>1
    <3>3. CASE a + b = 2 * h + 1 /\ a + b <= k
      <4>1. half - h \in 1 .. k /\ 2 * (half - h) + a + b = 2 + 1 * k
        BY <1>3, <3>3
      <4> QED
        BY <4>1
    <3>4. CASE a + b = 2 * h + 1 /\ a + b > k
      <4>1. half - h + k \in 1 .. k /\ 2 * (half - h + k) + a + b = 2 + 3 * k
        BY <1>3, <3>4
      <4> DEFINE r == half - h + k
      <4> HIDE DEF r, k
      <4> QED
        BY <4>1 DEF r
    <3> QED
      BY <3>1, <3>2, <3>3, <3>4
  <2>2. 2 * r + a + b \in {2, 2 + k, 2 + 2 * k, 2 + 3 * k}
    BY <2>1
  <2>3. CASE a + r <= 2 * half
    <3>1. a + r \in 1 .. 2 * half /\ Seat(half, r, a + r) = a
      BY <1>3, <2>3 DEF Seat
    <3>2. Seat(half, r, 2 * half + 1 - (a + r)) = b
      BY <1>3, <2>2, <2>3 DEF Seat
    <3> QED
      BY <1>1, <3>1, <3>2
  <2>4. CASE a + r > 2 * half
    <3>1. a + r - k \in 1 .. 2 * half /\ Seat(half, r, a + r - k) = a
      BY <1>3, <2>4 DEF Seat
    <3>2. Seat(half, r, 2 * half + 1 - (a + r - k)) = b
      BY <1>3, <2>2, <2>4 DEF Seat
    <3> QED
      BY <1>1, <3>1, <3>2
  <2> QED
    BY <2>3, <2>4
<1> QED
  BY <1>2, <1>3

(* Nobody is at two places of a round.                                      *)
LEMMA OnePlaceEach ==
    ASSUME NEW half \in Nat, half >= 1, NEW r \in 1 .. 2 * half - 1,
           NEW m \in 1 .. half, NEW o \in 1 .. half
    PROVE  /\ Seat(half, r, m) # Seat(half, r, 2 * half + 1 - o)
           /\ m # o => Meeting(half, r, m) \cap Meeting(half, r, o) = {}
<1>1. /\ m \in 1 .. 2 * half /\ o \in 1 .. 2 * half
      /\ 2 * half + 1 - m \in 1 .. 2 * half /\ 2 * half + 1 - o \in 1 .. 2 * half
      /\ m # 2 * half + 1 - o /\ o # 2 * half + 1 - m
  OBVIOUS
<1>2. \A i, j \in 1 .. 2 * half : Seat(half, r, i) = Seat(half, r, j) => i = j
  BY SeatsAre
<1>3. Seat(half, r, m) # Seat(half, r, 2 * half + 1 - o) /\ Seat(half, r, o) # Seat(half, r, 2 * half + 1 - m)
  BY <1>1, <1>2
<1>4. m # o => Seat(half, r, m) # Seat(half, r, o)
                /\ Seat(half, r, 2 * half + 1 - m) # Seat(half, r, 2 * half + 1 - o)
  <2>1. m # o => 2 * half + 1 - m # 2 * half + 1 - o
    OBVIOUS
  <2> QED
    BY <1>1, <1>2, <2>1
<1> QED
  BY <1>3, <1>4 DEF Meeting

(* No two meet twice.                                                       *)
LEMMA NoTwoMeetTwice ==
    ASSUME NEW half \in Nat, half >= 1, NEW r \in 1 .. 2 * half - 1, NEW q \in 1 .. 2 * half - 1,
           NEW m \in 1 .. half, NEW o \in 1 .. half, Meeting(half, r, m) = Meeting(half, q, o)
    PROVE  r = q /\ m = o
<1> DEFINE x == Seat(half, r, m)
           y == Seat(half, r, 2 * half + 1 - m)
           u == Seat(half, q, o)
           v == Seat(half, q, 2 * half + 1 - o)
<1>1. /\ x \in Int /\ y \in Int /\ u \in Int /\ v \in Int
      /\ (x = 0 <=> m = 1) /\ (u = 0 <=> o = 1) /\ y # 0 /\ v # 0
  BY DEF Seat
<1>2. (x = u /\ y = v) \/ (x = v /\ y = u)
  <2> HIDE DEF x, y, u, v
  <2>1. {x, y} = {u, v}
    BY DEF Meeting, x, y, u, v
  <2> QED
    BY <2>1
<1>3. r = q
  <2>1. CASE m = 1
    <3>1. o = 1
      <4> HIDE DEF x, y, u, v
      <4> QED
        BY <1>1, <1>2, <2>1
    <3>2. x = 0 /\ u = 0 /\ y = 2 * half - r /\ v = 2 * half - q
      BY <2>1, <3>1 DEF Seat
    <3>3. y = v
      <4> HIDE DEF x, y, u, v
      <4> QED
        BY <1>1, <1>2, <3>2
    <3> QED
      BY <3>2, <3>3
  <2>2. CASE m # 1
    <3> DEFINE k == 2 * half - 1
    <3>1. o # 1
      <4> HIDE DEF x, y, u, v
      <4> QED
        BY <1>1, <1>2, <2>2
    <3>2. x + y = u + v
      <4> HIDE DEF x, y, u, v
      <4> QED
        BY <1>1, <1>2
    <3>3. x + y - (k + 2 - 2 * r) \in {0, k, 2 * k}
      BY <2>2 DEF Seat
    <3>4. u + v - (k + 2 - 2 * q) \in {0, k, 2 * k}
      BY <3>1 DEF Seat
    <3>5. 2 * (r - q) \in {0, k, 2 * k, -k, -(2 * k)}
      <4> HIDE DEF x, y, u, v
      <4> QED
        BY <1>1, <3>2, <3>3, <3>4
    <3> QED
      BY <3>5
  <2> QED
    BY <2>1, <2>2
<1>4. m = o
  <2>1. x \in Meeting(half, r, m) \cap Meeting(half, r, o)
    BY <1>3 DEF Meeting
  <2> QED
    BY <2>1, OnePlaceEach
<1> QED
  BY <1>3, <1>4

(* The rows that are created. *)
Placed(half, size) == UNION {{<<r, m>> : m \in Rows(half, size, r)} : r \in 1 .. 2 * half - 1}

LEMMA OpponentsAre ==
    ASSUME NEW size \in Nat
    PROVE  /\ \A i, j \in 0 .. size - 1 : i # j => {i, j} \in Opponents(size)
           /\ \A e \in Opponents(size) : \E i, j \in 0 .. size - 1 : i < j /\ e = {i, j}
<1>1. ASSUME NEW e \in Opponents(size)
      PROVE  \E i, j \in 0 .. size - 1 : i < j /\ e = {i, j}
  <2>1. PICK i \in 0 .. size - 1, j \in 0 .. size - 1 : e = {i, j}
    BY DEF Opponents
  <2>2. i # j
    BY <2>1 DEF Opponents
  <2>3. i < j \/ j < i
    BY <2>2
  <2>4. e = {j, i}
    BY <2>1
  <2> QED
    BY <2>1, <2>3, <2>4
<1> QED
  BY <1>1 DEF Opponents

LEMMA PlacedAre ==
    ASSUME NEW size \in Nat, NEW half \in Nat, half >= 1, NEW c \in Placed(half, size)
    PROVE  /\ c[1] \in 1 .. 2 * half - 1 /\ c[2] \in 1 .. half /\ c = <<c[1], c[2]>>
           /\ Meeting(half, c[1], c[2]) \in Opponents(size)
<1>1. PICK r \in 1 .. 2 * half - 1 : \E m \in Rows(half, size, r) : c = <<r, m>>
  BY DEF Placed
<1>2. PICK m \in Rows(half, size, r) : c = <<r, m>>
  BY <1>1
<1>3. m \in 1 .. half /\ m \in 1 .. 2 * half /\ 2 * half + 1 - m \in 1 .. 2 * half
  BY DEF Rows
<1> DEFINE x == Seat(half, r, m)
           y == Seat(half, r, 2 * half + 1 - m)
<1>4. x \in 0 .. size - 1 /\ y \in 0 .. size - 1
  <2>1. x \in 0 .. 2 * half - 1 /\ y \in 0 .. 2 * half - 1
    BY <1>3, SeatsAre
  <2>2. x < size /\ y < size
    BY DEF Rows
  <2> HIDE DEF x, y
  <2> QED
    BY <2>1, <2>2
<1>5. x # y
  BY <1>3, OnePlaceEach
<1>6. {x, y} \in Opponents(size)
  <2> HIDE DEF x, y
  <2> QED
    BY <1>4, <1>5, OpponentsAre
<1> QED
  BY <1>2, <1>3, <1>6 DEF Meeting

LEMMA AllArePlaced ==
    ASSUME NEW size \in Nat, NEW half \in Nat, half >= 1, size <= 2 * half, NEW e \in Opponents(size)
    PROVE  \E c \in Placed(half, size) : Meeting(half, c[1], c[2]) = e
<1>1. PICK a \in 0 .. size - 1, b \in 0 .. size - 1 : a < b /\ e = {a, b}
  BY OpponentsAre
<1>2. a \in 0 .. 2 * half - 1 /\ b \in 0 .. 2 * half - 1 /\ a < size /\ b < size
  OBVIOUS
<1>3. PICK r \in 1 .. 2 * half - 1, m \in 1 .. half : Meeting(half, r, m) = e
  <2>1. \E r \in 1 .. 2 * half - 1, m \in 1 .. half : Meeting(half, r, m) = {a, b}
    BY <1>1, <1>2, EveryTwoMeet
  <2> QED
    BY <1>1, <2>1
<1>4. Seat(half, r, m) \in {a, b} /\ Seat(half, r, 2 * half + 1 - m) \in {a, b}
  BY <1>1, <1>3 DEF Meeting
<1>5. m \in Rows(half, size, r)
  BY <1>2, <1>4 DEF Rows
<1>6. <<r, m>> \in Placed(half, size)
  BY <1>5 DEF Placed
<1> QED
  BY <1>3, <1>6

LEMMA PlacedOnce ==
    ASSUME NEW size \in Nat, NEW half \in Nat, half >= 1,
           NEW c \in Placed(half, size), NEW d \in Placed(half, size),
           Meeting(half, c[1], c[2]) = Meeting(half, d[1], d[2])
    PROVE  c = d
<1>1. /\ c[1] \in 1 .. 2 * half - 1 /\ c[2] \in 1 .. half /\ c = <<c[1], c[2]>>
      /\ d[1] \in 1 .. 2 * half - 1 /\ d[2] \in 1 .. half /\ d = <<d[1], d[2]>>
  BY PlacedAre
<1>2. c[1] = d[1] /\ c[2] = d[2]
  BY <1>1, NoTwoMeetTwice
<1> QED
  BY <1>1, <1>2

LEMMA AsManyPlaced ==
    ASSUME NEW size \in Nat, NEW half \in Nat, half >= 1, size <= 2 * half
    PROVE  Cardinality(Placed(half, size)) = Cardinality(Opponents(size))
<1> DEFINE S == Placed(half, size)
           T == Opponents(size)
           f == [c \in S |-> Meeting(half, c[1], c[2])]
<1>1. IsFiniteSet(S)
  <2>1. IsFiniteSet(1 .. 2 * half - 1) /\ IsFiniteSet(1 .. half)
    BY FS_Interval
  <2>2. IsFiniteSet((1 .. 2 * half - 1) \X (1 .. half))
    BY <2>1, FS_Product
  <2>3. ASSUME NEW c \in S
        PROVE  c \in (1 .. 2 * half - 1) \X (1 .. half)
    BY PlacedAre
  <2> QED
    BY <2>2, <2>3, FS_Subset
<1>2. f \in [S -> T]
  <2>1. \A c \in S : Meeting(half, c[1], c[2]) \in T
    BY PlacedAre
  <2> HIDE DEF S, T
  <2> QED
    BY <2>1
<1>3. \A c, d \in S : f[c] = f[d] => c = d
  <2> SUFFICES ASSUME NEW c \in S, NEW d \in S, f[c] = f[d]
               PROVE  c = d
    OBVIOUS
  <2>1. Meeting(half, c[1], c[2]) = Meeting(half, d[1], d[2])
    OBVIOUS
  <2> QED
    BY <2>1, PlacedOnce
<1>4. \A e \in T : \E c \in S : f[c] = e
  <2> SUFFICES ASSUME NEW e \in T
               PROVE  \E c \in S : f[c] = e
    OBVIOUS
  <2>1. PICK c \in S : Meeting(half, c[1], c[2]) = e
    BY AllArePlaced
  <2> QED
    BY <2>1
<1> HIDE DEF S, T, f
<1>5. f \in Bijection(S, T)
  BY <1>2, <1>3, <1>4, Fun_IsBij
<1>6. ExistsBijection(S, T)
  BY <1>5 DEF ExistsBijection
<1> QED
  BY <1>1, <1>6, FS_Bijection DEF S, T

(* What is created for a round robin: each meeting of two inputs that exist *)
(* once.                                                                    *)
LEMMA RoundsMeetOnce ==
    ASSUME n \in Nat, n >= 2, rounds = BuildRoundRobin(n)
    PROVE  EveryPairMeetsOnce
<1>1. PICK half \in Nat : half >= 1 /\ RoundCount(n) = 2 * half - 1 /\ n \in 2 * half - 1 .. 2 * half
  BY HalfOf
<1>2. rounds = [r \in 1 .. 2 * half - 1 |->
                   [m \in Rows(half, n, r) |-> <<Seat(half, r, m), Seat(half, r, 2 * half + 1 - m)>>]]
  BY <1>1, RoundRobinIs
<1>3. DOMAIN rounds = 1 .. 2 * half - 1
  BY <1>2
<1>4. ASSUME NEW r \in 1 .. 2 * half - 1
      PROVE  /\ DOMAIN rounds[r] = Rows(half, n, r)
             /\ \A m \in Rows(half, n, r) : SidesOf(r, m) = Meeting(half, r, m)
  <2>1. rounds[r] = [m \in Rows(half, n, r) |-> <<Seat(half, r, m), Seat(half, r, 2 * half + 1 - m)>>]
    BY <1>2
  <2> QED
    BY <2>1 DEF Meeting, SidesOf
<1>5. Created = Placed(half, n)
  BY <1>3, <1>4 DEF Created, Placed
<1>6. ASSUME NEW c \in Created
      PROVE  SidesOf(c[1], c[2]) = Meeting(half, c[1], c[2])
  <2>1. PICK r \in 1 .. 2 * half - 1 : \E m \in Rows(half, n, r) : c = <<r, m>>
    BY <1>5 DEF Placed
  <2> QED
    BY <1>4, <2>1
<1>7. n <= 2 * half
  BY <1>1
<1>8. {SidesOf(c[1], c[2]) : c \in Created} = Opponents(n)
  <2>1. \A c \in Created : Meeting(half, c[1], c[2]) \in Opponents(n)
    BY <1>1, <1>5, PlacedAre
  <2>2. \A e \in Opponents(n) : \E c \in Created : Meeting(half, c[1], c[2]) = e
    BY <1>1, <1>5, <1>7, AllArePlaced
  <2> QED
    BY <1>6, <2>1, <2>2
<1>9. Cardinality(Created) = Cardinality(Opponents(n))
  BY <1>1, <1>5, <1>7, AsManyPlaced
<1>10. ASSUME NEW r \in DOMAIN rounds, NEW m \in DOMAIN rounds[r], NEW o \in DOMAIN rounds[r], m # o
       PROVE  SidesOf(r, m) \cap SidesOf(r, o) = {}
  <2>1. /\ m \in 1 .. half /\ o \in 1 .. half /\ r \in 1 .. 2 * half - 1
        /\ SidesOf(r, m) = Meeting(half, r, m) /\ SidesOf(r, o) = Meeting(half, r, o)
    BY <1>3, <1>4 DEF Rows
  <2> QED
    BY <1>1, <1>10, <2>1, OnePlaceEach
<1>11. /\ {SidesOf(c[1], c[2]) : c \in Created} = Opponents(n)
       /\ Cardinality(Created) = Cardinality(Opponents(n))
       /\ \A r \in DOMAIN rounds : \A m, o \in DOMAIN rounds[r] :
             m # o => SidesOf(r, m) \cap SidesOf(r, o) = {}
  BY <1>8, <1>9, <1>10
<1> QED
  BY <1>11 DEF EveryPairMeetsOnce

RoundRobinInv == kind = "round robin" => n \in Nat /\ n >= 2 /\ rounds = BuildRoundRobin(n)

LEMMA RoundRobinInvariant == Spec => []RoundRobinInv
<1>1. Init => RoundRobinInv
  BY DEF Init, RoundRobinInv
<1>2. RoundRobinInv /\ [Next]_vars => RoundRobinInv'
  <2> SUFFICES ASSUME RoundRobinInv, [Next]_vars
               PROVE  RoundRobinInv'
    OBVIOUS
  <2>1. CASE Pair
    BY <2>1 DEF Pair, RoundRobinInv
  <2>2. CASE CreateRoundRobin
    <3>1. n' \in 2 .. MaxSize /\ MaxSize \in Nat
      BY <2>2, BoundsAssumption DEF CreateRoundRobin
    <3>2. n' \in Nat /\ n' >= 2
      BY <3>1
    <3> QED
      BY <2>2, <3>2 DEF CreateRoundRobin, RoundRobinInv
  <2>3. CASE CreateElimination
    BY <2>3 DEF CreateElimination, RoundRobinInv
  <2>4. CASE UNCHANGED vars
    BY <2>4 DEF vars, RoundRobinInv
  <2> QED
    BY <2>1, <2>2, <2>3, <2>4 DEF Next
<1> QED
  BY <1>1, <1>2, PTL DEF Spec

(* Every two inputs of a round robin meet exactly once and nobody plays     *)
(* twice in a round, for every number of inputs: turning the table seats    *)
(* any two opposite each other in one round                                 *)
(* (get_round_robin_combinations).                                          *)
THEOREM RoundRobinIsComplete == Spec => []EveryPairMeetsOnce
<1>1. RoundRobinInv => EveryPairMeetsOnce
  <2>1. CASE kind = "round robin"
    <3> SUFFICES ASSUME RoundRobinInv
                 PROVE  EveryPairMeetsOnce
      OBVIOUS
    <3>1. n \in Nat /\ n >= 2 /\ rounds = BuildRoundRobin(n)
      BY <2>1 DEF RoundRobinInv
    <3> QED
      BY <3>1, RoundsMeetOnce
  <2>2. CASE kind # "round robin"
    BY <2>2 DEF EveryPairMeetsOnce
  <2> QED
    BY <2>1, <2>2
<1> QED
  BY <1>1, RoundRobinInvariant, PTL

----------------------------------------------------------------------------
(* The bracket of a single elimination stage item, row by row.             *)

(* How many matches round r has.                                            *)
Width(size, r) ==
    CASE r = 1 -> size \div 2 [] r = 2 -> size \div 4 [] r = 3 -> size \div 8
      [] r = 4 -> size \div 16 [] r = 5 -> size \div 32

(* The i-th match of round r.                                               *)
BracketRow(size, r, i) ==
    NewMatch(size - 2 * Width(size, r) + i, r,
             IF r = 1 THEN <<2 * i - 1, 2 * i>> ELSE <<0, 0>>,
             IF r = 1 THEN <<0, 0>>
             ELSE <<size - 4 * Width(size, r) + 2 * i - 1, size - 4 * Width(size, r) + 2 * i>>)

BracketRound(size, r) == [i \in 1 .. Width(size, r) |-> BracketRow(size, r, i)]

LEMMA SizesAre ==
    ASSUME NEW size \in DOMAIN EliminationRounds
    PROVE  /\ size \in Nat /\ size >= 2
           /\ EliminationRounds[size] \in Nat /\ EliminationRounds[size] >= 1
           /\ size = 2 * Width(size, 1)
           /\ \A r \in 1 .. EliminationRounds[size] : Width(size, r) \in Nat /\ Width(size, r) >= 1
           /\ \A r \in 1 .. EliminationRounds[size] :
                 r < EliminationRounds[size] => Width(size, r) = 2 * Width(size, r + 1)
           /\ Width(size, EliminationRounds[size]) = 1
<1>1. size \in {2, 4, 8, 16, 32}
  BY DEF EliminationRounds
<1>2. CASE size = 2
  <2>1. EliminationRounds[size] = 1
    BY <1>2 DEF EliminationRounds
  <2>2. Width(size, 1) = 1
    BY <1>2 DEF Width
  <2> QED
    BY <1>2, <2>1, <2>2
<1>3. CASE size = 4
  <2>1. EliminationRounds[size] = 2
    BY <1>3 DEF EliminationRounds
  <2>2. Width(size, 1) = 2 /\ Width(size, 2) = 1
    BY <1>3 DEF Width
  <2> QED
    BY <1>3, <2>1, <2>2
<1>4. CASE size = 8
  <2>1. EliminationRounds[size] = 3
    BY <1>4 DEF EliminationRounds
  <2>2. Width(size, 1) = 4 /\ Width(size, 2) = 2 /\ Width(size, 3) = 1
    BY <1>4 DEF Width
  <2> QED
    BY <1>4, <2>1, <2>2
<1>5. CASE size = 16
  <2>1. EliminationRounds[size] = 4
    BY <1>5 DEF EliminationRounds
  <2>2. Width(size, 1) = 8 /\ Width(size, 2) = 4 /\ Width(size, 3) = 2 /\ Width(size, 4) = 1
    BY <1>5 DEF Width
  <2> QED
    BY <1>5, <2>1, <2>2
<1>6. CASE size = 32
  <2>1. EliminationRounds[size] = 5
    BY <1>6 DEF EliminationRounds
  <2>2. /\ Width(size, 1) = 16 /\ Width(size, 2) = 8 /\ Width(size, 3) = 4
        /\ Width(size, 4) = 2 /\ Width(size, 5) = 1
    BY <1>6 DEF Width
  <2> QED
    BY <1>6, <2>1, <2>2
<1> QED
  BY <1>1, <1>2, <1>3, <1>4, <1>5, <1>6

(* A later round has at most half as many matches.                          *)
LEMMA RoundsShrink ==
    ASSUME NEW size \in DOMAIN EliminationRounds,
           NEW r \in 1 .. EliminationRounds[size], NEW q \in 1 .. EliminationRounds[size], r < q
    PROVE  2 * Width(size, q) <= Width(size, r)
<1> DEFINE R == EliminationRounds[size]
           Fails == {p \in 0 .. R : p > r /\ 2 * Width(size, p) > Width(size, r)}
<1>1. R \in Nat
  BY SizesAre
<1>2. ASSUME NEW p \in Fails
      PROVE  \E s \in Fails : s < p
  <2>1. p \in 1 .. R /\ p > r /\ 2 * Width(size, p) > Width(size, r)
    OBVIOUS
  <2>2. p - 1 \in 1 .. R /\ p - 1 < R /\ (p - 1) + 1 = p
    BY <1>1, <2>1
  <2>3. Width(size, p - 1) = 2 * Width(size, p)
    BY <2>2, SizesAre
  <2>4. Width(size, p) \in Nat /\ Width(size, r) \in Nat
    BY <2>1, SizesAre
  <2>5. p - 1 # r
    BY <2>1, <2>3, <2>4
  <2>6. p - 1 \in Fails
    BY <2>1, <2>2, <2>3, <2>4, <2>5
  <2> QED
    BY <2>1, <2>6
<1>3. Fails = {}
  <2>1. Fails \in SUBSET (0 .. R)
    OBVIOUS
  <2> HIDE DEF Fails, R
  <2> QED
    BY <1>1, <1>2, <2>1, NoFirstFailure
<1>4. q \in 0 .. R /\ Width(size, q) \in Nat /\ Width(size, r) \in Nat
  BY SizesAre
<1> QED
  BY <1>3, <1>4

LEMMA FirstRoundIs ==
    ASSUME NEW size \in DOMAIN EliminationRounds
    PROVE  FirstRound(size) = BracketRound(size, 1)
<1>1. size \in Nat /\ size = 2 * Width(size, 1) /\ Width(size, 1) \in Nat
  BY SizesAre
<1>2. size \div 2 = Width(size, 1)
  BY DEF Width
<1>3. ASSUME NEW i \in 1 .. Width(size, 1)
      PROVE  BracketRow(size, 1, i) = NewMatch(i, 1, <<2 * i - 1, 2 * i>>, <<0, 0>>)
  <2>1. size - 2 * Width(size, 1) + i = i
    BY <1>1
  <2> QED
    BY <2>1 DEF BracketRow
<1> QED
  BY <1>2, <1>3 DEF FirstRound, BracketRound

LEMMA SubsequentRoundIs ==
    ASSUME NEW size \in DOMAIN EliminationRounds,
           NEW r \in 2 .. EliminationRounds[size]
    PROVE  SubsequentRound(BracketRound(size, r - 1), r) = BracketRound(size, r)
<1> DEFINE w == Width(size, r)
           before == size - 4 * w
           prev == BracketRound(size, r - 1)
<1>1. /\ EliminationRounds[size] \in Nat
      /\ r - 1 \in 1 .. EliminationRounds[size] /\ r - 1 < EliminationRounds[size] /\ (r - 1) + 1 = r
      /\ r \in 1 .. EliminationRounds[size] /\ r # 1
  BY SizesAre
<1>2. size \in Nat /\ w \in Nat /\ w >= 1 /\ Width(size, r - 1) = 2 * w
  BY <1>1, SizesAre
<1>3. Len(prev) = 2 * w
  BY <1>2 DEF BracketRound
<1>4. ASSUME NEW i \in 1 .. 2 * w
      PROVE  prev[i].id = before + i
  <2>1. prev[i] = BracketRow(size, r - 1, i)
    BY <1>2 DEF BracketRound
  <2>2. prev[i].id = size - 2 * Width(size, r - 1) + i
    BY <2>1 DEF BracketRow, NewMatch
  <2> HIDE DEF prev
  <2> QED
    BY <1>2, <2>2
<1> HIDE DEF prev
<1>5. prev[Len(prev)].id = size - 2 * w /\ Len(prev) \div 2 = w
  <2>1. prev[2 * w].id = before + 2 * w
    BY <1>2, <1>4
  <2>2. before + 2 * w = size - 2 * w /\ (2 * w) \div 2 = w
    BY <1>2
  <2> QED
    BY <1>3, <2>1, <2>2
<1>6. ASSUME NEW i \in 1 .. w
      PROVE  NewMatch(prev[Len(prev)].id + i, r, <<0, 0>>, <<prev[2 * i - 1].id, prev[2 * i].id>>)
                = BracketRow(size, r, i)
  <2>1. 2 * i - 1 \in 1 .. 2 * w /\ 2 * i \in 1 .. 2 * w
    BY <1>2
  <2>2. prev[2 * i - 1].id = before + 2 * i - 1 /\ prev[2 * i].id = before + 2 * i
    <3>1. prev[2 * i - 1].id = before + (2 * i - 1) /\ prev[2 * i].id = before + 2 * i
      BY <1>4, <2>1
    <3>2. before + (2 * i - 1) = before + 2 * i - 1
      BY <1>2
    <3> QED
      BY <3>1, <3>2
  <2> QED
    BY <1>1, <1>5, <2>2 DEF BracketRow
<1>7. SubsequentRound(prev, r) = [i \in 1 .. w |-> BracketRow(size, r, i)]
  BY <1>5, <1>6 DEF SubsequentRound
<1>8. BracketRound(size, r) = [i \in 1 .. w |-> BracketRow(size, r, i)]
  BY DEF BracketRound
<1> QED
  BY <1>7, <1>8 DEF prev

LEMMA BracketIs ==
    ASSUME NEW size \in DOMAIN EliminationRounds
    PROVE  BuildSingleElimination(size) = [r \in 1 .. EliminationRounds[size] |-> BracketRound(size, r)]
<1> DEFINE R == EliminationRounds[size]
           step(f, r) == IF r = 1 THEN FirstRound(size) ELSE SubsequentRound(f[r - 1], r)
           g == [r \in 1 .. R |-> BracketRound(size, r)]
           f == CHOOSE f : f = [r \in 1 .. R |-> step(f, r)]
<1>0. R \in Nat
  BY SizesAre
<1>1. \A r \in 1 .. R : step(g, r) = g[r]
  <2> SUFFICES ASSUME NEW r \in 1 .. R
               PROVE  step(g, r) = g[r]
    OBVIOUS
  <2>1. CASE r = 1
    BY <2>1, FirstRoundIs
  <2>2. CASE r # 1
    <3>1. r \in 2 .. R /\ r - 1 \in 1 .. R
      BY <1>0, <2>2
    <3>2. SubsequentRound(BracketRound(size, r - 1), r) = BracketRound(size, r)
      BY <3>1, SubsequentRoundIs
    <3>3. g[r - 1] = BracketRound(size, r - 1) /\ g[r] = BracketRound(size, r)
      BY <3>1
    <3> HIDE DEF g
    <3> QED
      BY <2>2, <3>2, <3>3
  <2> QED
    BY <2>1, <2>2
<1>2. g = [r \in 1 .. R |-> step(g, r)]
  <2> HIDE DEF step
  <2> QED
    BY <1>1
<1>3. f = [r \in 1 .. R |-> step(f, r)]
  <2> HIDE DEF g, step
  <2> QED
    BY <1>2
<1>4. \A r \in 1 .. R : f[r] = g[r]
  <2> DEFINE Fails == {r \in 1 .. R : f[r] # g[r]}
  <2>1. ASSUME NEW r \in Fails
        PROVE  \E q \in Fails : q < r
    <3>1. f[r] = step(f, r) /\ g[r] = step(g, r) /\ r \in 1 .. R /\ f[r] # g[r]
      <4> HIDE DEF step, f, g
      <4> QED
        BY <1>1, <1>3
    <3> HIDE DEF f, g
    <3>2. r # 1
      BY <3>1
    <3>3. f[r - 1] # g[r - 1]
      BY <3>1, <3>2
    <3>4. r - 1 \in Fails /\ r - 1 < r
      BY <1>0, <3>1, <3>2, <3>3
    <3> QED
      BY <3>4
  <2>2. Fails \in SUBSET (0 .. R)
    OBVIOUS
  <2>3. Fails = {}
    <3> HIDE DEF Fails, R
    <3> QED
      BY <1>0, <2>1, <2>2, NoFirstFailure
  <2> QED
    BY <2>3
<1>5. BuildSingleElimination(size) = f
  BY DEF BuildSingleElimination
<1>6. DOMAIN f = 1 .. R /\ f = [r \in DOMAIN f |-> f[r]]
  <2> HIDE DEF f, step
  <2> QED
    BY <1>3
<1> QED
  <2> HIDE DEF f, step
  <2>1. f = [r \in 1 .. R |-> f[r]]
    BY <1>6
  <2> QED
    BY <1>4, <1>5, <2>1

(* No two rows have the same id.                                            *)
LEMMA IdsDiffer ==
    ASSUME NEW size \in DOMAIN EliminationRounds,
           NEW r \in 1 .. EliminationRounds[size], NEW i \in 1 .. Width(size, r),
           NEW q \in 1 .. EliminationRounds[size], NEW j \in 1 .. Width(size, q),
           BracketRow(size, r, i).id = BracketRow(size, q, j).id
    PROVE  r = q /\ i = j
<1>1. /\ size \in Nat /\ EliminationRounds[size] \in Nat
      /\ Width(size, r) \in Nat /\ Width(size, q) \in Nat
  BY SizesAre
<1>2. size - 2 * Width(size, r) + i = size - 2 * Width(size, q) + j
  BY DEF BracketRow, NewMatch
<1>3. ~(r < q)
  <2> SUFFICES ASSUME r < q
               PROVE  FALSE
    OBVIOUS
  <2>1. 2 * Width(size, q) <= Width(size, r)
    BY RoundsShrink
  <2> QED
    BY <1>1, <1>2, <2>1
<1>4. ~(q < r)
  <2> SUFFICES ASSUME q < r
               PROVE  FALSE
    OBVIOUS
  <2>1. 2 * Width(size, r) <= Width(size, q)
    BY RoundsShrink
  <2> QED
    BY <1>1, <1>2, <2>1
<1>5. r = q
  BY <1>1, <1>3, <1>4
<1> QED
  BY <1>1, <1>2, <1>5

(* A match after the first round is fed by two of the round before.         *)
LEMMA FeedersAre ==
    ASSUME NEW size \in DOMAIN EliminationRounds,
           NEW q \in 2 .. EliminationRounds[size], NEW j \in 1 .. Width(size, q), NEW k \in 1 .. 2
    PROVE  /\ q - 1 \in 1 .. EliminationRounds[size]
           /\ 2 * j - 2 + k \in 1 .. Width(size, q - 1)
           /\ BracketRow(size, q, j).from[k] = BracketRow(size, q - 1, 2 * j - 2 + k).id
<1>1. /\ size \in Nat /\ EliminationRounds[size] \in Nat
      /\ q - 1 \in 1 .. EliminationRounds[size] /\ q - 1 < EliminationRounds[size] /\ (q - 1) + 1 = q
      /\ q \in 1 .. EliminationRounds[size] /\ q # 1
  BY SizesAre
<1>2. Width(size, q) \in Nat /\ Width(size, q - 1) = 2 * Width(size, q)
  BY <1>1, SizesAre
<1>3. BracketRow(size, q, j).from =
         <<size - 4 * Width(size, q) + 2 * j - 1, size - 4 * Width(size, q) + 2 * j>>
  BY <1>1 DEF BracketRow, NewMatch
<1>4. BracketRow(size, q, j).from[k] = size - 4 * Width(size, q) + 2 * j - 2 + k
  <2>1. CASE k = 1
    BY <1>1, <1>2, <1>3, <2>1
  <2>2. CASE k = 2
    BY <1>1, <1>2, <1>3, <2>2
  <2> QED
    BY <2>1, <2>2
<1>5. BracketRow(size, q - 1, 2 * j - 2 + k).id = size - 2 * Width(size, q - 1) + (2 * j - 2 + k)
  BY DEF BracketRow, NewMatch
<1> QED
  BY <1>1, <1>2, <1>4, <1>5

(* The winner of a match goes on to one side of one match, of the next      *)
(* round.                                                                   *)
LEMMA FeedsOne ==
    ASSUME NEW size \in DOMAIN EliminationRounds,
           NEW r \in 1 .. EliminationRounds[size], r < EliminationRounds[size],
           NEW i \in 1 .. Width(size, r)
    PROVE  \E j \in 1 .. Width(size, r + 1), k \in 1 .. 2 :
              /\ BracketRow(size, r + 1, j).from[k] = BracketRow(size, r, i).id
              /\ \A q \in 1 .. EliminationRounds[size] : \A o \in 1 .. Width(size, q), l \in 1 .. 2 :
                    BracketRow(size, q, o).from[l] = BracketRow(size, r, i).id => q = r + 1 /\ o = j /\ l = k
<1>1. /\ size \in Nat /\ EliminationRounds[size] \in Nat /\ r + 1 \in 2 .. EliminationRounds[size]
      /\ r + 1 \in 1 .. EliminationRounds[size] /\ (r + 1) - 1 = r
  BY SizesAre
<1>2. Width(size, r) = 2 * Width(size, r + 1) /\ Width(size, r + 1) \in Nat
  BY <1>1, SizesAre
<1>3. PICK j \in 1 .. Width(size, r + 1), k \in 1 .. 2 : i = 2 * j - 2 + k
  <2>1. \E h \in Nat : i = 2 * h \/ i = 2 * h + 1
    <3>1. i % 2 \in 0 .. 1 /\ i \div 2 \in Nat /\ i = 2 * (i \div 2) + (i % 2)
      OBVIOUS
    <3> QED
      BY <3>1
  <2>2. PICK h \in Nat : i = 2 * h \/ i = 2 * h + 1
    BY <2>1
  <2>3. CASE i = 2 * h
    <3>1. h \in 1 .. Width(size, r + 1) /\ i = 2 * h - 2 + 2
      BY <1>2, <2>3
    <3> QED
      BY <3>1
  <2>4. CASE i = 2 * h + 1
    <3>1. h + 1 \in 1 .. Width(size, r + 1) /\ i = 2 * (h + 1) - 2 + 1
      BY <1>2, <2>4
    <3> QED
      BY <3>1
  <2> QED
    BY <2>2, <2>3, <2>4
<1>4. BracketRow(size, r + 1, j).from[k] = BracketRow(size, r, i).id
  <2>1. BracketRow(size, r + 1, j).from[k] = BracketRow(size, (r + 1) - 1, 2 * j - 2 + k).id
    BY <1>1, FeedersAre
  <2> QED
    BY <1>1, <1>3, <2>1
<1>5. ASSUME NEW q \in 1 .. EliminationRounds[size], NEW o \in 1 .. Width(size, q), NEW l \in 1 .. 2,
             BracketRow(size, q, o).from[l] = BracketRow(size, r, i).id
      PROVE  q = r + 1 /\ o = j /\ l = k
  <2>1. BracketRow(size, r, i).id >= 1 /\ BracketRow(size, r, i).id \in Int
    <3>1. 2 * Width(size, 1) = size /\ Width(size, 1) \in Nat /\ Width(size, r) \in Nat /\ 1 \in 1 .. EliminationRounds[size]
      BY <1>1, SizesAre
    <3>2. 2 * Width(size, r) <= size
      <4>1. CASE r = 1
        BY <3>1, <4>1
      <4>2. CASE r # 1
        <5>1. 1 < r
          BY <1>1, <4>2
        <5>2. 2 * Width(size, r) <= Width(size, 1)
          BY <3>1, <5>1, RoundsShrink
        <5> QED
          BY <3>1, <5>2
      <4> QED
        BY <4>1, <4>2
    <3>3. BracketRow(size, r, i).id = size - 2 * Width(size, r) + i
      BY DEF BracketRow, NewMatch
    <3> QED
      BY <1>1, <3>1, <3>2, <3>3
  <2>2. q # 1
    <3> SUFFICES ASSUME q = 1
                 PROVE  FALSE
      OBVIOUS
    <3>1. BracketRow(size, q, o).from = <<0, 0>>
      BY DEF BracketRow, NewMatch
    <3>2. BracketRow(size, q, o).from[l] = 0
      BY <3>1
    <3> QED
      BY <1>5, <2>1, <3>2
  <2>3. q \in 2 .. EliminationRounds[size]
    BY <1>1, <2>2
  <2>4. /\ q - 1 \in 1 .. EliminationRounds[size]
        /\ 2 * o - 2 + l \in 1 .. Width(size, q - 1)
        /\ BracketRow(size, q - 1, 2 * o - 2 + l).id = BracketRow(size, r, i).id
    BY <1>5, <2>3, FeedersAre
  <2>5. q - 1 = r /\ 2 * o - 2 + l = i
    BY <2>4, IdsDiffer
  <2>6. o \in Int /\ j \in Int
    OBVIOUS
  <2> QED
    BY <1>3, <2>3, <2>5, <2>6
<1> QED
  BY <1>4, <1>5

----------------------------------------------------------------------------
(* What is created for an elimination stage item.                          *)

LEMMA MatchesAre ==
    ASSUME n \in DOMAIN EliminationRounds, rounds = BuildSingleElimination(n)
    PROVE  /\ \A r \in 1 .. EliminationRounds[n] : \A i \in 1 .. Width(n, r) :
                 BracketRow(n, r, i) \in Matches
           /\ \A b \in Matches : \E r \in 1 .. EliminationRounds[n] : \E i \in 1 .. Width(n, r) :
                 b = BracketRow(n, r, i)
<1>1. rounds = [r \in 1 .. EliminationRounds[n] |-> BracketRound(n, r)]
  BY BracketIs
<1>2. ASSUME NEW r \in 1 .. EliminationRounds[n]
      PROVE  DOMAIN rounds[r] = 1 .. Width(n, r) /\ \A i \in 1 .. Width(n, r) : rounds[r][i] = BracketRow(n, r, i)
  BY <1>1 DEF BracketRound
<1>3. DOMAIN rounds = 1 .. EliminationRounds[n]
  BY <1>1
<1>4. ASSUME NEW r \in 1 .. EliminationRounds[n], NEW i \in 1 .. Width(n, r)
      PROVE  BracketRow(n, r, i) \in Matches
  <2>1. <<r, i>> \in Created
    <3> DEFINE row(q) == {<<q, m>> : m \in DOMAIN rounds[q]}
    <3>1. i \in DOMAIN rounds[r] /\ r \in DOMAIN rounds
      BY <1>2, <1>3
    <3>2. <<r, i>> \in row(r)
      BY <3>1
    <3> HIDE DEF row
    <3>3. <<r, i>> \in UNION {row(q) : q \in DOMAIN rounds}
      BY <3>1, <3>2
    <3> QED
      BY <3>3 DEF Created, row
  <2>2. rounds[<<r, i>>[1]][<<r, i>>[2]] = BracketRow(n, r, i)
    BY <1>2
  <2> QED
    BY <2>1, <2>2 DEF Matches
<1>5. ASSUME NEW b \in Matches
      PROVE  \E r \in 1 .. EliminationRounds[n] : \E i \in 1 .. Width(n, r) : b = BracketRow(n, r, i)
  <2>1. PICK c \in Created : b = rounds[c[1]][c[2]]
    BY DEF Matches
  <2>2. PICK r \in 1 .. EliminationRounds[n] : c \in {<<r, i>> : i \in DOMAIN rounds[r]}
    BY <1>3 DEF Created
  <2>3. PICK i \in DOMAIN rounds[r] : c = <<r, i>>
    BY <2>2
  <2>4. i \in 1 .. Width(n, r) /\ b = BracketRow(n, r, i)
    BY <1>2, <2>1, <2>3
  <2> QED
    BY <2>4
<1> QED
  BY <1>4, <1>5

LEMMA OneFinal ==
    ASSUME n \in DOMAIN EliminationRounds, rounds = BuildSingleElimination(n)
    PROVE  Finals = {BracketRow(n, EliminationRounds[n], 1)}
<1> DEFINE R == EliminationRounds[n]
<1>1. R \in Nat /\ R >= 1 /\ R \in 1 .. R /\ Width(n, R) = 1 /\ 1 \in 1 .. Width(n, R)
  BY SizesAre
<1>2. BracketRow(n, R, 1) \in Finals
  <2>1. BracketRow(n, R, 1) \in Matches
    BY <1>1, MatchesAre
  <2>2. BracketRow(n, R, 1).round = R
    BY DEF BracketRow, NewMatch
  <2> QED
    BY <2>1, <2>2 DEF Finals
<1>3. ASSUME NEW b \in Finals
      PROVE  b = BracketRow(n, R, 1)
  <2>1. b \in Matches /\ b.round = R
    BY DEF Finals
  <2>2. PICK r \in 1 .. R : \E i \in 1 .. Width(n, r) : b = BracketRow(n, r, i)
    BY <2>1, MatchesAre
  <2>3. PICK i \in 1 .. Width(n, r) : b = BracketRow(n, r, i)
    BY <2>2
  <2>4. b.round = r
    BY <2>3 DEF BracketRow, NewMatch
  <2>5. i = 1
    BY <1>1, <2>1, <2>4
  <2> QED
    BY <2>1, <2>3, <2>4, <2>5
<1> QED
  BY <1>2, <1>3

LEMMA WinnerGoesOn ==
    ASSUME n \in DOMAIN EliminationRounds, rounds = BuildSingleElimination(n),
           NEW b \in Matches \ Finals
    PROVE  \E o \in Matches, k \in 1 .. 2 : FedBy(b) = {<<o, k>>} /\ o.round = b.round + 1
<1> DEFINE R == EliminationRounds[n]
<1>1. PICK r \in 1 .. R : \E i \in 1 .. Width(n, r) : b = BracketRow(n, r, i)
  BY MatchesAre
<1>2. PICK i \in 1 .. Width(n, r) : b = BracketRow(n, r, i)
  BY <1>1
<1>3. b.round = r
  BY <1>2 DEF BracketRow, NewMatch
<1>4. R \in Nat
  BY SizesAre
<1>5. r < R /\ r + 1 \in 1 .. R
  <2>1. r # R
    BY <1>3 DEF Finals
  <2> QED
    BY <1>4, <2>1
<1>6. PICK j \in 1 .. Width(n, r + 1), k \in 1 .. 2 :
         /\ BracketRow(n, r + 1, j).from[k] = BracketRow(n, r, i).id
         /\ \A q \in 1 .. R : \A o \in 1 .. Width(n, q), l \in 1 .. 2 :
               BracketRow(n, q, o).from[l] = BracketRow(n, r, i).id => q = r + 1 /\ o = j /\ l = k
  <2> HIDE DEF R
  <2> QED
    BY <1>5, FeedsOne DEF R
<1> DEFINE o == BracketRow(n, r + 1, j)
<1>7. o \in Matches
  BY <1>5, MatchesAre
<1>8. o.round = r + 1
  BY DEF BracketRow, NewMatch
<1>9. <<o, k>> \in FedBy(b)
  <2>1. <<o, k>> \in Matches \X (1 .. 2)
    BY <1>7
  <2>2. <<o, k>>[1].from[<<o, k>>[2]] = b.id
    BY <1>2, <1>6
  <2> QED
    BY <2>1, <2>2 DEF FedBy
<1>10. ASSUME NEW side \in FedBy(b)
       PROVE  side = <<o, k>>
  <2>1. side \in Matches \X (1 .. 2) /\ side[1].from[side[2]] = b.id
    BY DEF FedBy
  <2>2. PICK m \in Matches, l \in 1 .. 2 : side = <<m, l>>
    BY <2>1
  <2>3. PICK q \in 1 .. R : \E p \in 1 .. Width(n, q) : m = BracketRow(n, q, p)
    BY MatchesAre
  <2>4. PICK p \in 1 .. Width(n, q) : m = BracketRow(n, q, p)
    BY <2>3
  <2>5. BracketRow(n, q, p).from[l] = BracketRow(n, r, i).id
    BY <1>2, <2>1, <2>2, <2>4
  <2>6. q = r + 1 /\ p = j /\ l = k
    BY <1>6, <2>5
  <2> QED
    BY <2>2, <2>4, <2>6
<1>11. FedBy(b) = {<<o, k>>}
  BY <1>9, <1>10
<1> QED
  BY <1>3, <1>7, <1>8, <1>11

LEMMA InputSeated ==
    ASSUME n \in DOMAIN EliminationRounds, rounds = BuildSingleElimination(n),
           NEW x \in 1 .. n
    PROVE  \E b \in Matches, k \in 1 .. 2 : SeatsOf(x) = {<<b, k>>} /\ b.round = 1
<1> DEFINE R == EliminationRounds[n]
<1>1. /\ n \in Nat /\ R \in Nat /\ R >= 1 /\ 1 \in 1 .. R
      /\ n = 2 * Width(n, 1) /\ Width(n, 1) \in Nat
  BY SizesAre
<1>2. PICK i \in 1 .. Width(n, 1), k \in 1 .. 2 : x = 2 * i - 2 + k
  <2>1. \E h \in Nat : x = 2 * h \/ x = 2 * h + 1
    <3>1. x % 2 \in 0 .. 1 /\ x \div 2 \in Nat /\ x = 2 * (x \div 2) + (x % 2)
      BY <1>1
    <3> QED
      BY <3>1
  <2>2. PICK h \in Nat : x = 2 * h \/ x = 2 * h + 1
    BY <2>1
  <2>3. CASE x = 2 * h
    <3>1. h \in 1 .. Width(n, 1) /\ x = 2 * h - 2 + 2
      BY <1>1, <2>3
    <3> QED
      BY <3>1
  <2>4. CASE x = 2 * h + 1
    <3>1. h + 1 \in 1 .. Width(n, 1) /\ x = 2 * (h + 1) - 2 + 1
      BY <1>1, <2>4
    <3> QED
      BY <3>1
  <2> QED
    BY <2>2, <2>3, <2>4
<1>3. ASSUME NEW p \in 1 .. Width(n, 1), NEW l \in 1 .. 2
      PROVE  BracketRow(n, 1, p).inputs[l] = 2 * p - 2 + l
  <2>1. BracketRow(n, 1, p).inputs = <<2 * p - 1, 2 * p>>
    BY DEF BracketRow, NewMatch
  <2>2. CASE l = 1
    BY <1>1, <2>1, <2>2
  <2>3. CASE l = 2
    BY <1>1, <2>1, <2>3
  <2> QED
    BY <2>2, <2>3
<1> DEFINE b == BracketRow(n, 1, i)
<1>4. b \in Matches
  BY <1>1, MatchesAre
<1>5. b.round = 1
  BY DEF BracketRow, NewMatch
<1>6. <<b, k>> \in SeatsOf(x)
  <2>1. <<b, k>> \in Matches \X (1 .. 2)
    BY <1>4
  <2>2. <<b, k>>[1].inputs[<<b, k>>[2]] = x
    BY <1>2, <1>3
  <2> QED
    BY <2>1, <2>2 DEF SeatsOf
<1>7. ASSUME NEW side \in SeatsOf(x)
      PROVE  side = <<b, k>>
  <2>1. side \in Matches \X (1 .. 2) /\ side[1].inputs[side[2]] = x
    BY DEF SeatsOf
  <2>2. PICK m \in Matches, l \in 1 .. 2 : side = <<m, l>>
    BY <2>1
  <2>3. PICK q \in 1 .. R : \E p \in 1 .. Width(n, q) : m = BracketRow(n, q, p)
    BY MatchesAre
  <2>4. PICK p \in 1 .. Width(n, q) : m = BracketRow(n, q, p)
    BY <2>3
  <2>5. BracketRow(n, q, p).inputs[l] = x
    BY <2>1, <2>2, <2>4
  <2>6. q = 1
    <3> SUFFICES ASSUME q # 1
                 PROVE  FALSE
      OBVIOUS
    <3>1. BracketRow(n, q, p).inputs = <<0, 0>>
      BY DEF BracketRow, NewMatch
    <3>2. BracketRow(n, q, p).inputs[l] = 0
      BY <3>1
    <3> QED
      BY <2>5, <3>2
  <2>7. p \in 1 .. Width(n, 1) /\ 2 * p - 2 + l = x
    BY <1>3, <2>5, <2>6
  <2>8. p = i /\ l = k
    BY <1>1, <1>2, <2>7
  <2> QED
    BY <2>2, <2>4, <2>6, <2>8
<1>8. SeatsOf(x) = {<<b, k>>}
  BY <1>6, <1>7
<1> QED
  BY <1>4, <1>5, <1>8

EliminationInv ==
    kind = "elimination" => n \in DOMAIN EliminationRounds /\ rounds = BuildSingleElimination(n)

LEMMA EliminationInvariant == Spec => []EliminationInv
<1>1. Init => EliminationInv
  BY DEF Init, EliminationInv
<1>2. EliminationInv /\ [Next]_vars => EliminationInv'
  <2> SUFFICES ASSUME EliminationInv, [Next]_vars
               PROVE  EliminationInv'
    OBVIOUS
  <2>1. CASE Pair
    BY <2>1 DEF Pair, EliminationInv
  <2>2. CASE CreateRoundRobin
    BY <2>2 DEF CreateRoundRobin, EliminationInv
  <2>3. CASE CreateElimination
    BY <2>3 DEF CreateElimination, EliminationInv
  <2>4. CASE UNCHANGED vars
    BY <2>4 DEF vars, EliminationInv
  <2> QED
    BY <2>1, <2>2, <2>3, <2>4 DEF Next
<1> QED
  BY <1>1, <1>2, PTL DEF Spec

(* Every input of a bracket is seated once, and every match but the one     *)
(* final sends its winner to one side of one match of the next round, for   *)
(* every size that has a round count: the ids by which one round refers to  *)
(* the one before are those it was inserted with                            *)
(* (build_single_elimination_stage_item).                                   *)
THEOREM BracketsAreComplete == Spec => []EveryWinnerReachesTheFinal
<1>1. EliminationInv => EveryWinnerReachesTheFinal
  <2> SUFFICES ASSUME EliminationInv, kind = "elimination"
               PROVE  EveryWinnerReachesTheFinal
    BY DEF EveryWinnerReachesTheFinal
  <2>1. n \in DOMAIN EliminationRounds /\ rounds = BuildSingleElimination(n)
    BY DEF EliminationInv
  <2>2. ASSUME NEW b \in Matches, NEW o \in Matches, b.id = o.id
        PROVE  b = o
    <3>1. PICK r \in 1 .. EliminationRounds[n] : \E i \in 1 .. Width(n, r) : b = BracketRow(n, r, i)
      BY <2>1, MatchesAre
    <3>2. PICK i \in 1 .. Width(n, r) : b = BracketRow(n, r, i)
      BY <3>1
    <3>3. PICK q \in 1 .. EliminationRounds[n] : \E j \in 1 .. Width(n, q) : o = BracketRow(n, q, j)
      BY <2>1, MatchesAre
    <3>4. PICK j \in 1 .. Width(n, q) : o = BracketRow(n, q, j)
      BY <3>3
    <3>5. BracketRow(n, r, i).id = BracketRow(n, q, j).id
      BY <2>2, <3>2, <3>4
    <3>6. r = q /\ i = j
      BY <2>1, <3>5, IdsDiffer
    <3> QED
      BY <3>2, <3>4, <3>6
  <2>3. Cardinality(Finals) = 1
    BY <2>1, OneFinal, FS_Singleton
  <2> QED
    BY <2>1, <2>2, <2>3, WinnerGoesOn, InputSeated DEF EveryWinnerReachesTheFinal
<1> QED
  BY <1>1, EliminationInvariant, PTL

----------------------------------------------------------------------------
(* The tree of a bracket, which the modules about score entry rely on.     *)

LEMMA BuiltMatchesAre ==
    ASSUME NEW size \in DOMAIN EliminationRounds
    PROVE  /\ \A r \in 1 .. EliminationRounds[size] : \A i \in 1 .. Width(size, r) :
                 BracketRow(size, r, i) \in BuiltMatches(size)
           /\ \A b \in BuiltMatches(size) :
                 \E r \in 1 .. EliminationRounds[size] : \E i \in 1 .. Width(size, r) :
                    b = BracketRow(size, r, i)
<1> DEFINE built == BuildSingleElimination(size)
           R == EliminationRounds[size]
           row(q) == {built[q][i] : i \in DOMAIN built[q]}
<1>1. built = [r \in 1 .. R |-> BracketRound(size, r)]
  BY BracketIs
<1> HIDE DEF built, R
<1>2. ASSUME NEW r \in 1 .. R
      PROVE  row(r) = {BracketRow(size, r, i) : i \in 1 .. Width(size, r)}
  BY <1>1 DEF BracketRound
<1>3. BuiltMatches(size) = UNION {row(q) : q \in 1 .. R}
  BY DEF BuiltMatches, built, R
<1> HIDE DEF row
<1>4. ASSUME NEW r \in 1 .. R, NEW i \in 1 .. Width(size, r)
      PROVE  BracketRow(size, r, i) \in BuiltMatches(size)
  <2>1. BracketRow(size, r, i) \in row(r)
    BY <1>2
  <2> QED
    BY <1>3, <2>1
<1>5. ASSUME NEW b \in BuiltMatches(size)
      PROVE  \E r \in 1 .. R : \E i \in 1 .. Width(size, r) : b = BracketRow(size, r, i)
  <2>1. PICK r \in 1 .. R : b \in row(r)
    BY <1>3
  <2> QED
    BY <1>2, <2>1
<1> QED
  BY <1>4, <1>5 DEF R

LEMMA IdsAre ==
    ASSUME NEW size \in DOMAIN EliminationRounds,
           NEW r \in 1 .. EliminationRounds[size], NEW i \in 1 .. Width(size, r)
    PROVE  BracketRow(size, r, i).id \in Nat \ {0}
<1>1. /\ size \in Nat /\ EliminationRounds[size] \in Nat /\ EliminationRounds[size] >= 1
      /\ 2 * Width(size, 1) = size /\ Width(size, 1) \in Nat /\ Width(size, r) \in Nat
  BY SizesAre
<1>2. 2 * Width(size, r) <= size
  <2>1. CASE r = 1
    BY <1>1, <2>1
  <2>2. CASE r # 1
    <3>1. 1 < r /\ 1 \in 1 .. EliminationRounds[size]
      BY <1>1, <2>2
    <3>2. 2 * Width(size, r) <= Width(size, 1)
      BY <3>1, RoundsShrink
    <3> QED
      BY <1>1, <3>2
  <2> QED
    BY <2>1, <2>2
<1>3. BracketRow(size, r, i).id = size - 2 * Width(size, r) + i
  BY DEF BracketRow, NewMatch
<1> QED
  BY <1>1, <1>2, <1>3

(* A row, found by its id.                                                  *)
LEMMA RowIs ==
    ASSUME NEW size \in DOMAIN EliminationRounds,
           NEW r \in 1 .. EliminationRounds[size], NEW i \in 1 .. Width(size, r)
    PROVE  /\ BracketRow(size, r, i).id \in IdsOf(BuiltMatches(size))
           /\ RowOf(BuiltMatches(size), BracketRow(size, r, i).id) = BracketRow(size, r, i)
<1> DEFINE rows == BuiltMatches(size)
           b == BracketRow(size, r, i)
<1>1. b \in rows
  BY BuiltMatchesAre
<1>2. ASSUME NEW o \in rows, o.id = b.id
      PROVE  o = b
  <2>1. PICK q \in 1 .. EliminationRounds[size] : \E j \in 1 .. Width(size, q) : o = BracketRow(size, q, j)
    BY BuiltMatchesAre
  <2>2. PICK j \in 1 .. Width(size, q) : o = BracketRow(size, q, j)
    BY <2>1
  <2>3. BracketRow(size, r, i).id = BracketRow(size, q, j).id
    BY <1>2, <2>2
  <2>4. r = q /\ i = j
    BY <2>3, IdsDiffer
  <2> QED
    BY <2>2, <2>4
<1> HIDE DEF rows, b
<1>3. b.id \in IdsOf(rows)
  BY <1>1 DEF IdsOf
<1>4. RowOf(rows, b.id) = b
  BY <1>1, <1>2 DEF RowOf
<1> QED
  BY <1>3, <1>4 DEF rows, b

(* What its sides start with, and who feeds them.                           *)
LEMMA SidesAre ==
    ASSUME NEW size \in DOMAIN EliminationRounds,
           NEW r \in 1 .. EliminationRounds[size], NEW i \in 1 .. Width(size, r), NEW k \in 1 .. 2
    PROVE  /\ r = 1 => /\ BracketRow(size, r, i).from[k] = 0
                       /\ BracketRow(size, r, i).inputs[k] = 2 * i - 2 + k
                       /\ 2 * i - 2 + k \in 1 .. size
           /\ r # 1 => /\ r - 1 \in 1 .. EliminationRounds[size]
                       /\ 2 * i - 2 + k \in 1 .. Width(size, r - 1)
                       /\ BracketRow(size, r, i).from[k] = BracketRow(size, r - 1, 2 * i - 2 + k).id
                       /\ BracketRow(size, r, i).inputs[k] = 0
<1>1. /\ size \in Nat /\ EliminationRounds[size] \in Nat
      /\ size = 2 * Width(size, 1) /\ Width(size, 1) \in Nat
  BY SizesAre
<1>2. CASE r = 1
  <2>1. /\ BracketRow(size, r, i).from = <<0, 0>>
        /\ BracketRow(size, r, i).inputs = <<2 * i - 1, 2 * i>>
    BY <1>2 DEF BracketRow, NewMatch
  <2>2. CASE k = 1
    BY <1>1, <1>2, <2>1, <2>2
  <2>3. CASE k = 2
    BY <1>1, <1>2, <2>1, <2>3
  <2> QED
    BY <2>2, <2>3
<1>3. CASE r # 1
  <2>1. r \in 2 .. EliminationRounds[size]
    BY <1>1, <1>3
  <2>2. BracketRow(size, r, i).inputs = <<0, 0>>
    BY <1>3 DEF BracketRow, NewMatch
  <2>3. BracketRow(size, r, i).inputs[k] = 0
    BY <2>2
  <2> QED
    BY <1>3, <2>1, <2>3, FeedersAre
<1> QED
  BY <1>2, <1>3

(* Match m of the tree is row i of round r.                                 *)
PlaysAs(size, inputId, m, r, i) ==
    /\ r \in 1 .. EliminationRounds[size]
    /\ i \in 1 .. Width(size, r)
    /\ m = BracketRow(size, r, i).id
    /\ RoundsOf(BuiltMatches(size))[m] = r
    /\ FeedersOf(BuiltMatches(size))[m] = BracketRow(size, r, i).from
    /\ SeedsOf(BuiltMatches(size), inputId)[m] =
          [k \in 1 .. 2 |-> InputIn(inputId, BracketRow(size, r, i).inputs[k])]

LEMMA TreeRows ==
    ASSUME NEW size \in DOMAIN EliminationRounds, NEW inputId,
           NEW m \in IdsOf(BuiltMatches(size))
    PROVE  \E r, i : PlaysAs(size, inputId, m, r, i)
<1>1. PICK b \in BuiltMatches(size) : m = b.id
  BY DEF IdsOf
<1>2. PICK r \in 1 .. EliminationRounds[size] : \E i \in 1 .. Width(size, r) : b = BracketRow(size, r, i)
  BY BuiltMatchesAre
<1>3. PICK i \in 1 .. Width(size, r) : b = BracketRow(size, r, i)
  BY <1>2
<1>4. RowOf(BuiltMatches(size), m) = BracketRow(size, r, i)
  BY <1>1, <1>3, RowIs
<1>5. BracketRow(size, r, i).round = r
  BY DEF BracketRow, NewMatch
<1>6. /\ RoundsOf(BuiltMatches(size))[m] = RowOf(BuiltMatches(size), m).round
      /\ FeedersOf(BuiltMatches(size))[m] = RowOf(BuiltMatches(size), m).from
      /\ SeedsOf(BuiltMatches(size), inputId)[m] =
            [k \in 1 .. 2 |-> InputIn(inputId, RowOf(BuiltMatches(size), m).inputs[k])]
  BY DEF RoundsOf, FeedersOf, SeedsOf
<1>7. PlaysAs(size, inputId, m, r, i)
  BY <1>1, <1>3, <1>4, <1>5, <1>6 DEF PlaysAs
<1> QED
  BY <1>7

(* The slot, or the match of the round before, of side k of row i.          *)
SlotOf(i, k) == 2 * i - 2 + k

(* A side of it is seated in the first round and fed in every other.        *)
SideIs(size, inputId, m, r, i, k) ==
    /\ r = 1 => /\ SlotOf(i, k) \in 1 .. size
                /\ FeedersOf(BuiltMatches(size))[m][k] = None
                /\ SeedsOf(BuiltMatches(size), inputId)[m][k] = inputId[SlotOf(i, k)]
    /\ r # 1 => /\ r - 1 \in 1 .. EliminationRounds[size]
                /\ SlotOf(i, k) \in 1 .. Width(size, r - 1)
                /\ FeedersOf(BuiltMatches(size))[m][k] = BracketRow(size, r - 1, SlotOf(i, k)).id
                /\ SeedsOf(BuiltMatches(size), inputId)[m][k] = None

LEMMA RowSides ==
    ASSUME NEW size \in DOMAIN EliminationRounds, NEW inputId, NEW m, NEW r, NEW i,
           PlaysAs(size, inputId, m, r, i), NEW k \in Sides
    PROVE  SideIs(size, inputId, m, r, i, k)
<1>1. /\ r \in 1 .. EliminationRounds[size] /\ i \in 1 .. Width(size, r) /\ k \in 1 .. 2
      /\ FeedersOf(BuiltMatches(size))[m][k] = BracketRow(size, r, i).from[k]
  BY DEF PlaysAs, Sides
<1>2. SeedsOf(BuiltMatches(size), inputId)[m][k] = InputIn(inputId, BracketRow(size, r, i).inputs[k])
  BY DEF PlaysAs, Sides
<1>3. size \in Nat
  BY SizesAre
<1>4. CASE r = 1
  <2>1. /\ BracketRow(size, r, i).from[k] = 0
        /\ BracketRow(size, r, i).inputs[k] = SlotOf(i, k)
        /\ SlotOf(i, k) \in 1 .. size
    BY <1>1, <1>4, SidesAre DEF SlotOf
  <2>2. SlotOf(i, k) # 0
    BY <1>3, <2>1
  <2>3. InputIn(inputId, SlotOf(i, k)) = inputId[SlotOf(i, k)]
    BY <2>2 DEF InputIn
  <2>4. /\ SlotOf(i, k) \in 1 .. size
        /\ FeedersOf(BuiltMatches(size))[m][k] = None
        /\ SeedsOf(BuiltMatches(size), inputId)[m][k] = inputId[SlotOf(i, k)]
    BY <1>1, <1>2, <2>1, <2>3 DEF None
  <2> QED
    BY <1>4, <2>4 DEF SideIs
<1>5. CASE r # 1
  <2>1. /\ r - 1 \in 1 .. EliminationRounds[size]
        /\ SlotOf(i, k) \in 1 .. Width(size, r - 1)
        /\ BracketRow(size, r, i).from[k] = BracketRow(size, r - 1, SlotOf(i, k)).id
        /\ BracketRow(size, r, i).inputs[k] = 0
    BY <1>1, <1>5, SidesAre DEF SlotOf
  <2>2. InputIn(inputId, 0) = None
    BY DEF InputIn, None
  <2>3. /\ r - 1 \in 1 .. EliminationRounds[size]
        /\ SlotOf(i, k) \in 1 .. Width(size, r - 1)
        /\ FeedersOf(BuiltMatches(size))[m][k] = BracketRow(size, r - 1, SlotOf(i, k)).id
        /\ SeedsOf(BuiltMatches(size), inputId)[m][k] = None
    BY <1>1, <1>2, <2>1, <2>2
  <2> QED
    BY <1>5, <2>3 DEF SideIs
<1> QED
  BY <1>4, <1>5

(* What the matches of a tree are like, by round.                           *)
FedAs(matches, roundOf, feeder, entrants, seed, m, k) ==
    /\ roundOf[m] \in Nat
    /\ roundOf[m] = 1 => feeder[m][k] = None /\ seed[m][k] \in entrants
    /\ roundOf[m] # 1 => /\ feeder[m][k] \in matches \ {None}
                         /\ roundOf[feeder[m][k]] = roundOf[m] - 1
                         /\ seed[m][k] = None

FedByRound(matches, roundOf, feeder, entrants, seed) ==
    \A m \in matches, k \in Sides : FedAs(matches, roundOf, feeder, entrants, seed, m, k)

UsedAs(feeder, seed, m, k, o, l) ==
    /\ (seed[m][k] # None /\ seed[m][k] = seed[o][l]) => (m = o /\ k = l)
    /\ (feeder[m][k] # None /\ feeder[m][k] = feeder[o][l]) => (m = o /\ k = l)

UsedOnce(matches, feeder, seed) ==
    \A m, o \in matches, k, l \in Sides : UsedAs(feeder, seed, m, k, o, l)

LEMMA TreeIf ==
    ASSUME NEW matches, NEW roundOf, NEW feeder, NEW entrants, NEW seed,
           matches \subseteq Nat \ {None}, entrants \subseteq Nat \ {None},
           roundOf = [m \in matches |-> roundOf[m]],
           feeder = [m \in matches |-> [k \in Sides |-> feeder[m][k]]],
           seed = [m \in matches |-> [k \in Sides |-> seed[m][k]]],
           FedByRound(matches, roundOf, feeder, entrants, seed)
    PROVE  IsTree(matches, roundOf, feeder, entrants, seed)
<1>1. \A m \in matches, k \in Sides :
        /\ roundOf[m] \in Nat
        /\ roundOf[m] = 1 => feeder[m][k] = None /\ seed[m][k] \in entrants
        /\ roundOf[m] # 1 => /\ feeder[m][k] \in matches \ {None}
                             /\ roundOf[feeder[m][k]] = roundOf[m] - 1
                             /\ seed[m][k] = None
  BY DEF FedByRound, FedAs
<1>2. \A m \in matches, k \in Sides :
        /\ feeder[m][k] \in matches \cup {None}
        /\ seed[m][k] \in entrants \cup {None}
  BY <1>1
<1>3. \A m \in matches : roundOf[m] \in Nat
  <2>1. 1 \in Sides
    BY DEF Sides
  <2> QED
    BY <1>1, <2>1
<1>4. \A m \in matches, k \in Sides :
        feeder[m][k] # None => roundOf[feeder[m][k]] < roundOf[m] /\ seed[m][k] = None
  BY <1>1
<1>5. roundOf \in [matches -> Nat]
  BY <1>3
<1>6. feeder \in [matches -> [Sides -> matches \cup {None}]]
  BY <1>2
<1>7. seed \in [matches -> [Sides -> entrants \cup {None}]]
  BY <1>2
<1> QED
  BY <1>4, <1>5, <1>6, <1>7 DEF IsTree

LEMMA RoundByRoundIf ==
    ASSUME NEW matches, NEW roundOf, NEW feeder, NEW entrants, NEW seed,
           FedByRound(matches, roundOf, feeder, entrants, seed),
           UsedOnce(matches, feeder, seed)
    PROVE  IsRoundByRound(matches, roundOf, feeder, seed)
<1>1. ASSUME NEW m \in matches, NEW o \in matches, NEW k \in Sides, NEW l \in Sides,
             feeder[m][k] # None, roundOf[m] = roundOf[o]
      PROVE  feeder[o][l] # None /\ roundOf[feeder[m][k]] = roundOf[feeder[o][l]]
  <2>1. roundOf[m] # 1
    BY <1>1 DEF FedByRound, FedAs
  <2>2. roundOf[feeder[m][k]] = roundOf[m] - 1
    BY <2>1 DEF FedByRound, FedAs
  <2>3. feeder[o][l] # None /\ roundOf[feeder[o][l]] = roundOf[o] - 1
    BY <1>1, <2>1 DEF FedByRound, FedAs
  <2> QED
    BY <1>1, <2>2, <2>3
<1> QED
  BY <1>1 DEF IsRoundByRound, UsedOnce, UsedAs

(* What a match is like, and the round of the matches that feed it.         *)
LEMMA TreeSides ==
    ASSUME NEW size \in DOMAIN EliminationRounds,
           NEW inputId \in [1 .. size -> Nat \ {None}],
           NEW m \in IdsOf(BuiltMatches(size)), NEW k \in Sides
    PROVE  FedAs(IdsOf(BuiltMatches(size)), RoundsOf(BuiltMatches(size)), FeedersOf(BuiltMatches(size)),
                 {inputId[x] : x \in 1 .. size}, SeedsOf(BuiltMatches(size), inputId), m, k)
<1>1. PICK r, i : PlaysAs(size, inputId, m, r, i)
  BY TreeRows
<1>2. r \in Nat /\ RoundsOf(BuiltMatches(size))[m] = r
  BY <1>1, SizesAre DEF PlaysAs
<1>3. /\ r = 1 => /\ SlotOf(i, k) \in 1 .. size
                  /\ FeedersOf(BuiltMatches(size))[m][k] = None
                  /\ SeedsOf(BuiltMatches(size), inputId)[m][k] = inputId[SlotOf(i, k)]
      /\ r # 1 => /\ r - 1 \in 1 .. EliminationRounds[size]
                  /\ SlotOf(i, k) \in 1 .. Width(size, r - 1)
                  /\ FeedersOf(BuiltMatches(size))[m][k] = BracketRow(size, r - 1, SlotOf(i, k)).id
                  /\ SeedsOf(BuiltMatches(size), inputId)[m][k] = None
  <2>1. SideIs(size, inputId, m, r, i, k)
    BY <1>1, RowSides
  <2> QED
    BY <2>1 DEF SideIs
<1>4. CASE r = 1
  BY <1>2, <1>3, <1>4 DEF FedAs
<1>5. CASE r # 1
  <2>1. PICK x : x = BracketRow(size, r - 1, SlotOf(i, k)).id
    OBVIOUS
  <2>2. x \in IdsOf(BuiltMatches(size)) /\ x \in Nat \ {0}
        /\ RowOf(BuiltMatches(size), x) = BracketRow(size, r - 1, SlotOf(i, k))
    BY <1>3, <1>5, <2>1, RowIs, IdsAre
  <2>3. BracketRow(size, r - 1, SlotOf(i, k)).round = r - 1
    BY DEF BracketRow, NewMatch
  <2>4. RoundsOf(BuiltMatches(size))[x] = r - 1
    BY <2>2, <2>3 DEF RoundsOf
  <2> QED
    BY <1>2, <1>3, <1>5, <2>1, <2>2, <2>4 DEF None, FedAs
<1> QED
  BY <1>4, <1>5

(* An input is seated once, and a winner plays on in one match.             *)
LEMMA SeatedOnce ==
    ASSUME NEW size \in DOMAIN EliminationRounds,
           NEW inputId \in [1 .. size -> Nat \ {None}],
           \A x, y \in 1 .. size : inputId[x] = inputId[y] => x = y,
           NEW m \in IdsOf(BuiltMatches(size)), NEW k \in Sides,
           NEW o \in IdsOf(BuiltMatches(size)), NEW l \in Sides
    PROVE  UsedAs(FeedersOf(BuiltMatches(size)), SeedsOf(BuiltMatches(size), inputId), m, k, o, l)
<1>1. PICK r, i : PlaysAs(size, inputId, m, r, i)
  BY TreeRows
<1>2. PICK q, j : PlaysAs(size, inputId, o, q, j)
  BY TreeRows
<1>3. /\ r \in Nat /\ q \in Nat /\ i \in Nat /\ j \in Nat /\ k \in Nat /\ l \in Nat /\ size \in Nat
      /\ m = BracketRow(size, r, i).id /\ o = BracketRow(size, q, j).id
  BY <1>1, <1>2, SizesAre DEF PlaysAs, Sides
<1>4. SlotOf(i, k) = SlotOf(j, l) => i = j /\ k = l
  <2>1. k \in 1 .. 2 /\ l \in 1 .. 2
    BY DEF Sides
  <2> QED
    BY <1>3, <2>1 DEF SlotOf
<1>5. /\ r = 1 => /\ SlotOf(i, k) \in 1 .. size
                  /\ FeedersOf(BuiltMatches(size))[m][k] = None
                  /\ SeedsOf(BuiltMatches(size), inputId)[m][k] = inputId[SlotOf(i, k)]
      /\ r # 1 => /\ r - 1 \in 1 .. EliminationRounds[size]
                  /\ SlotOf(i, k) \in 1 .. Width(size, r - 1)
                  /\ FeedersOf(BuiltMatches(size))[m][k] = BracketRow(size, r - 1, SlotOf(i, k)).id
                  /\ SeedsOf(BuiltMatches(size), inputId)[m][k] = None
  <2>1. SideIs(size, inputId, m, r, i, k)
    BY <1>1, RowSides
  <2> QED
    BY <2>1 DEF SideIs
<1>6. /\ q = 1 => /\ SlotOf(j, l) \in 1 .. size
                  /\ FeedersOf(BuiltMatches(size))[o][l] = None
                  /\ SeedsOf(BuiltMatches(size), inputId)[o][l] = inputId[SlotOf(j, l)]
      /\ q # 1 => /\ q - 1 \in 1 .. EliminationRounds[size]
                  /\ SlotOf(j, l) \in 1 .. Width(size, q - 1)
                  /\ FeedersOf(BuiltMatches(size))[o][l] = BracketRow(size, q - 1, SlotOf(j, l)).id
                  /\ SeedsOf(BuiltMatches(size), inputId)[o][l] = None
  <2>1. SideIs(size, inputId, o, q, j, l)
    BY <1>2, RowSides
  <2> QED
    BY <2>1 DEF SideIs
<1>7. ASSUME SeedsOf(BuiltMatches(size), inputId)[m][k] # None,
             SeedsOf(BuiltMatches(size), inputId)[m][k] = SeedsOf(BuiltMatches(size), inputId)[o][l]
      PROVE  m = o /\ k = l
  <2>1. r = 1 /\ q = 1
    BY <1>5, <1>6, <1>7
  <2>2. SlotOf(i, k) = SlotOf(j, l)
    BY <1>5, <1>6, <1>7, <2>1
  <2>3. i = j /\ k = l
    BY <1>4, <2>2
  <2> QED
    BY <1>3, <2>1, <2>3
<1>8. ASSUME FeedersOf(BuiltMatches(size))[m][k] # None,
             FeedersOf(BuiltMatches(size))[m][k] = FeedersOf(BuiltMatches(size))[o][l]
      PROVE  m = o /\ k = l
  <2>1. r # 1 /\ q # 1
    BY <1>5, <1>6, <1>8
  <2>2. BracketRow(size, r - 1, SlotOf(i, k)).id = BracketRow(size, q - 1, SlotOf(j, l)).id
    BY <1>5, <1>6, <1>8, <2>1
  <2>3. r - 1 = q - 1 /\ SlotOf(i, k) = SlotOf(j, l)
    BY <1>5, <1>6, <2>1, <2>2, IdsDiffer
  <2>4. r = q
    BY <1>3, <2>3
  <2>5. i = j /\ k = l
    BY <1>4, <2>3
  <2> QED
    BY <1>3, <2>4, <2>5
<1> QED
  BY <1>7, <1>8 DEF UsedAs

LEMMA FromIsPair ==
    ASSUME NEW size, NEW r, NEW i
    PROVE  BracketRow(size, r, i).from = [k \in 1 .. 2 |-> BracketRow(size, r, i).from[k]]
<1>1. PICK a, b : BracketRow(size, r, i).from = <<a, b>>
  <2>1. CASE r = 1
    BY <2>1 DEF BracketRow, NewMatch
  <2>2. CASE r # 1
    BY <2>2 DEF BracketRow, NewMatch
  <2> QED
    BY <2>1, <2>2
<1> QED
  BY <1>1

(* What the modules about score entry assume of a tree holds of every one   *)
(* the code builds, whatever ids the inputs of the stage item have: a match *)
(* is fed by two matches of the round before, of which it takes the only    *)
(* winners, and only the first round is seated                              *)
(* (build_single_elimination_stage_item).                                   *)
THEOREM BuiltTreesAreTrees ==
    ASSUME NEW size \in DOMAIN EliminationRounds,
           NEW inputId \in [1 .. size -> Nat \ {None}],
           \A x, y \in 1 .. size : inputId[x] = inputId[y] => x = y
    PROVE  LET rows == BuiltMatches(size) IN
           /\ IsTree(IdsOf(rows), RoundsOf(rows), FeedersOf(rows),
                     {inputId[x] : x \in 1 .. size}, SeedsOf(rows, inputId))
           /\ IsRoundByRound(IdsOf(rows), RoundsOf(rows), FeedersOf(rows), SeedsOf(rows, inputId))
<1>1. ASSUME NEW m \in IdsOf(BuiltMatches(size))
      PROVE  m \in Nat \ {None}
  <2>1. PICK r, i : PlaysAs(size, inputId, m, r, i)
    BY TreeRows
  <2> QED
    BY <2>1, IdsAre DEF PlaysAs, None
<1>2. IdsOf(BuiltMatches(size)) \subseteq Nat \ {None}
  BY <1>1
<1>3. {inputId[x] : x \in 1 .. size} \subseteq Nat \ {None}
  OBVIOUS
<1>4. RoundsOf(BuiltMatches(size)) =
         [m \in IdsOf(BuiltMatches(size)) |-> RoundsOf(BuiltMatches(size))[m]]
  BY DEF RoundsOf
<1>5. SeedsOf(BuiltMatches(size), inputId) =
         [m \in IdsOf(BuiltMatches(size)) |-> [k \in Sides |-> SeedsOf(BuiltMatches(size), inputId)[m][k]]]
  BY DEF SeedsOf, Sides
<1>6. FeedersOf(BuiltMatches(size)) =
         [m \in IdsOf(BuiltMatches(size)) |-> [k \in Sides |-> FeedersOf(BuiltMatches(size))[m][k]]]
  <2>1. ASSUME NEW m \in IdsOf(BuiltMatches(size))
        PROVE  FeedersOf(BuiltMatches(size))[m] = [k \in Sides |-> FeedersOf(BuiltMatches(size))[m][k]]
    <3>1. PICK r, i : PlaysAs(size, inputId, m, r, i)
      BY TreeRows
    <3>2. FeedersOf(BuiltMatches(size))[m] = BracketRow(size, r, i).from
      BY <3>1 DEF PlaysAs
    <3> QED
      BY <3>2, FromIsPair DEF Sides
  <2>2. FeedersOf(BuiltMatches(size)) =
           [m \in IdsOf(BuiltMatches(size)) |-> FeedersOf(BuiltMatches(size))[m]]
    BY DEF FeedersOf
  <2> QED
    BY <2>1, <2>2
<1>7. FedByRound(IdsOf(BuiltMatches(size)), RoundsOf(BuiltMatches(size)), FeedersOf(BuiltMatches(size)),
                 {inputId[x] : x \in 1 .. size}, SeedsOf(BuiltMatches(size), inputId))
  <2>1. ASSUME NEW m \in IdsOf(BuiltMatches(size)), NEW k \in Sides
        PROVE  FedAs(IdsOf(BuiltMatches(size)), RoundsOf(BuiltMatches(size)), FeedersOf(BuiltMatches(size)),
                     {inputId[x] : x \in 1 .. size}, SeedsOf(BuiltMatches(size), inputId), m, k)
    BY TreeSides
  <2> QED
    BY <2>1 DEF FedByRound
<1>8. UsedOnce(IdsOf(BuiltMatches(size)), FeedersOf(BuiltMatches(size)), SeedsOf(BuiltMatches(size), inputId))
  BY SeatedOnce DEF UsedOnce
<1>9. IsTree(IdsOf(BuiltMatches(size)), RoundsOf(BuiltMatches(size)), FeedersOf(BuiltMatches(size)),
             {inputId[x] : x \in 1 .. size}, SeedsOf(BuiltMatches(size), inputId))
  BY <1>2, <1>3, <1>4, <1>5, <1>6, <1>7, TreeIf
<1>10. IsRoundByRound(IdsOf(BuiltMatches(size)), RoundsOf(BuiltMatches(size)), FeedersOf(BuiltMatches(size)),
                     SeedsOf(BuiltMatches(size), inputId))
  BY <1>7, <1>8, RoundByRoundIf
<1> QED
  BY <1>9, <1>10
=============================================================================
