---------------------------- MODULE StageProofs ----------------------------
(***************************************************************************)
(* Proofs about StageLifecycle, for every tournament that has not started  *)
(* and every number of stages, stage items, teams, inputs and changes.     *)
(***************************************************************************)
EXTENDS StageLifecycle, TLAPS, FiniteSetTheorems, WellFoundedInduction

----------------------------------------------------------------------------
(* First and last stages. *)

(* A set of numbers that is not empty has a first one.                      *)
LEMMA LeastExists ==
    ASSUME NEW S \in SUBSET Nat, S # {}
    PROVE  \E x \in S : \A s \in S : x <= s
<1> DEFINE Less == {pair \in Nat \X Nat : pair[1] < pair[2]}
<1>1. IsWellFoundedOn(Less, Nat)
  BY ONLY NatLessThanWellFounded DEF OpToRel
<1>2. PICK x \in S : \A y \in S : ~(<<y, x>> \in Less)
  <2> HIDE DEF Less
  <2> QED
    BY <1>1, WFMin
<1>3. \A y \in S : ~(y < x)
  BY <1>2
<1> QED
  BY <1>3

(* Min is the first one of a set of numbers that is not empty.             *)
LEMMA MinExists ==
    ASSUME NEW S \in SUBSET Nat, S # {}
    PROVE  /\ Min(S) \in S
           /\ \A s \in S : Min(S) <= s
<1>1. PICK x \in S : \A s \in S : x <= s
  BY LeastExists
<1> QED
  BY <1>1 DEF Min

(* A set of numbers that is not empty and has a bound has a last one: its   *)
(* first bound is in the set.                                               *)
LEMMA MaxExists ==
    ASSUME NEW S \in SUBSET Nat, S # {},
           NEW bound \in Nat, \A s \in S : s <= bound
    PROVE  /\ Max(S) \in S
           /\ \A s \in S : s <= Max(S)
<1> DEFINE Bounds == {n \in Nat : \A s \in S : s <= n}
<1>1. Bounds \in SUBSET Nat /\ Bounds # {}
  OBVIOUS
<1>2. PICK first \in Bounds : \A n \in Bounds : first <= n
  <2> HIDE DEF Bounds
  <2> QED
    BY <1>1, MinExists
<1>3. first \in S
  <2> SUFFICES ASSUME first \notin S
               PROVE  FALSE
    OBVIOUS
  <2>1. first \in Nat /\ \A s \in S : s <= first
    OBVIOUS
  <2>2. \A s \in S : s < first
    BY <2>1
  <2>3. first - 1 \in Nat /\ \A s \in S : s <= first - 1
    <3>1. PICK s \in S : s < first
      BY <2>2
    <3> QED
      BY <2>1, <2>2, <3>1
  <2> QED
    BY <1>2, <2>1, <2>3 DEF Bounds
<1> QED
  BY <1>3 DEF Max

(* The stage that "next" activates is an inactive one after the active one. *)
LEMMA NextStageIsLater ==
    ASSUME stages \subseteq StageIds, active \subseteq stages,
           \A a, b \in active : a = b, NextStage # 0
    PROVE  /\ NextStage \in stages
           /\ \A a \in active : NextStage > a
<1> DEFINE after == {s \in stages \ active : active # {} => s > Min(active)}
<1>1. after \in SUBSET Nat /\ stages \subseteq Nat
  BY StageAssumption
<1>2. after # {} /\ NextStage = Min(after)
  BY DEF NextStage
<1>3. NextStage \in after
  <2> HIDE DEF after
  <2> QED
    BY <1>1, <1>2, MinExists
<1>4. \A a \in active : Min(active) = a
  BY <1>1, MinExists
<1> QED
  BY <1>3, <1>4

(* The stage that "previous" activates is an inactive one with no other     *)
(* inactive one between it and the active one.                              *)
LEMMA PreviousStageIsLast ==
    ASSUME stages \subseteq StageIds, active \subseteq stages,
           \A a, b \in active : a = b, PreviousStage # 0
    PROVE  /\ PreviousStage \in stages
           /\ \A a \in active : \A s \in stages : s > PreviousStage => s >= a
<1> DEFINE before == {s \in stages \ active : active # {} => s < Max(active)}
<1>1. stages \subseteq Nat /\ before \in SUBSET Nat
  BY StageAssumption
<1>2. PICK last \in StageIds : \A s \in StageIds : s <= last
  BY StageAssumption
<1>3. last \in Nat /\ \A s \in stages : s <= last
  BY <1>2, StageAssumption
<1>4. before # {} /\ PreviousStage = Max(before)
  BY DEF PreviousStage
<1>5. PreviousStage \in before /\ \A s \in before : s <= PreviousStage
  <2>1. \A s \in before : s <= last
    BY <1>3
  <2> HIDE DEF before
  <2> QED
    BY <1>1, <1>3, <1>4, <2>1, MaxExists
<1>6. \A a \in active : Max(active) = a
  <2> TAKE a \in active
  <2>1. active \in SUBSET Nat /\ \A b \in active : b <= last
    BY <1>1, <1>3
  <2> QED
    BY <1>3, <2>1, MaxExists
<1>7. ASSUME NEW a \in active, NEW s \in stages, s > PreviousStage, s < a
      PROVE  FALSE
  <2>1. s \notin active
    BY <1>1, <1>7
  <2>2. s \in before
    BY <1>6, <1>7, <2>1
  <2> QED
    BY <1>1, <1>5, <1>7, <2>2
<1> QED
  BY <1>1, <1>5, <1>7

----------------------------------------------------------------------------
(* The invariant. *)

(* What the next steps need of stages and inputs, with the safety           *)
(* properties: no set of teams or of standings plays a part.                *)
IInv ==
    /\ stages \subseteq StageIds
    /\ active \subseteq stages
    /\ \A a, b \in active : a = b
    /\ \A i \in Items : stageOf[i] \in stages
    /\ DOMAIN inputs = Items
    /\ DOMAIN paired = Items
    /\ PairedInputsExist
    /\ LaterStagesUnresolved

(* A tournament that is not started satisfies the invariant. *)
LEMMA InitInvariant == Init => IInv
<1> SUFFICES ASSUME Init
             PROVE  IInv
  OBVIOUS
<1>1. PICK setup \in Setups :
          /\ stages = setup.stages
          /\ stageOf = setup.stageOf
          /\ swiss = setup.swiss
          /\ inputs = setup.inputs
  BY DEF Init
<1>2. /\ stages \subseteq StageIds
      /\ \A i \in Items : stageOf[i] \in stages
      /\ DOMAIN inputs = Items
      /\ \A i \in Items : DOMAIN inputs[i] = Slots
      /\ \A i \in Items : \A k \in Slots : ~IsResolved(inputs[i][k])
  BY <1>1, SetupAssumption DEF Items
<1>3. /\ active = {}
      /\ DOMAIN paired = Items
      /\ \A i \in Items : paired[i] \subseteq Slots
  BY DEF Init
<1>4. PairedInputsExist
  BY <1>2, <1>3 DEF PairedInputsExist
<1>5. LaterStagesUnresolved
  BY <1>2 DEF LaterStagesUnresolved
<1> QED
  BY <1>2, <1>3, <1>4, <1>5 DEF IInv

(* Activating the next stage: the stages after it were after the active one *)
(* too.                                                                     *)
LEMMA ActivateNextInvariant ==
    ASSUME IInv, ActivateNext
    PROVE  IInv'
<1> DEFINE next == NextStage
<1>1. /\ next \in stages
      /\ \A a \in active : next > a
  BY NextStageIsLater DEF IInv, ActivateNext
<1>2. /\ active' = {next}
      /\ inputs' = [i \in Items |-> IF stageOf[i] = next THEN Resolved(inputs[i])
                                                         ELSE inputs[i]]
      /\ stages' = stages /\ stageOf' = stageOf /\ Items' = Items
      /\ paired' = paired /\ gap' = gap
  BY DEF ActivateNext, Activate, Items, results
<1> HIDE DEF next
<1>3. \A i \in Items : DOMAIN (inputs'[i]) = DOMAIN inputs[i]
  BY <1>2 DEF Resolved
<1>4. PairedInputsExist'
  BY <1>2, <1>3 DEF IInv, PairedInputsExist
<1>5. LaterStagesUnresolved'
  <2> SUFFICES ASSUME ~gap, NEW i \in Items, stageOf[i] > next,
                      NEW k \in DOMAIN inputs[i]
               PROVE  ~IsResolved(inputs'[i][k])
    BY <1>2, <1>3 DEF LaterStagesUnresolved
  <2>1. next \in Nat /\ stageOf[i] \in Nat /\ active \subseteq Nat
    BY <1>1, StageAssumption DEF IInv
  <2>2. \A a \in active : stageOf[i] > a
    BY <1>1, <2>1
  <2>3. inputs'[i] = inputs[i]
    BY <1>2, <2>1
  <2> QED
    BY <2>2, <2>3 DEF IInv, LaterStagesUnresolved
<1> QED
  BY <1>1, <1>2, <1>4, <1>5 DEF IInv

(* Activating the previous stage: of the stages after it, the one that was  *)
(* active is emptied and those after that had nothing looked up.            *)
LEMMA ActivatePreviousInvariant ==
    ASSUME IInv, ActivatePrevious
    PROVE  IInv'
<1> DEFINE previous == PreviousStage
<1>1. /\ previous \in stages
      /\ \A a \in active : \A s \in stages : s > previous => s >= a
  BY PreviousStageIsLast DEF IInv, ActivatePrevious
<1>2. /\ active' = {previous}
      /\ inputs' = [i \in Items |-> IF stageOf[i] \in active THEN Unresolved(inputs[i])
                                                             ELSE inputs[i]]
      /\ stages' = stages /\ stageOf' = stageOf /\ Items' = Items
      /\ paired' = paired /\ gap' = gap
  BY DEF ActivatePrevious, Activate, Deactivate, Items
<1> HIDE DEF previous
<1>3. \A i \in Items : DOMAIN (inputs'[i]) = DOMAIN inputs[i]
  BY <1>2 DEF Unresolved
<1>4. PairedInputsExist'
  BY <1>2, <1>3 DEF IInv, PairedInputsExist
<1>5. LaterStagesUnresolved'
  <2> SUFFICES ASSUME ~gap, NEW i \in Items, stageOf[i] > previous,
                      NEW k \in DOMAIN inputs[i]
               PROVE  ~IsResolved(inputs'[i][k])
    BY <1>2, <1>3 DEF LaterStagesUnresolved
  <2>1. CASE stageOf[i] \in active
    BY <1>2, <2>1 DEF Unresolved, IsResolved
  <2>2. CASE stageOf[i] \notin active
    <3>1. /\ previous \in Nat /\ stageOf[i] \in Nat /\ stageOf[i] \in stages
          /\ active \subseteq Nat
      BY <1>1, StageAssumption DEF IInv
    <3>2. \A a \in active : stageOf[i] >= a /\ stageOf[i] # a
      BY <1>1, <2>2, <3>1
    <3>3. \A a \in active : stageOf[i] > a
      <4> TAKE a \in active
      <4>1. a \in Nat /\ stageOf[i] \in Nat
        BY <3>1
      <4>2. stageOf[i] >= a /\ stageOf[i] # a
        BY <3>2
      <4> QED
        BY <4>1, <4>2
    <3>4. inputs'[i] = inputs[i]
      BY <1>2, <2>2
    <3> QED
      BY <3>3, <3>4 DEF IInv, LaterStagesUnresolved
  <2> QED
    BY <2>1, <2>2
<1> QED
  BY <1>1, <1>2, <1>4, <1>5 DEF IInv

(* Deleting a stage leaves nothing in it; if it was active, gap is set.     *)
LEMMA DeleteStageInvariant ==
    ASSUME IInv, NEW s \in stages, DeleteStage(s)
    PROVE  IInv'
<1>1. /\ stages' = stages \ {s} /\ active' = active \ {s}
      /\ gap' = (gap \/ s \in active)
      /\ stageOf' = stageOf /\ Items' = Items
      /\ inputs' = inputs /\ paired' = paired
  BY DEF DeleteStage, results, Items
<1>2. \A i \in Items : stageOf[i] # s
  BY DEF DeleteStage, ItemsOf
<1>3. PairedInputsExist'
  BY <1>1 DEF IInv, PairedInputsExist
<1>4. LaterStagesUnresolved'
  BY <1>1 DEF IInv, LaterStagesUnresolved
<1> QED
  BY <1>1, <1>2, <1>3, <1>4 DEF IInv

(* A new stage item has empty inputs, one for each slot.                    *)
LEMMA CreateStageItemInvariant ==
    ASSUME IInv, NEW s \in stages, NEW isSwiss \in BOOLEAN, CreateStageItem(s, isSwiss)
    PROVE  IInv'
<1> DEFINE With(f, new, value) == [j \in Items \cup {new} |-> IF j = new THEN value ELSE f[j]]
<1>1. PICK i \in Newer(ItemIds, Items) :
          /\ stageOf' = With(stageOf, i, s)
          /\ inputs' = With(inputs, i, [k \in Slots |-> EmptyInput])
          /\ paired' = With(paired, i, IF isSwiss THEN {} ELSE Slots)
  BY DEF CreateStageItem
<1>2. /\ stages' = stages /\ active' = active /\ gap' = gap
      /\ Items' = Items \cup {i}
  BY <1>1 DEF CreateStageItem, Items
<1>3. PairedInputsExist'
  BY <1>1, <1>2 DEF IInv, PairedInputsExist
<1>4. \A k \in DOMAIN inputs'[i] : ~IsResolved(inputs'[i][k])
  BY <1>1 DEF IsResolved, EmptyInput, Input
<1>5. LaterStagesUnresolved'
  BY <1>1, <1>2, <1>4 DEF IInv, LaterStagesUnresolved
<1> QED
  BY <1>1, <1>2, <1>3, <1>5 DEF IInv

(* Deleting a stage item takes its inputs and those it feeds, none of which *)
(* is in a match.                                                           *)
LEMMA DeleteStageItemInvariant ==
    ASSUME IInv, NEW i \in Items, DeleteStageItem(i)
    PROVE  IInv'
<1> DEFINE kept == Items \ {i}
<1>1. /\ stageOf' = [j \in kept |-> stageOf[j]]
      /\ inputs' = [j \in kept |-> [k \in DOMAIN inputs[j] \ FedBy(i, j) |-> inputs[j][k]]]
      /\ paired' = [j \in kept |-> paired[j]]
      /\ stages' = stages /\ active' = active /\ gap' = gap
      /\ \A j \in kept : FedBy(i, j) \cap paired[j] = {}
  BY DEF DeleteStageItem, Removed
<1>2. Items' = kept
  BY <1>1 DEF Items
<1> HIDE DEF kept
<1>3. \A j \in kept : DOMAIN inputs'[j] = DOMAIN inputs[j] \ FedBy(i, j)
  BY <1>1
<1>4. kept \subseteq Items
  BY DEF kept
<1>5. PairedInputsExist'
  BY <1>1, <1>2, <1>3, <1>4 DEF IInv, PairedInputsExist
<1>6. LaterStagesUnresolved'
  BY <1>1, <1>2, <1>3, <1>4 DEF IInv, LaterStagesUnresolved
<1> QED
  BY <1>1, <1>2, <1>4, <1>5, <1>6 DEF IInv

(* The organiser puts an input there that has a team or a source, not both. *)
LEMMA UpdateInputInvariant ==
    ASSUME IInv, NEW i \in Items, NEW k \in DOMAIN inputs[i], UpdateInput(i, k)
    PROVE  IInv'
<1>1. PICK body \in InputBodies : inputs' = [inputs EXCEPT ![i][k] = body]
  BY DEF UpdateInput
<1>2. /\ stages' = stages /\ active' = active /\ gap' = gap
      /\ stageOf' = stageOf /\ Items' = Items /\ paired' = paired
  BY DEF UpdateInput, results, Items
<1>3. ~IsResolved(body)
  BY DEF InputBodies, IsResolved, EmptyInput, TeamInput, TentativeInput, Input
<1>4. /\ DOMAIN inputs' = DOMAIN inputs
      /\ \A j \in Items : DOMAIN inputs'[j] = DOMAIN inputs[j]
      /\ \A j \in Items : \A l \in DOMAIN inputs[j] : inputs'[j][l] \in {inputs[j][l], body}
  BY <1>1 DEF IInv
<1>5. PairedInputsExist'
  BY <1>2, <1>4 DEF IInv, PairedInputsExist
<1>6. LaterStagesUnresolved'
  BY <1>2, <1>3, <1>4 DEF IInv, LaterStagesUnresolved
<1> QED
  BY <1>2, <1>4, <1>5, <1>6 DEF IInv

(* Creating and deleting rounds and matches and entering scores concern     *)
(* which inputs play, never which inputs there are.                         *)
LEMMA MatchesInvariant ==
    ASSUME IInv, NEW i \in Items, AddMatches(i) \/ RemoveMatches(i) \/ Play(i)
    PROVE  IInv'
<1>1. /\ stages' = stages /\ active' = active /\ gap' = gap
      /\ stageOf' = stageOf /\ Items' = Items /\ inputs' = inputs
  BY DEF AddMatches, RemoveMatches, Play, Items
<1>2. /\ DOMAIN paired' = DOMAIN paired
      /\ \A j \in Items : paired'[j] \subseteq DOMAIN inputs[j]
  BY DEF AddMatches, RemoveMatches, Play, IInv, PairedInputsExist
<1>3. PairedInputsExist'
  BY <1>1, <1>2 DEF PairedInputsExist
<1>4. LaterStagesUnresolved'
  BY <1>1 DEF IInv, LaterStagesUnresolved
<1> QED
  BY <1>1, <1>2, <1>3, <1>4 DEF IInv

(* Every step keeps the invariant. *)
LEMMA StepInvariant == IInv /\ [Next]_vars => IInv'
<1> SUFFICES ASSUME IInv, [Next]_vars
             PROVE  IInv'
  OBVIOUS
<1>1. CASE CreateStage
  <2>1. PICK s \in Newer(StageIds, stages) : stages' = stages \cup {s}
    BY <1>1 DEF CreateStage
  <2>2. /\ active' = active /\ gap' = gap /\ stageOf' = stageOf /\ Items' = Items
        /\ inputs' = inputs /\ paired' = paired
    BY <1>1 DEF CreateStage, results, Items
  <2> QED
    BY <2>1, <2>2 DEF IInv, PairedInputsExist, LaterStagesUnresolved, Newer
<1>2. CASE \E s \in stages : DeleteStage(s)
  BY <1>2, DeleteStageInvariant
<1>3. CASE ActivateNext
  BY <1>3, ActivateNextInvariant
<1>4. CASE ActivatePrevious
  BY <1>4, ActivatePreviousInvariant
<1>5. CASE \E s \in stages, isSwiss \in BOOLEAN : CreateStageItem(s, isSwiss)
  BY <1>5, CreateStageItemInvariant
<1>6. CASE \E i \in Items : DeleteStageItem(i)
  BY <1>6, DeleteStageItemInvariant
<1>7. CASE \E i \in Items : \E k \in DOMAIN inputs[i] : UpdateInput(i, k)
  BY <1>7, UpdateInputInvariant
<1>8. CASE \E i \in Items : AddMatches(i) \/ RemoveMatches(i) \/ Play(i)
  BY <1>8, MatchesInvariant
<1>9. CASE UNCHANGED vars
  BY <1>9 DEF vars, results, IInv, Items, PairedInputsExist, LaterStagesUnresolved
<1> QED
  BY <1>1, <1>2, <1>3, <1>4, <1>5, <1>6, <1>7, <1>8, <1>9 DEF Next

(* IInv is an invariant of StageLifecycle. *)
THEOREM Invariant == Spec => []IInv
<1> QED
  BY InitInvariant, StepInvariant, PTL DEF Spec

(* At most one stage is active, in whatever order stages are activated,     *)
(* created and deleted (sql_activate_next_stage).                           *)
THEOREM AtMostOneStage == Spec => []OneActive
<1>1. IInv => OneActive
  <2> SUFFICES ASSUME IInv, active # {}
               PROVE  OneActive
    BY FS_EmptySet DEF OneActive
  <2>1. PICK a \in active : active = {a}
    BY DEF IInv
  <2> QED
    BY <2>1, FS_Singleton DEF OneActive
<1> QED
  BY <1>1, Invariant, PTL

(* A stage after the active one has no input that was looked up, unless the *)
(* active stage was deleted (update_matches_in_deactivated_stage).          *)
THEOREM LaterStagesWait == Spec => []LaterStagesUnresolved
<1>1. IInv => LaterStagesUnresolved
  BY DEF IInv
<1> QED
  BY <1>1, Invariant, PTL

(* No deletion of a stage item takes an input that is in a match (the       *)
(* foreign keys of matches and sql_delete_stage_item_inputs).               *)
THEOREM MatchesHaveInputs == Spec => []PairedInputsExist
<1>1. IInv => PairedInputsExist
  BY DEF IInv
<1> QED
  BY <1>1, Invariant, PTL

(* Every input with a source in the stage that becomes active was tentative *)
(* and gets the team in its position (update_matches_in_activated_stage).   *)
LEMMA ActivationStep ==
    ASSUME IInv, ActivateNext, ~gap,
           NEW i \in Items, stageOf[i] \in active',
           NEW k \in DOMAIN inputs[i], inputs[i][k].from # None
    PROVE  /\ HasTarget(inputs[i][k])
           /\ inputs'[i][k] = [inputs[i][k] EXCEPT !.team = Target(inputs[i][k]).team]
<1>1. stageOf[i] = NextStage
  BY DEF ActivateNext, Activate
<1>2. \A a \in active : stageOf[i] > a
  BY <1>1, NextStageIsLater DEF IInv, ActivateNext
<1>3. IsTentative(inputs[i][k])
  BY <1>2 DEF IInv, LaterStagesUnresolved, IsResolved, IsTentative
<1>4. /\ i \in ItemsOf(NextStage)
      /\ inputs'[i] = Resolved(inputs[i])
  BY <1>1 DEF ActivateNext, ItemsOf
<1> QED
  BY <1>3, <1>4 DEF ActivateNext, Resolved

(* Activating a stage looks all its derived inputs up in the standings of   *)
(* that moment, also when the stage was active before                       *)
(* (get_updates_to_inputs_in_activated_stage).                              *)
THEOREM ActivationLooksUp == Spec => ActivationUsesStandings
<1>1. IInv /\ [Next]_vars =>
          [(ActivateNext /\ ~gap) =>
              \A i \in Items : stageOf[i] \in active' =>
                  \A k \in DOMAIN inputs[i] : inputs[i][k].from # None =>
                      /\ HasTarget(inputs[i][k])
                      /\ inputs'[i][k] =
                            [inputs[i][k] EXCEPT !.team = Target(inputs[i][k]).team]]_vars
  BY ActivationStep
<1> QED
  BY <1>1, Invariant, PTL DEF Spec, ActivationUsesStandings

----------------------------------------------------------------------------
(* Type correctness. *)

(* The standings of a stage item without scores are an order. *)
LEMMA StandingsAreOrders ==
    /\ BySlot \in Orders
    /\ \A slots : Standings(slots) \subseteq Orders
  BY DEF BySlot, Orders, Standings

(* A team that is looked up is that of an input of the source. *)
LEMMA TargetIsInput ==
    ASSUME NEW input, HasTarget(input)
    PROVE  \E l \in DOMAIN inputs[input.from] :
              Target(input) = inputs[input.from][l] /\ inputs[input.from][l].team # None
  BY DEF HasTarget, Target, AtPosition, Ranked

(* What a tentative input becomes keeps its source and position. *)
LEMMA ResolvedType ==
    ASSUME TypeOK, NEW i \in Items,
           \A k \in DOMAIN inputs[i] : IsTentative(inputs[i][k]) => HasTarget(inputs[i][k]),
           NEW k \in DOMAIN inputs[i]
    PROVE  Resolved(inputs[i])[k] \in InputsFrom(Items)
<1>1. inputs[i][k] \in InputsFrom(Items)
  BY DEF TypeOK
<1>2. CASE IsTentative(inputs[i][k])
  <2>1. inputs[i][k].from \in Items
    BY <1>1, <1>2 DEF IsTentative, InputsFrom
  <2>2. Target(inputs[i][k]).team \in Teams
    <3>1. PICK l \in DOMAIN inputs[inputs[i][k].from] :
              /\ Target(inputs[i][k]) = inputs[inputs[i][k].from][l]
              /\ inputs[inputs[i][k].from][l].team # None
      BY <1>2, TargetIsInput
    <3>2. inputs[inputs[i][k].from][l] \in InputsFrom(Items)
      BY <2>1 DEF TypeOK
    <3> QED
      BY <3>1, <3>2 DEF InputsFrom
  <2> QED
    BY <1>1, <1>2, <2>2 DEF Resolved, InputsFrom
<1>3. CASE ~IsTentative(inputs[i][k])
  BY <1>1, <1>3 DEF Resolved
<1> QED
  BY <1>2, <1>3

(* A tournament as it was set up has its type. *)
LEMMA InitTypes == Init => TypeOK
<1> SUFFICES ASSUME Init
             PROVE  TypeOK
  OBVIOUS
<1>1. PICK setup \in Setups :
          /\ stages = setup.stages
          /\ stageOf = setup.stageOf
          /\ swiss = setup.swiss
          /\ inputs = setup.inputs
  BY DEF Init
<1>2. /\ stages \subseteq StageIds /\ Items \subseteq ItemIds /\ swiss \subseteq Items
      /\ \A i \in Items : stageOf[i] \in stages
      /\ DOMAIN inputs = Items
      /\ \A i \in Items : DOMAIN inputs[i] = Slots
      /\ \A i \in Items : \A k \in Slots : inputs[i][k] \in InputsFrom(Items)
  BY <1>1, SetupAssumption DEF Items
<1>3. /\ DOMAIN paired = Items /\ DOMAIN played = Items /\ DOMAIN order = Items
      /\ \A i \in Items : played[i] = {} /\ order[i] = BySlot
      /\ active = {}
  BY DEF Init
<1>4. changes \in 0 .. MaxChanges
  BY StageAssumption DEF Init
<1>5. replaced \in BOOLEAN /\ gap \in BOOLEAN
  BY DEF Init
<1>6. \A i \in Items : /\ DOMAIN inputs[i] \subseteq Slots
                       /\ played[i] \subseteq paired[i] /\ order[i] \in Orders
  BY <1>2, <1>3, StandingsAreOrders
<1> QED
  BY <1>2, <1>3, <1>4, <1>5, <1>6 DEF TypeOK

(* Activating the next stage: the teams come from inputs.                   *)
LEMMA ActivateNextTypes ==
    ASSUME TypeOK, IInv, ActivateNext
    PROVE  TypeOK'
<1>1. NextStage \in stages
  BY NextStageIsLater DEF IInv, ActivateNext
<1>2. /\ active' = {NextStage}
      /\ inputs' = [i \in Items |-> IF stageOf[i] = NextStage THEN Resolved(inputs[i])
                                                              ELSE inputs[i]]
      /\ UNCHANGED <<stages, stageOf, swiss, results, changes, replaced, gap>>
      /\ Items' = Items
  BY DEF ActivateNext, Activate, Items
<1>3. \A i \in Items : DOMAIN inputs'[i] = DOMAIN inputs[i]
  BY <1>2 DEF Resolved
<1>4. ASSUME NEW i \in Items, NEW k \in DOMAIN inputs[i]
      PROVE  inputs'[i][k] \in InputsFrom(Items)
  <2>1. CASE stageOf[i] = NextStage
    <3>1. \A l \in DOMAIN inputs[i] : IsTentative(inputs[i][l]) => HasTarget(inputs[i][l])
      BY <2>1 DEF ActivateNext, ItemsOf
    <3> QED
      BY <1>2, <2>1, <3>1, ResolvedType
  <2>2. CASE stageOf[i] # NextStage
    BY <1>2, <2>2 DEF TypeOK
  <2> QED
    BY <2>1, <2>2
<1> QED
  BY <1>1, <1>2, <1>3, <1>4 DEF TypeOK, results, Orders

(* Activating the previous stage takes teams and scores away.               *)
LEMMA ActivatePreviousTypes ==
    ASSUME TypeOK, IInv, ActivatePrevious
    PROVE  TypeOK'
<1>1. PreviousStage \in stages
  BY PreviousStageIsLast DEF IInv, ActivatePrevious
<1>2. /\ active' = {PreviousStage}
      /\ inputs' = [i \in Items |-> IF stageOf[i] \in active THEN Unresolved(inputs[i])
                                                             ELSE inputs[i]]
      /\ played' = [i \in Items |-> IF stageOf[i] \in active THEN {} ELSE played[i]]
      /\ order' = [i \in Items |-> IF stageOf[i] \in active THEN BySlot ELSE order[i]]
      /\ UNCHANGED <<stages, stageOf, swiss, paired, changes, replaced, gap>>
      /\ Items' = Items
  BY DEF ActivatePrevious, Activate, Deactivate, Items
<1>3. \A i \in Items : DOMAIN inputs'[i] = DOMAIN inputs[i]
  BY <1>2 DEF Unresolved
<1>4. ASSUME NEW i \in Items, NEW k \in DOMAIN inputs[i]
      PROVE  inputs'[i][k] \in InputsFrom(Items)
  BY <1>2 DEF TypeOK, Unresolved, InputsFrom
<1>5. \A i \in Items : played'[i] \subseteq paired'[i] /\ order'[i] \in Orders
  BY <1>2, StandingsAreOrders DEF TypeOK
<1> QED
  BY <1>1, <1>2, <1>3, <1>4, <1>5 DEF TypeOK, Orders

(* A new stage item, and one that is deleted, with the inputs it feeds.     *)
LEMMA CreateStageItemTypes ==
    ASSUME TypeOK, NEW s \in stages, NEW isSwiss \in BOOLEAN, CreateStageItem(s, isSwiss)
    PROVE  TypeOK'
<1> DEFINE With(f, new, value) == [j \in Items \cup {new} |-> IF j = new THEN value ELSE f[j]]
<1>1. PICK i \in Newer(ItemIds, Items) :
          /\ stageOf' = With(stageOf, i, s)
          /\ swiss' = IF isSwiss THEN swiss \cup {i} ELSE swiss
          /\ inputs' = With(inputs, i, [k \in Slots |-> EmptyInput])
          /\ paired' = With(paired, i, IF isSwiss THEN {} ELSE Slots)
          /\ played' = With(played, i, {})
          /\ order' = With(order, i, BySlot)
  BY DEF CreateStageItem
<1>2. /\ Items' = Items \cup {i} /\ i \in ItemIds
      /\ UNCHANGED <<stages, active, replaced, gap>>
      /\ changes < MaxChanges /\ changes' = changes + 1
  BY <1>1 DEF CreateStageItem, Items, Change, Newer
<1>3. EmptyInput \in InputsFrom(Items')
  BY StageAssumption DEF EmptyInput, Input, InputsFrom
<1>4. \A j \in Items' : DOMAIN inputs'[j] \subseteq Slots
  BY <1>1, <1>2 DEF TypeOK
<1>5. ASSUME NEW j \in Items', NEW k \in DOMAIN inputs'[j]
      PROVE  inputs'[j][k] \in InputsFrom(Items')
  BY <1>1, <1>2, <1>3 DEF TypeOK, InputsFrom
<1>6. \A j \in Items' : played'[j] \subseteq paired'[j] /\ order'[j] \in Orders
  BY <1>1, <1>2, StandingsAreOrders DEF TypeOK
<1>7. \A j \in Items' : stageOf'[j] \in stages'
  BY <1>1, <1>2 DEF TypeOK
<1>8. changes' \in 0 .. MaxChanges
  BY <1>2, StageAssumption DEF TypeOK
<1>9. /\ DOMAIN inputs' = Items' /\ DOMAIN paired' = Items'
      /\ DOMAIN played' = Items' /\ DOMAIN order' = Items'
      /\ swiss' \subseteq Items' /\ Items' \subseteq ItemIds
  BY <1>1, <1>2 DEF TypeOK
<1> QED
  BY <1>2, <1>4, <1>5, <1>6, <1>7, <1>8, <1>9 DEF TypeOK, Orders

LEMMA DeleteStageItemTypes ==
    ASSUME TypeOK, NEW i \in Items, DeleteStageItem(i)
    PROVE  TypeOK'
<1> DEFINE kept == Items \ {i}
<1>1. /\ stageOf' = [j \in kept |-> stageOf[j]]
      /\ swiss' = swiss \ {i}
      /\ inputs' = [j \in kept |-> [k \in DOMAIN inputs[j] \ FedBy(i, j) |-> inputs[j][k]]]
      /\ paired' = [j \in kept |-> paired[j]]
      /\ played' = [j \in kept |-> played[j]]
      /\ order' = [j \in kept |-> order[j]]
      /\ UNCHANGED <<stages, active, replaced, gap>>
      /\ changes < MaxChanges /\ changes' = changes + 1
  BY DEF DeleteStageItem, Removed, Change
<1>2. Items' = kept
  BY <1>1 DEF Items
<1>3. ASSUME NEW j \in Items', NEW k \in DOMAIN inputs'[j]
      PROVE  /\ k \in Slots
             /\ inputs'[j][k] \in InputsFrom(Items')
  <2>1. /\ k \in DOMAIN inputs[j] /\ k \notin FedBy(i, j)
        /\ inputs'[j][k] = inputs[j][k]
        /\ j \in Items
    BY <1>1, <1>2
  <2>2. inputs[j][k].from # i
    BY <2>1 DEF FedBy
  <2> QED
    BY <1>2, <2>1, <2>2 DEF TypeOK, InputsFrom
<1>4. \A j \in Items' : /\ played'[j] \subseteq paired'[j] /\ order'[j] \in Orders
                        /\ stageOf'[j] \in stages'
  BY <1>1, <1>2 DEF TypeOK
<1>5. changes' \in 0 .. MaxChanges
  BY <1>1, StageAssumption DEF TypeOK
<1>6. /\ DOMAIN inputs' = Items' /\ DOMAIN paired' = Items'
      /\ DOMAIN played' = Items' /\ DOMAIN order' = Items'
      /\ swiss' \subseteq Items' /\ Items' \subseteq ItemIds
  BY <1>1, <1>2 DEF TypeOK
<1> QED
  BY <1>1, <1>3, <1>4, <1>5, <1>6 DEF TypeOK, Orders

(* A changed input has an existing source, or none.                         *)
LEMMA UpdateInputTypes ==
    ASSUME TypeOK, NEW i \in Items, NEW k \in DOMAIN inputs[i], UpdateInput(i, k)
    PROVE  TypeOK'
<1>1. PICK body \in InputBodies : inputs' = [inputs EXCEPT ![i][k] = body]
  BY DEF UpdateInput
<1>2. /\ UNCHANGED <<stages, active, stageOf, swiss, results, gap>> /\ replaced' = TRUE
      /\ Items' = Items
      /\ changes < MaxChanges /\ changes' = changes + 1
  BY DEF UpdateInput, Items, Change
<1>3. body \in InputsFrom(Items)
  BY StageAssumption
     DEF InputBodies, InputsFrom, EmptyInput, TeamInput, TentativeInput, Input, Slots
<1>4. /\ DOMAIN inputs' = DOMAIN inputs
      /\ \A j \in Items : DOMAIN inputs'[j] = DOMAIN inputs[j]
      /\ \A j \in Items : \A l \in DOMAIN inputs[j] : inputs'[j][l] \in {inputs[j][l], body}
  BY <1>1 DEF TypeOK
<1>5. changes' \in 0 .. MaxChanges
  BY <1>2, StageAssumption DEF TypeOK
<1> QED
  BY <1>2, <1>3, <1>4, <1>5 DEF TypeOK, results, Orders

(* Creating and deleting matches and entering scores.                       *)
LEMMA MatchesTypes ==
    ASSUME TypeOK, NEW i \in Items, AddMatches(i) \/ RemoveMatches(i) \/ Play(i)
    PROVE  TypeOK'
<1>1. /\ UNCHANGED <<stages, active, stageOf, swiss, inputs, replaced, gap>>
      /\ Items' = Items
  BY DEF AddMatches, RemoveMatches, Play, Items
<1>2. changes' \in 0 .. MaxChanges
  BY StageAssumption DEF AddMatches, RemoveMatches, Play, Change, TypeOK
<1>3. /\ DOMAIN paired' = Items /\ DOMAIN played' = Items /\ DOMAIN order' = Items
      /\ \A j \in Items : played'[j] \subseteq paired'[j] /\ order'[j] \in Orders
  <2>1. CASE AddMatches(i)
    BY <2>1 DEF AddMatches, TypeOK
  <2>2. CASE RemoveMatches(i)
    BY <2>2, StandingsAreOrders DEF RemoveMatches, TypeOK
  <2>3. CASE Play(i)
    BY <2>3, StandingsAreOrders DEF Play, TypeOK
  <2> QED
    BY <2>1, <2>2, <2>3
<1> QED
  BY <1>1, <1>2, <1>3 DEF TypeOK, Orders

(* Every step keeps the types. *)
LEMMA StepTypes == TypeOK /\ IInv /\ [Next]_vars => TypeOK'
<1> SUFFICES ASSUME TypeOK, IInv, [Next]_vars
             PROVE  TypeOK'
  OBVIOUS
<1>1. CASE CreateStage
  <2>1. PICK s \in Newer(StageIds, stages) : stages' = stages \cup {s}
    BY <1>1 DEF CreateStage
  <2>2. changes' \in 0 .. MaxChanges
    BY <1>1, StageAssumption DEF CreateStage, Change, TypeOK
  <2> QED
    BY <1>1, <2>1, <2>2 DEF CreateStage, results, TypeOK, Items, Newer, InputsFrom, Orders
<1>2. ASSUME NEW s \in stages, DeleteStage(s)
      PROVE  TypeOK'
  <2>1. changes' \in 0 .. MaxChanges
    BY <1>2, StageAssumption DEF DeleteStage, Change, TypeOK
  <2>2. gap' \in BOOLEAN
    BY <1>2 DEF DeleteStage
  <2>3. \A i \in Items : stageOf[i] \in stages'
    BY <1>2 DEF DeleteStage, ItemsOf, TypeOK
  <2> QED
    BY <1>2, <2>1, <2>2, <2>3 DEF DeleteStage, results, TypeOK, Items, InputsFrom, Orders
<1>3. CASE ActivateNext
  BY <1>3, ActivateNextTypes
<1>4. CASE ActivatePrevious
  BY <1>4, ActivatePreviousTypes
<1>5. CASE \E s \in stages, isSwiss \in BOOLEAN : CreateStageItem(s, isSwiss)
  BY <1>5, CreateStageItemTypes
<1>6. CASE \E i \in Items : DeleteStageItem(i)
  BY <1>6, DeleteStageItemTypes
<1>7. CASE \E i \in Items : \E k \in DOMAIN inputs[i] : UpdateInput(i, k)
  BY <1>7, UpdateInputTypes
<1>8. CASE \E i \in Items : AddMatches(i) \/ RemoveMatches(i) \/ Play(i)
  BY <1>8, MatchesTypes
<1>9. CASE UNCHANGED vars
  BY <1>9 DEF vars, results, TypeOK, Items, InputsFrom, Orders
<1> QED
  BY <1>1, <1>2, <1>3, <1>4, <1>5, <1>6, <1>7, <1>8, <1>9 DEF Next

(* Every variable keeps its type; above all the source of an input exists   *)
(* as long as the input does (sql_delete_stage_item_inputs).                *)
THEOREM TypeCorrect == Spec => []TypeOK
<1> QED
  BY InitTypes, StepTypes, InitInvariant, StepInvariant, PTL DEF Spec

----------------------------------------------------------------------------
(* Derived teams. *)

(* The team looked up for an input is still in the source.  In a source of  *)
(* a later stage it was put by the organiser: nothing had been looked up    *)
(* there, and deactivating that stage will not take it away.                *)
SourceKeeps(i, k) ==
    LET source == inputs[inputs[i][k].from] IN
    \/ DOMAIN source # Slots
    \/ \E l \in Slots :
          /\ source[l].team = inputs[i][k].team
          /\ stageOf[inputs[i][k].from] > stageOf[i] => source[l].from = None

DerivedInv ==
    (~replaced /\ ~gap) =>
        \A i \in Items : \A k \in DOMAIN inputs[i] :
            IsResolved(inputs[i][k]) => SourceKeeps(i, k)

(* Stages are numbers, so that two of them are before and after each other. *)
LEMMA StagesAreNat ==
    ASSUME TypeOK
    PROVE  /\ \A i \in Items : stageOf[i] \in stages /\ stageOf[i] \in Nat
           /\ stages \subseteq Nat /\ active \subseteq Nat
  BY StageAssumption DEF TypeOK

(* Looking a team up: it is in the source, which keeps it in the same step. *)
LEMMA ActivateNextDerived ==
    ASSUME TypeOK, IInv, DerivedInv, ActivateNext
    PROVE  DerivedInv'
<1> DEFINE next == NextStage
<1>1. /\ next \in stages
      /\ \A a \in active : next > a
  BY NextStageIsLater DEF IInv, ActivateNext
<1>2. /\ inputs' = [i \in Items |-> IF stageOf[i] = next THEN Resolved(inputs[i])
                                                         ELSE inputs[i]]
      /\ \A i \in Items : stageOf[i] = next =>
            \A k \in DOMAIN inputs[i] : IsTentative(inputs[i][k]) => HasTarget(inputs[i][k])
      /\ stageOf' = stageOf /\ Items' = Items /\ replaced' = replaced /\ gap' = gap
      /\ Slots' = Slots
  BY DEF ActivateNext, Items, ItemsOf, Slots
<1> HIDE DEF next
<1>3. \A i \in Items : DOMAIN (inputs'[i]) = DOMAIN inputs[i]
  BY <1>2 DEF Resolved
<1>4. \A i \in Items : \A k \in DOMAIN inputs[i] :
          /\ inputs'[i][k].from = inputs[i][k].from
          /\ inputs[i][k].team # None => inputs'[i][k] = inputs[i][k]
          /\ inputs'[i][k] # inputs[i][k] =>
                /\ stageOf[i] = next /\ IsTentative(inputs[i][k])
                /\ inputs'[i][k].team = Target(inputs[i][k]).team
  <2> TAKE i \in Items
  <2> TAKE k \in DOMAIN inputs[i]
  <2>1. inputs[i][k] \in InputsFrom(Items)
    BY DEF TypeOK
  <2>2. CASE stageOf[i] = next /\ IsTentative(inputs[i][k])
    <3>1. inputs'[i][k] = [inputs[i][k] EXCEPT !.team = Target(inputs[i][k]).team]
      BY <1>2, <2>2 DEF Resolved
    <3> QED
      BY <2>1, <2>2, <3>1 DEF InputsFrom, IsTentative
  <2>3. CASE ~(stageOf[i] = next /\ IsTentative(inputs[i][k]))
    <3>1. inputs'[i][k] = inputs[i][k]
      BY <1>2, <2>3 DEF Resolved
    <3> QED
      BY <3>1
  <2> QED
    BY <2>2, <2>3
<1> SUFFICES ASSUME ~replaced, ~gap,
                    NEW i \in Items, NEW k \in DOMAIN inputs[i], IsResolved(inputs'[i][k])
             PROVE  SourceKeeps(i, k)'
  BY <1>2, <1>3 DEF DerivedInv
<1> DEFINE j == inputs[i][k].from
<1>5. j \in Items /\ inputs'[i][k].from = j
  BY <1>4 DEF TypeOK, InputsFrom, IsResolved
<1> HIDE DEF j
<1> SUFFICES ASSUME DOMAIN inputs[j] = Slots
             PROVE  \E l \in Slots :
                       /\ inputs'[j][l].team = inputs'[i][k].team
                       /\ stageOf[j] > stageOf[i] => inputs'[j][l].from = None
  BY <1>2, <1>3, <1>5 DEF SourceKeeps
<1>6. CASE inputs'[i][k] = inputs[i][k]
  <2>1. PICK l \in Slots : /\ inputs[j][l].team = inputs[i][k].team
                           /\ stageOf[j] > stageOf[i] => inputs[j][l].from = None
    BY <1>6 DEF DerivedInv, SourceKeeps, j
  <2>2. inputs[j][l].team # None
    BY <1>6, <2>1 DEF IsResolved
  <2>3. inputs'[j][l] = inputs[j][l]
    BY <1>4, <1>5, <2>2
  <2> QED
    BY <1>6, <2>1, <2>3
<1>7. CASE inputs'[i][k] # inputs[i][k]
  <2>1. /\ stageOf[i] = next
        /\ HasTarget(inputs[i][k])
        /\ inputs'[i][k].team = Target(inputs[i][k]).team
    BY <1>2, <1>4, <1>7
  <2>2. PICK l \in Slots : /\ Target(inputs[i][k]) = inputs[j][l]
                           /\ inputs[j][l].team # None
    BY <2>1, TargetIsInput DEF j
  <2>3. inputs'[j][l] = inputs[j][l]
    BY <1>4, <1>5, <2>2
  <2>4. ASSUME stageOf[j] > stageOf[i]
        PROVE  inputs[j][l].from = None
    <3>1. \A a \in active : stageOf[j] > a
      BY <1>1, <1>5, <2>1, <2>4, StagesAreNat
    <3>2. ~IsResolved(inputs[j][l])
      BY <1>5, <3>1 DEF IInv, LaterStagesUnresolved
    <3> QED
      BY <2>2, <3>2 DEF IsResolved
  <2> QED
    BY <2>1, <2>2, <2>3, <2>4
<1> QED
  BY <1>6, <1>7

(* Going back: the stage that is left is emptied, and what was looked up    *)
(* from it is in the stage itself, or in an earlier one from a team that    *)
(* was not looked up.                                                       *)
LEMMA ActivatePreviousDerived ==
    ASSUME TypeOK, IInv, DerivedInv, ActivatePrevious
    PROVE  DerivedInv'
<1>1. /\ inputs' = [i \in Items |-> IF stageOf[i] \in active THEN Unresolved(inputs[i])
                                                             ELSE inputs[i]]
      /\ stageOf' = stageOf /\ Items' = Items /\ replaced' = replaced /\ gap' = gap
      /\ Slots' = Slots
  BY DEF ActivatePrevious, Deactivate, Items, Slots
<1>2. \A i \in Items : DOMAIN (inputs'[i]) = DOMAIN inputs[i]
  BY <1>1 DEF Unresolved
<1>3. \A i \in Items : \A k \in DOMAIN inputs[i] :
          /\ IsResolved(inputs'[i][k]) =>
                stageOf[i] \notin active /\ inputs'[i][k] = inputs[i][k]
          /\ stageOf[i] \notin active \/ inputs[i][k].from = None =>
                inputs'[i][k] = inputs[i][k]
  BY <1>1 DEF Unresolved, IsResolved, TypeOK, InputsFrom
<1> SUFFICES ASSUME ~replaced, ~gap,
                    NEW i \in Items, NEW k \in DOMAIN inputs[i], IsResolved(inputs'[i][k])
             PROVE  SourceKeeps(i, k)'
  BY <1>1, <1>2 DEF DerivedInv
<1> DEFINE j == inputs[i][k].from
<1>4. /\ inputs'[i][k] = inputs[i][k] /\ stageOf[i] \notin active
      /\ IsResolved(inputs[i][k])
      /\ j \in Items
  BY <1>3 DEF TypeOK, InputsFrom, IsResolved
<1> SUFFICES ASSUME DOMAIN inputs[j] = Slots
             PROVE  \E l \in Slots :
                       /\ inputs'[j][l].team = inputs[i][k].team
                       /\ stageOf[j] > stageOf[i] => inputs'[j][l].from = None
  BY <1>1, <1>2, <1>4 DEF SourceKeeps
<1>5. PICK l \in Slots : /\ inputs[j][l].team = inputs[i][k].team
                         /\ stageOf[j] > stageOf[i] => inputs[j][l].from = None
  BY <1>4 DEF DerivedInv, SourceKeeps
<1>6. stageOf[j] \in active => stageOf[j] > stageOf[i]
  <2> SUFFICES ASSUME stageOf[j] \in active, ~(stageOf[j] > stageOf[i])
               PROVE  FALSE
    OBVIOUS
  <2>1. stageOf[i] # stageOf[j] /\ stageOf[i] \in Nat /\ stageOf[j] \in Nat
    BY <1>4, StagesAreNat
  <2>2. \A a \in active : a = stageOf[j]
    BY DEF IInv
  <2>3. \A a \in active : stageOf[i] > a
    BY <2>1, <2>2
  <2> QED
    BY <1>4, <2>3 DEF IInv, LaterStagesUnresolved
<1>7. inputs'[j][l] = inputs[j][l]
  BY <1>3, <1>4, <1>5, <1>6
<1> QED
  BY <1>5, <1>7

(* A new stage item has empty inputs and is the source of none.             *)
LEMMA CreateStageItemDerived ==
    ASSUME TypeOK, DerivedInv,
           NEW s \in stages, NEW isSwiss \in BOOLEAN, CreateStageItem(s, isSwiss)
    PROVE  DerivedInv'
<1> DEFINE With(f, new, value) == [j \in Items \cup {new} |-> IF j = new THEN value ELSE f[j]]
<1>1. PICK new \in Newer(ItemIds, Items) :
          /\ stageOf' = With(stageOf, new, s)
          /\ inputs' = With(inputs, new, [k \in Slots |-> EmptyInput])
  BY DEF CreateStageItem
<1>2. /\ Items' = Items \cup {new} /\ replaced' = replaced /\ gap' = gap
      /\ new \notin Items /\ Slots' = Slots
  <2>1. new \in Nat
    BY StageAssumption DEF Newer
  <2>2. new \notin Items
    BY <2>1 DEF Newer
  <2> QED
    BY <1>1, <2>2 DEF CreateStageItem, Items, Slots
<1>3. \A j \in Items : inputs'[j] = inputs[j] /\ stageOf'[j] = stageOf[j]
  BY <1>1, <1>2
<1>4. \A k \in DOMAIN inputs'[new] : ~IsResolved(inputs'[new][k])
  BY <1>1 DEF IsResolved, EmptyInput, Input
<1> SUFFICES ASSUME ~replaced, ~gap,
                    NEW i \in Items, NEW k \in DOMAIN inputs[i], IsResolved(inputs[i][k])
             PROVE  SourceKeeps(i, k)'
  BY <1>2, <1>3, <1>4 DEF DerivedInv
<1>5. inputs[i][k].from \in Items
  BY DEF TypeOK, InputsFrom, IsResolved
<1>6. SourceKeeps(i, k)
  BY DEF DerivedInv
<1> QED
  BY <1>2, <1>3, <1>5, <1>6 DEF SourceKeeps

(* Deleting a stage item takes the inputs it feeds, some of which others    *)
(* may have been looked up from: those stage items are not whole any more.  *)
LEMMA DeleteStageItemDerived ==
    ASSUME TypeOK, DerivedInv, NEW d \in Items, DeleteStageItem(d)
    PROVE  DerivedInv'
<1> DEFINE kept == Items \ {d}
<1>1. /\ stageOf' = [j \in kept |-> stageOf[j]]
      /\ inputs' = [j \in kept |-> [k \in DOMAIN inputs[j] \ FedBy(d, j) |-> inputs[j][k]]]
      /\ replaced' = replaced /\ gap' = gap /\ Slots' = Slots
  BY DEF DeleteStageItem, Removed, Slots
<1>2. Items' = kept
  BY <1>1 DEF Items
<1>3. \A j \in kept : /\ DOMAIN inputs'[j] = DOMAIN inputs[j] \ FedBy(d, j)
                      /\ stageOf'[j] = stageOf[j]
                      /\ \A k \in DOMAIN inputs'[j] : inputs'[j][k] = inputs[j][k]
  BY <1>1
<1> SUFFICES ASSUME ~replaced, ~gap,
                    NEW i \in kept, NEW k \in DOMAIN inputs'[i], IsResolved(inputs'[i][k])
             PROVE  SourceKeeps(i, k)'
  BY <1>1, <1>2 DEF DerivedInv
<1> DEFINE j == inputs[i][k].from
<1>4. /\ k \in DOMAIN inputs[i] /\ inputs'[i][k] = inputs[i][k]
      /\ IsResolved(inputs[i][k])
  BY <1>3
<1>5. j \in kept
  BY <1>3, <1>4 DEF TypeOK, InputsFrom, IsResolved, FedBy
<1>6. SourceKeeps(i, k)
  BY <1>4 DEF DerivedInv
<1>7. CASE DOMAIN inputs'[j] # Slots
  BY <1>1, <1>4, <1>7 DEF SourceKeeps
<1>8. CASE DOMAIN inputs'[j] = Slots
  <2>1. DOMAIN inputs[j] = Slots
    BY <1>3, <1>5, <1>8 DEF TypeOK
  <2>2. PICK l \in Slots : /\ inputs[j][l].team = inputs[i][k].team
                           /\ stageOf[j] > stageOf[i] => inputs[j][l].from = None
    BY <1>6, <2>1 DEF SourceKeeps
  <2>3. inputs'[j][l] = inputs[j][l] /\ stageOf'[j] = stageOf[j] /\ stageOf'[i] = stageOf[i]
    BY <1>3, <1>5, <1>8
  <2> QED
    BY <1>1, <1>4, <2>2, <2>3 DEF SourceKeeps
<1> QED
  BY <1>7, <1>8

(* Every step keeps teams in their sources. *)
LEMMA StepDerived == TypeOK /\ IInv /\ DerivedInv /\ [Next]_vars => DerivedInv'
<1> SUFFICES ASSUME TypeOK, IInv, DerivedInv, [Next]_vars
             PROVE  DerivedInv'
  OBVIOUS
<1>1. ASSUME UNCHANGED <<stageOf, inputs, replaced, gap>>
      PROVE  DerivedInv'
  BY <1>1 DEF DerivedInv, SourceKeeps, Items
<1>2. CASE CreateStage
  BY <1>1, <1>2 DEF CreateStage
<1>3. ASSUME NEW s \in stages, DeleteStage(s)
      PROVE  DerivedInv'
  <2>1. /\ UNCHANGED <<stageOf, inputs, replaced>>
        /\ ~gap' => ~gap
    BY <1>3 DEF DeleteStage
  <2>2. Items' = Items /\ Slots' = Slots
    BY <2>1 DEF Items, Slots
  <2> QED
    BY <2>1, <2>2 DEF DerivedInv, SourceKeeps
<1>4. CASE ActivateNext
  BY <1>4, ActivateNextDerived
<1>5. CASE ActivatePrevious
  BY <1>5, ActivatePreviousDerived
<1>6. CASE \E s \in stages, isSwiss \in BOOLEAN : CreateStageItem(s, isSwiss)
  BY <1>6, CreateStageItemDerived
<1>7. CASE \E i \in Items : DeleteStageItem(i)
  BY <1>7, DeleteStageItemDerived
<1>8. CASE \E i \in Items : \E k \in DOMAIN inputs[i] : UpdateInput(i, k)
  BY <1>8 DEF UpdateInput, DerivedInv
<1>9. CASE \E i \in Items : AddMatches(i) \/ RemoveMatches(i) \/ Play(i)
  BY <1>1, <1>9 DEF AddMatches, RemoveMatches, Play
<1>10. CASE UNCHANGED vars
  BY <1>1, <1>10 DEF vars
<1> QED
  BY <1>2, <1>3, <1>4, <1>5, <1>6, <1>7, <1>8, <1>9, <1>10 DEF Next

(* However the organiser goes back and forth, a team that was looked up is  *)
(* in the stage item it came from, unless an input was replaced, inputs     *)
(* went with a deleted stage item or the active stage was deleted           *)
(* (update_matches_in_deactivated_stage, sql_delete_stage_item_inputs).     *)
THEOREM TeamsStayInSource == Spec => []DerivedTeamsAreInSource
<1>1. Init => DerivedInv
  <2> SUFFICES ASSUME Init
               PROVE  DerivedInv
    OBVIOUS
  <2>1. \A i \in Items : \A k \in DOMAIN inputs[i] : ~IsResolved(inputs[i][k])
    BY SetupAssumption DEF Init, Items
  <2> QED
    BY <2>1 DEF DerivedInv
<1>2. DerivedInv => DerivedTeamsAreInSource
  BY DEF DerivedInv, SourceKeeps, DerivedTeamsAreInSource
<1> QED
  BY <1>1, <1>2, InitTypes, StepTypes, InitInvariant, StepInvariant, StepDerived, PTL DEF Spec
=============================================================================
