--------------------------- MODULE StageLifecycle ---------------------------
(***************************************************************************)
(* The stages of one tournament, the stage items in them and where the     *)
(* inputs of a stage item come from.  An input is empty, a team put there  *)
(* by the organiser, or the team that ends at some position of another     *)
(* stage item; the last kind is tentative until its stage is activated,    *)
(* which looks the team up in the standings, and again after its stage is  *)
(* deactivated.  Requests run one at a time, each in a transaction: one    *)
(* that fails (a 400, a failed assertion, a violated constraint) changes   *)
(* nothing and is not a step.                                              *)
(*                                                                         *)
(* Bounds: StageIds and ItemIds (the database does not reuse an id; here a *)
(* deleted one may return, which is the same, as nothing refers to it any  *)
(* more); every stage item has TeamCount inputs; Setups, the tournaments   *)
(* to start from; MaxChanges, how often stages, stage items, inputs or the *)
(* rounds of Swiss stage items are changed after that.  How often stages   *)
(* are activated and scores are entered is not bounded.                    *)
(***************************************************************************)
EXTENDS Naturals, FiniteSets, FiniteSetsExt

CONSTANTS StageIds, ItemIds, Teams, TeamCount, Setups, MaxChanges, None

ASSUME StageAssumption ==
    /\ StageIds \subseteq Nat \ {0}
    /\ \E last \in StageIds : \A s \in StageIds : s <= last
    /\ ItemIds \subseteq Nat \ {0}
    /\ TeamCount \in Nat \ {0}
    /\ MaxChanges \in Nat
    /\ None \notin Teams \cup ItemIds

VARIABLES
    stages,     \* the stages that exist
    active,     \* those whose is_active is set
    stageOf,    \* the stage of each stage item that exists
    swiss,      \* the stage items whose rounds are made one by one
    inputs,     \* the inputs of each stage item, by slot
    paired,     \* the slots of each stage item that are in some match
    played,     \* those that are in a match with a score
    order,      \* the rank of each slot by its results, best first
    changes,    \* how many changes were made (bound)
    replaced,   \* history: an input was changed
    gap         \* history: an active stage was deleted

results == <<paired, played, order>>
vars == <<stages, active, stageOf, swiss, inputs, results, changes, replaced, gap>>

Items == DOMAIN stageOf
Slots == 1 .. TeamCount
ItemsOf(s) == {i \in Items : stageOf[i] = s}

----------------------------------------------------------------------------
(* Inputs: team_id, winner_from_stage_item_id and winner_position.          *)

Input(team, from, position) == [team |-> team, from |-> from, position |-> position]
EmptyInput == Input(None, None, 0)
TeamInput(t) == Input(t, None, 0)
TentativeInput(i, p) == Input(None, i, p)

(* What the organiser can put in a slot: any stage item of the tournament   *)
(* may be the source, also a later one or the stage item itself.            *)
InputBodies ==
    {EmptyInput} \cup {TeamInput(t) : t \in Teams}
        \cup {TentativeInput(i, p) : i \in Items, p \in Slots}

(* All inputs whose source, if any, is in sources. *)
InputsFrom(sources) ==
    [team : Teams \cup {None}, from : sources \cup {None}, position : 0 .. TeamCount]

IsTentative(input) == input.team = None /\ input.from # None
IsResolved(input) == input.team # None /\ input.from # None

(* Nothing has been looked up in a tournament that is not started. *)
ASSUME SetupAssumption ==
    \A setup \in Setups :
        /\ setup.stages \subseteq StageIds
        /\ DOMAIN setup.stageOf \subseteq ItemIds
        /\ \A i \in DOMAIN setup.stageOf : setup.stageOf[i] \in setup.stages
        /\ setup.swiss \subseteq DOMAIN setup.stageOf
        /\ DOMAIN setup.inputs = DOMAIN setup.stageOf
        /\ \A i \in DOMAIN setup.stageOf :
              /\ DOMAIN setup.inputs[i] = Slots
              /\ \A k \in Slots :
                    /\ setup.inputs[i][k] \in InputsFrom(DOMAIN setup.stageOf)
                    /\ ~IsResolved(setup.inputs[i][k])

(* The unique constraints on the inputs of one stage item; NULLs differ. *)
Unique(bySlot) ==
    \A k, l \in DOMAIN bySlot : k # l =>
        /\ bySlot[k].team # None => bySlot[k].team # bySlot[l].team
        /\ bySlot[k].from # None =>
              <<bySlot[k].from, bySlot[k].position>> # <<bySlot[l].from, bySlot[l].position>>

BySlot == [k \in Slots |-> k]
Orders == {o \in [Slots -> Slots] : \A k, l \in Slots : o[k] = o[l] => k = l}

(* The inputs of a stage item that are ranked have a team or have played; a *)
(* position counts the ranked inputs that are not worse.                    *)
Ranked(i) == {k \in DOMAIN inputs[i] : inputs[i][k].team # None \/ k \in played[i]}

AtPosition(i, p) ==
    {k \in Ranked(i) : Cardinality({l \in Ranked(i) : order[i][l] <= order[i][k]}) = p}

TypeOK ==
    /\ stages \subseteq StageIds
    /\ active \subseteq stages
    /\ Items \subseteq ItemIds
    /\ \A i \in Items : stageOf[i] \in stages
    /\ swiss \subseteq Items
    /\ \A domain \in {DOMAIN inputs, DOMAIN paired, DOMAIN played, DOMAIN order} :
          domain = Items
    /\ \A i \in Items :
          /\ DOMAIN inputs[i] \subseteq Slots
          /\ \A k \in DOMAIN inputs[i] : inputs[i][k] \in InputsFrom(Items)
          /\ played[i] \subseteq paired[i]
          /\ order[i] \in Orders
    /\ changes \in 0 .. MaxChanges
    /\ replaced \in BOOLEAN
    /\ gap \in BOOLEAN

----------------------------------------------------------------------------
(* Stages. *)

(* Bound *)
Change == changes < MaxChanges /\ changes' = changes + 1

Newer(ids, used) == {n \in ids : \A u \in used : n > u}

CreateStage ==
    /\ Change
    /\ \E s \in Newer(StageIds, stages) : stages' = stages \cup {s}
    /\ UNCHANGED <<active, stageOf, swiss, inputs, results, replaced, gap>>

(* DELETE stages/{s}: refused only if the stage has stage items. *)
DeleteStage(s) ==
    /\ s \in stages
    /\ ItemsOf(s) = {}
    /\ Change
    /\ stages' = stages \ {s}
    /\ active' = active \ {s}
    /\ gap' = (gap \/ s \in active)
    /\ UNCHANGED <<stageOf, swiss, inputs, results, replaced>>

(* Seeded fault: "next" is the first inactive stage, wherever it is. *)
FirstInactiveStage ==
    IF stages \subseteq active THEN 0 ELSE Min(stages \ active)

(* The stage that "next" activates: the first inactive one after the active *)
(* stage, or after none.                                                    *)
NextStage ==
    LET after == {s \in stages \ active : active # {} => s > Min(active)}
    IN  IF after = {} THEN 0 ELSE Min(after)

(* Seeded fault: the first of the stages before the active one. *)
FirstStageBefore ==
    LET before == {s \in stages \ active : active # {} => s < Max(active)}
    IN  IF before = {} THEN 0 ELSE Min(before)

(* ... and "previous": the last inactive one before the active stage, or    *)
(* the last of all.                                                         *)
PreviousStage ==
    LET before == {s \in stages \ active : active # {} => s < Max(active)}
    IN  IF before = {} THEN 0 ELSE Max(before)

(* Seeded fault: the active stage stays active. *)
AlsoActivate(s) == active' = active \cup {s}

Activate(s) == active' = {s}

(* The input whose team a tentative input gets. *)
Target(input) == inputs[input.from][CHOOSE k \in AtPosition(input.from, input.position) : TRUE]

HasTarget(input) ==
    AtPosition(input.from, input.position) # {} /\ Target(input).team # None

Resolved(bySlot) ==
    [k \in DOMAIN bySlot |->
        IF IsTentative(bySlot[k]) THEN [bySlot[k] EXCEPT !.team = Target(bySlot[k]).team]
                                  ELSE bySlot[k]]

(* Activating the next stage fills its tentative inputs from the standings, *)
(* or fails if a position has no team yet or a team would be there twice.   *)
ActivateNext ==
    LET s == NextStage IN
    /\ s # 0
    /\ \A i \in ItemsOf(s) : \A k \in DOMAIN inputs[i] :
          IsTentative(inputs[i][k]) => HasTarget(inputs[i][k])
    /\ \A i \in ItemsOf(s) : Unique(Resolved(inputs[i]))
    /\ inputs' = [i \in Items |-> IF stageOf[i] = s THEN Resolved(inputs[i]) ELSE inputs[i]]
    /\ Activate(s)
    /\ UNCHANGED <<stages, stageOf, swiss, results, changes, replaced, gap>>

Unresolved(bySlot) ==
    [k \in DOMAIN bySlot |->
        IF bySlot[k].from # None THEN [bySlot[k] EXCEPT !.team = None] ELSE bySlot[k]]

(* Empties the derived inputs of a stage and clears the scores of its       *)
(* matches (update_matches_in_deactivated_stage).                           *)
Deactivate(left) ==
    /\ inputs' = [i \in Items |-> IF stageOf[i] \in left THEN Unresolved(inputs[i])
                                                         ELSE inputs[i]]
    /\ played' = [i \in Items |-> IF stageOf[i] \in left THEN {} ELSE played[i]]
    /\ order' = [i \in Items |-> IF stageOf[i] \in left THEN BySlot ELSE order[i]]

(* Seeded fault: the stage that becomes active is emptied. *)
DeactivateEntered ==
    /\ PreviousStage # 0
    /\ Deactivate({PreviousStage})
    /\ Activate(PreviousStage)
    /\ UNCHANGED <<stages, stageOf, swiss, paired, changes, replaced, gap>>

(* Activating the previous stage, which keeps its inputs as they are. *)
ActivatePrevious ==
    /\ PreviousStage # 0
    /\ Deactivate(active)
    /\ Activate(PreviousStage)
    /\ UNCHANGED <<stages, stageOf, swiss, paired, changes, replaced, gap>>

----------------------------------------------------------------------------
(* Stage items. *)

(* A round robin or elimination stage item gets all its matches at once; a  *)
(* Swiss one has none until a round is created.                             *)
CreateStageItem(s, isSwiss) ==
    /\ s \in stages
    /\ Change
    /\ \E i \in Newer(ItemIds, Items) :
          LET With(f, value) == [j \in Items \cup {i} |-> IF j = i THEN value ELSE f[j]] IN
          /\ stageOf' = With(stageOf, s)
          /\ swiss' = IF isSwiss THEN swiss \cup {i} ELSE swiss
          /\ inputs' = With(inputs, [k \in Slots |-> EmptyInput])
          /\ paired' = With(paired, IF isSwiss THEN {} ELSE Slots)
          /\ played' = With(played, {})
          /\ order' = With(order, BySlot)
    /\ UNCHANGED <<stages, active, replaced, gap>>

(* Seeded fault: inputs keep a source that no longer exists. *)
FedByNone(i, j) == {}

FedBy(i, j) == {k \in DOMAIN inputs[j] : inputs[j][k].from = i}

(* What DELETE stage_items/{i} leaves: not its inputs, nor those it feeds. *)
Removed(i) ==
    LET kept == Items \ {i}
        Without(f) == [j \in kept |-> f[j]]
    IN
    /\ Change
    /\ stageOf' = Without(stageOf)
    /\ swiss' = swiss \ {i}
    /\ inputs' = [j \in kept |-> [k \in DOMAIN inputs[j] \ FedBy(i, j) |-> inputs[j][k]]]
    /\ paired' = Without(paired)
    /\ played' = Without(played)
    /\ order' = Without(order)
    /\ UNCHANGED <<stages, active, replaced, gap>>

(* Seeded fault: only the inputs in matches with a score are protected. *)
DeleteUnplayed(i) ==
    /\ i \in Items
    /\ \A j \in Items \ {i} : FedBy(i, j) \cap played[j] = {}
    /\ Removed(i)

(* DELETE stage_items/{i}: refused if an input it feeds is in a match. *)
DeleteStageItem(i) ==
    /\ i \in Items
    /\ \A j \in Items \ {i} : FedBy(i, j) \cap paired[j] = {}
    /\ Removed(i)

(* PUT stage_items/{i}/inputs/{k} *)
UpdateInput(i, k) ==
    /\ Change
    /\ \E body \in InputBodies :
          /\ body # inputs[i][k]
          /\ inputs' = [inputs EXCEPT ![i][k] = body]
          /\ Unique(inputs'[i])
    /\ replaced' = TRUE
    /\ UNCHANGED <<stages, active, stageOf, swiss, results, gap>>

(* POST rounds and POST matches: more inputs of a Swiss stage item play. *)
AddMatches(i) ==
    /\ i \in swiss
    /\ Change
    /\ \E slots \in SUBSET DOMAIN inputs[i] :
          /\ Cardinality(slots) > 1
          /\ paired' = [paired EXCEPT ![i] = @ \cup slots]
    /\ UNCHANGED <<stages, active, stageOf, swiss, inputs, played, order, replaced, gap>>

Standings(slots) == IF slots = {} THEN {BySlot} ELSE Orders

(* DELETE rounds/{r}, of any stage item, and DELETE matches/{m}: what is    *)
(* left may be paired and scored in any way.                                *)
RemoveMatches(i) ==
    /\ Change
    /\ \E slots \in SUBSET paired[i], scored \in SUBSET played[i] :
          /\ 1 \notin {Cardinality(slots), Cardinality(scored)}
          /\ scored \subseteq slots
          /\ \E standing \in Standings(scored) :
                /\ paired' = [paired EXCEPT ![i] = slots]
                /\ played' = [played EXCEPT ![i] = scored]
                /\ order' = [order EXCEPT ![i] = standing]
    /\ UNCHANGED <<stages, active, stageOf, swiss, inputs, replaced, gap>>

(* Scores are entered or cleared, in any stage; with none, all are level. *)
Play(i) ==
    /\ \E scored \in SUBSET paired[i] :
          /\ Cardinality(scored) # 1
          /\ played' = [played EXCEPT ![i] = scored]
          /\ \E standing \in Standings(scored) : order' = [order EXCEPT ![i] = standing]
    /\ UNCHANGED <<stages, active, stageOf, swiss, inputs, paired, changes, replaced, gap>>

----------------------------------------------------------------------------

(* A tournament the organiser has set up and not started. *)
Init ==
    /\ \E setup \in Setups :
          /\ stages = setup.stages
          /\ stageOf = setup.stageOf
          /\ swiss = setup.swiss
          /\ inputs = setup.inputs
    /\ paired = [i \in Items |-> IF i \in swiss THEN {} ELSE Slots]
    /\ played = [i \in Items |-> {}]
    /\ order = [i \in Items |-> BySlot]
    /\ active = {} /\ changes = 0 /\ replaced = FALSE /\ gap = FALSE

Next ==
    \/ CreateStage
    \/ \E s \in stages : DeleteStage(s)
    \/ ActivateNext
    \/ ActivatePrevious
    \/ \E s \in stages, isSwiss \in BOOLEAN : CreateStageItem(s, isSwiss)
    \/ \E i \in Items : DeleteStageItem(i)
    \/ \E i \in Items : \E k \in DOMAIN inputs[i] : UpdateInput(i, k)
    \/ \E i \in Items : AddMatches(i) \/ RemoveMatches(i) \/ Play(i)

Spec == Init /\ [][Next]_vars

----------------------------------------------------------------------------

(* Deriving a team from a stage item that is still to be played would fix   *)
(* the next stage too early: a stage after the active one has no input that *)
(* was looked up, however the organiser went back and forth                 *)
(* (update_matches_in_deactivated_stage), unless the active stage was       *)
(* deleted.                                                                 *)
LaterStagesUnresolved ==
    ~gap => \A i \in Items : (\A a \in active : stageOf[i] > a) =>
                \A k \in DOMAIN inputs[i] : ~IsResolved(inputs[i][k])

(* At most one stage is active (sql_activate_next_stage). *)
OneActive == Cardinality(active) <= 1

(* When "next" activates a stage, each of its inputs that has a source gets *)
(* the team that is in its position of the standings now, also when the     *)
(* stage was active before (update_matches_in_activated_stage).             *)
ActivationUsesStandings ==
    [][(ActivateNext /\ ~gap) =>
          \A i \in Items : stageOf[i] \in active' =>
              \A k \in DOMAIN inputs[i] : inputs[i][k].from # None =>
                  /\ HasTarget(inputs[i][k])
                  /\ inputs'[i][k] = [inputs[i][k] EXCEPT !.team = Target(inputs[i][k]).team]]_vars

(* A team that was looked up is in the stage item it was looked up from:    *)
(* going back never takes a team from a stage item and leaves it in one     *)
(* that was fed by it.  Only the organiser can, by replacing the team or by *)
(* deleting a stage item, which takes inputs from those it fed              *)
(* (sql_delete_stage_item_inputs).                                          *)
DerivedTeamsAreInSource ==
    (~replaced /\ ~gap) =>
        \A i \in Items : \A k \in DOMAIN inputs[i] : IsResolved(inputs[i][k]) =>
            LET source == inputs[inputs[i][k].from] IN
            \/ DOMAIN source # Slots
            \/ \E l \in Slots : source[l].team = inputs[i][k].team

(* Every input that is in a match exists, whatever stage items are deleted  *)
(* (the foreign keys of matches).                                           *)
PairedInputsExist == \A i \in Items : paired[i] \subseteq DOMAIN inputs[i]

(* "Stage is active, please activate another stage first"                   *)
(* (delete_stage): once a stage is active some stage stays active.          *)
SomeStageStaysActive == [][active # {} => active' # {}]_vars
=============================================================================
