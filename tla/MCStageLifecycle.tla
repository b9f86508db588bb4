-------------------------- MODULE MCStageLifecycle --------------------------
(* StageLifecycle with three stages of one stage item each, every one fed   *)
(* by the one before, or by itself, or by the last; the second is Swiss.    *)
(* In one more setup the third stage is still to be created.                *)
EXTENDS StageLifecycle

CONSTANTS t, u

MCTeams == {t, u}

MCStages == 1 .. 3
MCItems == 1 .. 3

Fed(i) == <<TentativeInput(i, 1), TentativeInput(i, 2)>>
Crossed(i) == <<TentativeInput(i, 2), EmptyInput>>
Full == <<TeamInput(t), TeamInput(u)>>
Half == <<EmptyInput, TeamInput(t)>>

Setup(bySlots) ==
    [stages  |-> DOMAIN bySlots,
     stageOf |-> [i \in DOMAIN bySlots |-> i],
     swiss   |-> {2},
     inputs  |-> bySlots]

MCSetups ==
    {Setup(<<first, second, third>>) :
        first \in {Full, Half},
        second \in {Fed(1), Crossed(1), Fed(2), Crossed(3)},
        third \in {Fed(2), <<TentativeInput(1, 1), TeamInput(u)>>}}
    \cup {Setup(<<Full, Fed(1)>>)}
=============================================================================
