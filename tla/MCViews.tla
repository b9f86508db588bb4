------------------------------ MODULE MCViews ------------------------------
(***************************************************************************)
(* Tournaments to look at: a group whose first two meet in a final, a      *)
(* knockout bracket of eight, a Swiss stage with a draft round and matches *)
(* without a time, and a tournament that has no stages.                    *)
(***************************************************************************)
EXTENDS Views

Decisive == {<<0, 0>>, <<1, 0>>, <<0, 1>>}
B == INSTANCE BracketBuild

Entrant(n) == [slot |-> n, team |-> n, source |-> None, position |-> 0]
Derived(slot, item) == [slot |-> slot, team |-> None, source |-> item, position |-> slot]

Match(id, in, start) ==
    [id |-> id, inputs |-> in, from |-> <<None, None>>, start |-> start, score |-> <<0, 0>>]
Round(id, ids) == [id |-> id, matches |-> ids]
Item(id, type, in, rounds) == [id |-> id, type |-> type, inputs |-> in, rounds |-> rounds]
Stage(id, items) == [id |-> id, items |-> items]

GroupThenFinal ==
    [teams |-> 1..3, scores |-> Decisive \cup {<<1, 1>>}, start |-> 1, drafts |-> {},
     inputs |-> [n \in 1..3 |-> Entrant(n)] @@ (4 :> Derived(1, 1)) @@ (5 :> Derived(2, 1)),
     matches |-> <<Match(1, <<1, 3>>, 1), Match(2, <<1, 2>>, 2), Match(3, <<2, 3>>, 3),
                   Match(4, <<4, 5>>, NoTime)>>,
     stages |-> <<
        Stage(1, <<Item(1, "ROUND_ROBIN", <<1, 2, 3>>,
            <<Round(1, <<1>>), Round(2, <<2>>), Round(3, <<3>>)>>)>>),
        Stage(2, <<Item(2, "SINGLE_ELIMINATION", <<4, 5>>, <<Round(4, <<4>>)>>)>>)>>]

Knockout ==
    LET built == B!BuildSingleElimination(8)
        Start(r) == IF r = 3 THEN NoTime ELSE r - 1
    IN  [teams |-> 1..8, scores |-> Decisive, start |-> 0, drafts |-> {},
         inputs |-> [n \in 1..8 |-> Entrant(n)],
         matches |-> [id \in 1..7 |->
            LET m == CHOOSE x \in B!BuiltMatches(8) : x.id = id
            IN  [Match(id, m.inputs, Start(m.round)) EXCEPT !.from = m.from]],
         stages |-> <<Stage(1, <<Item(1, "SINGLE_ELIMINATION", [n \in 1..8 |-> n],
            [r \in 1..3 |-> Round(r, [n \in DOMAIN built[r] |-> built[r][n].id])])>>)>>]

Swiss ==
    [teams |-> 1..4, scores |-> Decisive \cup {<<1, 1>>}, start |-> 0, drafts |-> {2},
     inputs |-> [n \in 1..4 |-> Entrant(n)],
     matches |-> <<Match(1, <<1, 2>>, 1), Match(2, <<3, 4>>, 0), Match(3, <<1, 3>>, 0),
                   Match(4, <<2, 4>>, NoTime)>>,
     stages |-> <<Stage(1, <<Item(1, "SWISS", <<1, 2, 3, 4>>,
        <<Round(1, <<1, 2>>), Round(2, <<3, 4>>)>>)>>)>>]

NoStages == [teams |-> {}, scores |-> Decisive, start |-> 2, drafts |-> {}, inputs |-> <<>>, matches |-> <<>>,
             stages |-> <<>>]

MCTournaments == {GroupThenFinal, Knockout, Swiss, NoStages}
=============================================================================
