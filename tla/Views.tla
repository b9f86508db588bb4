-------------------------------- MODULE Views --------------------------------
(***************************************************************************)
(* What the pages of one tournament show: the same matches, results and    *)
(* ranks appear on the overview, the schedule, the big screens, the        *)
(* standings, the bracket and the page of each team, and each page works   *)
(* them out of the loaded tournament by itself.                            *)
(*                                                                         *)
(* The tournament changes as the backend changes it: scores come in and    *)
(* pass winners on, rounds are published, stages are activated, the        *)
(* tournament is archived, and time passes.  How requests interleave is    *)
(* the subject of the backend's modules; here each one is a step, and      *)
(* every page is drawn from the outcome.                                   *)
(*                                                                         *)
(* Of the ranking, points are kept as far as they order teams: a win is 2  *)
(* and a draw 1, and a Swiss rating is wins less losses instead of Elo.    *)
(***************************************************************************)
EXTENDS BracketDrawing

CONSTANTS
    Tournaments,  \* the tournaments to look at, as they are set up
    MaxTime       \* bound on the clock; a match takes one unit

ASSUME ViewsAssumption == MaxTime \in Nat

VARIABLES
    setup,      \* the tournament as it was set up, one of Tournaments
    match,      \* the match of each id, with its inputs and score
    team,       \* the team of each input, or None
    drafts,     \* the rounds that are not published
    active,     \* the position of the active stage, 0 before the first
    archived,
    now

vars == <<setup, match, team, drafts, active, archived, now>>

NoTime == Unplaced

Concat(seqs) == FlattenSeq(seqs)
Each(seq, Op(_)) == [i \in DOMAIN seq |-> Op(seq[i])]

----------------------------------------------------------------------------
(* The tournament as it is loaded. *)

Stages == setup.stages
Items == Concat(Each(Stages, LAMBDA s : s.items))
ItemWithId(id) == CHOOSE i \in ToSet(Items) : i.id = id
Inputs == setup.inputs
Teams == setup.teams

(* The pages are given no draft rounds. *)
withoutDraftRounds(rounds) == SelectSeq(rounds, LAMBDA r : r.id \notin drafts)

RoundMatches(round) == Each(round.matches, LAMBDA id : match[id])

Rounds(item) == Each(withoutDraftRounds(item.rounds), RoundMatches)

----------------------------------------------------------------------------
(* Inputs and stage items. *)

hasTeam(input) == input # None /\ team[input] # None

inputTeamId(input) == IF hasTeam(input) THEN team[input] ELSE None

involvesTeam(m, t) == \E k \in 1..2 : inputTeamId(m.inputs[k]) = t

isBracket(item) == item.type = "SINGLE_ELIMINATION"

hasBracketView(item) == isBracket(item) \/ item.type = "SWISS"

(* A team's name, the place of a stage item it is to come from, or nothing. *)
inputLabel(input) ==
    CASE hasTeam(input) -> <<"team", team[input]>>
      [] ~hasTeam(input) /\ input # None /\ Inputs[input].source # None ->
            <<"place", Inputs[input].source, Inputs[input].position>>
      [] OTHER -> <<"TBD">>

----------------------------------------------------------------------------
(* The ranks, which the backend works out for every stage item. *)

Definitive(m) == \A k \in 1..2 : hasTeam(m.inputs[k])

Counted(item) ==
    {m \in UNION {ToSet(r) : r \in ToSet(Rounds(item))} : Definitive(m) /\ isScored(m)}

Standing(item, input) ==
    LET own == {m \in Counted(item) : input \in ToSet(m.inputs)}
        Side(m) == IF m.inputs[1] = input THEN 1 ELSE 2
        Ended(outcomes(_)) == Cardinality({m \in own : matchWinner(m) = outcomes(m)})
        wins == Ended(Side)
        losses == Ended(LAMBDA m : 3 - Side(m))
        draws == Ended(LAMBDA m : Draw)
        for == MapThenSumSet(LAMBDA m : m.score[Side(m)], own)
        against == MapThenSumSet(LAMBDA m : m.score[3 - Side(m)], own)
    IN  [input |-> input, wins |-> wins, draws |-> draws, losses |-> losses,
         points |-> IF item.type = "SWISS" THEN wins - losses ELSE 2 * wins + draws,
         difference |-> for - against, for |-> for]

(* Points, then score difference, total score, wins and the slot. *)
Better(s, t) ==
    LET key(x) == <<x.points, x.difference, x.for, x.wins, -Inputs[x.input].slot>>
    IN  \E i \in 1..5 : key(s)[i] > key(t)[i] /\ \A j \in 1..(i - 1) : key(s)[j] = key(t)[j]

stageItemStandings(item) ==
    SortSeq(Each(SelectSeq(item.inputs, hasTeam), LAMBDA i : Standing(item, i)), Better)

----------------------------------------------------------------------------
(* Matches, sorted by time. *)

matchStatus(m) ==
    CASE isScored(m) -> "finished"
      [] ~isScored(m) /\ None \in ToSet(m.inputs) -> "waiting"
      [] ~isScored(m) /\ None \notin ToSet(m.inputs)
            /\ m.start # NoTime /\ now >= m.start /\ now < m.start + 1 -> "live"
      [] OTHER -> "scheduled"

compareMatchesByTime(l, r) ==
    \/ l.start < r.start
    \/ l.start = r.start /\ l.round < r.round
    \/ l.start = r.start /\ l.round = r.round /\ l.id < r.id

flattenMatches(stages) ==
    Concat(Each(stages, LAMBDA s : Concat(Each(s.items, LAMBDA i :
        Concat(Each(withoutDraftRounds(i.rounds), LAMBDA r :
            Each(r.matches, LAMBDA id :
                [id |-> id, start |-> match[id].start,
                 round |-> r.id, item |-> i.id, stage |-> s.id])))))))

(* The entries of the published matches; their pages are given these. *)
Matches == SortSeq(flattenMatches(Stages), compareMatchesByTime)

WithStatus(entries, s) == SelectSeq(entries, LAMBDA e : matchStatus(match[e.id]) = s)
Scored(entries) == SelectSeq(entries, LAMBDA e : isScored(match[e.id]))
Unscored(entries) == SelectSeq(entries, LAMBDA e : ~isScored(match[e.id]))
OfTeam(entries, t) == SelectSeq(entries, LAMBDA e : involvesTeam(match[e.id], t))

(* At most one: the match being played, or else the earliest without a     *)
(* result.                                                                 *)
nextMatch(entries) ==
    LET live == WithStatus(entries, "live")
        first == IF live # <<>> THEN live ELSE Unscored(entries)
    IN  SubSeq(first, 1, Min({1, Len(first)}))

----------------------------------------------------------------------------
(* The pages. *)

tournamentPhase ==
    CASE archived -> "finished"
      [] ~archived /\ setup.start > now -> "upcoming"
      [] OTHER -> "running"

TournamentHeader(matches) ==
    [phase |-> tournamentPhase, teams |-> Cardinality(Teams),
     count |-> Len(matches), played |-> Len(Scored(matches))]

isStageHappeningNow(stage) ==
    /\ ~archived
    /\ active # 0 /\ Stages[active].id = stage.id
    /\ \E i \in ToSet(stage.items) :
          \/ i.type = "SWISS"
          \/ \E r \in ToSet(Rounds(i)) : \E m \in ToSet(r) : ~isScored(m)

(* The sides of a match on its card: the one that stands out. *)
MatchCard(m) == {k \in 1..2 : matchWinner(m) = k}

(* The card of a stage item on the overview.  In the workspace it also     *)
(* counts the matches of drafts, of which none is played.                  *)
ItemCard(item) ==
    LET all == Concat(Rounds(item))
    IN  [played |-> Len(SelectSeq(all, isScored)), count |-> Len(all)]

OverviewSection(matches) ==
    LET live == WithStatus(matches, "live")
        scheduled == WithStatus(matches, "scheduled")
        finished == WithStatus(matches, "finished")
    IN  [live |-> live,
         upcoming |-> SubSeq(scheduled, 1, Min({6, Len(scheduled)})),
         latest |-> Reverse(SubSeq(finished, Max({1, Len(finished) - 5}), Len(finished)))]

MyTeamPanel(matches, t) == nextMatch(OfTeam(matches, t))

(* The entries grouped by the time they start, in the order the times      *)
(* first appear.                                                           *)
TimeSlots(entries) ==
    LET Put(slots, e) ==
            LET at == SelectInSeq(slots, LAMBDA s : s.start = e.start)
            IN  IF at # 0 THEN [slots EXCEPT ![at].entries = Append(@, e)]
                ELSE Append(slots, [start |-> e.start, entries |-> <<e>>])
    IN  FoldLeft(Put, <<>>, entries)

ScheduleSection(matches) ==
    [upcoming |-> TimeSlots(Unscored(matches)), finished |-> TimeSlots(Reverse(Scored(matches)))]

BigScreenSchedule(matches) ==
    LET slots == TimeSlots(Unscored(matches)) IN SubSeq(slots, 1, Min({2, Len(slots)}))

Tables == SelectSeq(Each(SelectSeq(Items, LAMBDA i : ~isBracket(i)),
                         LAMBDA i : [item |-> i.id, rows |-> stageItemStandings(i)]),
                    LAMBDA t : t.rows # <<>>)

Placements(t) ==
    LET Place(table) == [item |-> table.item, size |-> Len(table.rows),
                         position |-> SelectInSeq(table.rows, LAMBDA s : team[s.input] = t)]
    IN  SelectSeq(Each(Tables, Place), LAMBDA p : p.position # 0)

(* Mutant of TeamDetailSection: the next match is among the others too. *)
TeamDetailWithNextTwice(matches, t) ==
    LET teamMatches == OfTeam(matches, t)
    IN  [comingUp |-> nextMatch(teamMatches) \o Unscored(teamMatches),
         played |-> Reverse(Scored(teamMatches))]

(* The match being played comes first, even when an earlier one has no     *)
(* result yet.                                                             *)
TeamDetailSection(matches, t) ==
    LET teamMatches == OfTeam(matches, t)
        next == nextMatch(teamMatches)
    IN  [comingUp |-> next \o SelectSeq(Unscored(teamMatches), LAMBDA e : e \notin ToSet(next)),
         played |-> Reverse(Scored(teamMatches))]

(* What is drawn of a stage item with a bracket view. *)
BracketSection(item) ==
    toBracketViewerData(Rounds(item), {i \in ToSet(item.inputs) : inputLabel(i) # <<"TBD">>})

----------------------------------------------------------------------------
(* What happens to the tournament. *)

Published == {e.id : e \in ToSet(flattenMatches(Stages))}

Winner(m) == IF MatchCard(m) = {} THEN None ELSE m.inputs[matchWinner(m)]

(* The winners go on to the matches they come from, round after round. *)
PassedOn(rows) ==
    LET passed[id \in DOMAIN rows] ==
            [rows[id] EXCEPT !.inputs = [k \in 1..2 |->
                IF rows[id].from[k] = None THEN rows[id].inputs[k]
                ELSE Winner(passed[rows[id].from[k]])]]
    IN  passed

(* The organizer enters or clears a result; both teams are known. *)
EnterScore(id, score) ==
    /\ ~archived
    /\ id \in Published
    /\ Definitive(match[id])
    /\ match' = PassedOn([match EXCEPT ![id].score = score])
    /\ UNCHANGED <<setup, team, drafts, active, archived, now>>

Publish(round) ==
    /\ ~archived
    /\ drafts' = drafts \ {round}
    /\ UNCHANGED <<setup, match, team, active, archived, now>>

(* The inputs of the next stage get the teams of their places. *)
Activate ==
    /\ ~archived
    /\ active < Len(Stages)
    /\ active' = active + 1
    /\ LET derived == {i \in UNION {ToSet(item.inputs) : item \in ToSet(Stages[active + 1].items)} :
                          Inputs[i].source # None}
           Place(i) == stageItemStandings(ItemWithId(Inputs[i].source))[Inputs[i].position].input
       IN  team' = [i \in DOMAIN team |-> IF i \in derived THEN team[Place(i)] ELSE team[i]]
    /\ UNCHANGED <<setup, match, drafts, archived, now>>

SetArchived ==
    /\ archived' = ~archived
    /\ UNCHANGED <<setup, match, team, drafts, active, now>>

Tick ==
    /\ now < MaxTime
    /\ now' = now + 1
    /\ UNCHANGED <<setup, match, team, drafts, active, archived>>

Init ==
    /\ setup \in Tournaments
    /\ match = setup.matches
    /\ team = [i \in DOMAIN Inputs |-> Inputs[i].team]
    /\ drafts = setup.drafts
    /\ active = 0
    /\ archived = FALSE
    /\ now = 0

Next ==
    \/ \E id \in DOMAIN match, s \in setup.scores : EnterScore(id, s)
    \/ \E r \in drafts : Publish(r)
    \/ Activate
    \/ SetArchived
    \/ Tick

Spec == Init /\ [][Next]_vars

----------------------------------------------------------------------------

Ids(entries) == Each(entries, LAMBDA e : e.id)
SlotIds(slots) == Concat(Each(slots, LAMBDA s : Ids(s.entries)))

ListsOnce(ids, set) == ToSet(ids) = set /\ Len(ids) = Cardinality(set)

(* Every published match is on the schedule exactly once, upcoming or      *)
(* finished, under the time it starts and with the times in order; exactly *)
(* once on the page of each of its teams and on no other; the match a      *)
(* team's panel names comes first on its page; what the overview and the   *)
(* big screen announce is on the schedule too (ScheduleSection, TimeSlots, *)
(* TeamDetailSection, MyTeamPanel; no draft is on any of them).            *)
EachMatchListedOnce ==
    LET matches == Matches
        schedule == ScheduleSection(matches)
        overview == OverviewSection(matches)
    IN  /\ ListsOnce(SlotIds(schedule.upcoming) \o SlotIds(schedule.finished), Published)
        /\ \A i, j \in DOMAIN schedule.upcoming :
              i < j => schedule.upcoming[i].start < schedule.upcoming[j].start
        /\ \A i, j \in DOMAIN schedule.finished :
              i < j => schedule.finished[i].start > schedule.finished[j].start
        /\ ToSet(BigScreenSchedule(matches)) \subseteq ToSet(schedule.upcoming)
        /\ ToSet(Ids(overview.live \o overview.upcoming)) \subseteq ToSet(SlotIds(schedule.upcoming))
        /\ ToSet(Ids(overview.latest)) \subseteq ToSet(SlotIds(schedule.finished))
        /\ \A t \in Teams :
              LET page == TeamDetailSection(matches, t)
                  panel == MyTeamPanel(matches, t)
              IN  /\ ListsOnce(Ids(page.comingUp) \o Ids(page.played),
                               {id \in Published : involvesTeam(match[id], t)})
                  /\ panel = SubSeq(page.comingUp, 1, Min({1, Len(page.comingUp)}))

(* The pages tell the same: the side that stands out on a match card is    *)
(* the one drawn as the winner, and the other the loser; the results in a  *)
(* table are those of the matches played, as many as the header and the    *)
(* stage item's card count; a team is told the place it has in the table;  *)
(* a stage said to happen now has a match to come or is Swiss, in a        *)
(* tournament not said to be finished (MatchCard, toBracketViewerData,     *)
(* StandingsSection, TeamDetailSection, isStageHappeningNow).              *)
PagesAgree ==
    LET matches == Matches
        tables == Tables
        header == TournamentHeader(matches)
        SameResults(drawn) ==
            LET card == MatchCard(match[drawn.id])
                shown == matchStatus(match[drawn.id])
            IN  /\ \A k \in 1..2 :
                      /\ drawn.opponents[k].result = "win" <=> k \in card
                      /\ drawn.opponents[k].result = "loss" <=> 3 - k \in card
                /\ drawn.status = "completed" <=> shown = "finished"
                /\ drawn.status = "ready" <=> shown \in {"live", "scheduled"}
    IN  /\ \A i \in ToSet(Items) : hasBracketView(i) =>
              \A round \in ToSet(BracketSection(i)) : \A drawn \in ToSet(round) : SameResults(drawn)
        /\ \A table \in ToSet(tables) :
              LET played == Len(SelectSeq(Scored(matches), LAMBDA e : e.item = table.item))
              IN  /\ MapThenSumSet(LAMBDA s : s.wins + s.draws + s.losses, ToSet(table.rows)) = 2 * played
                  /\ ItemCard(ItemWithId(table.item)).played = played
        /\ header.played = MapThenSumSet(LAMBDA i : ItemCard(i).played, ToSet(Items))
        /\ \A t \in Teams : LET places == Placements(t) IN
              \A table \in ToSet(tables) :
                 {p.position : p \in {q \in ToSet(places) : q.item = table.item}}
                    = {n \in DOMAIN table.rows : team[table.rows[n].input] = t}
        /\ \A s \in ToSet(Stages) : isStageHappeningNow(s) =>
              /\ header.phase # "finished"
              /\ \/ \E i \in ToSet(s.items) : i.type = "SWISS"
                 \/ \E e \in ToSet(Unscored(matches)) : e.stage = s.id

(* In a knockout bracket the line from a match ends at the match its       *)
(* winner goes on to, and on the side the winner is drawn on; while it has *)
(* none, that side is empty (orderRounds: "brackets-viewer infers the      *)
(* connectors from the position of a match inside its round"), and no two  *)
(* rounds are named alike (roundLabel).                                    *)
WinnersFollowConnectors ==
    \A i \in ToSet(Items) : isBracket(i) =>
        LET drawn == BracketSection(i)
            Name(r) == roundLabel("single-bracket", Len(drawn), r)
        IN  /\ \A r, q \in DOMAIN drawn : r # q => Name(r) # Name(q)
            /\ \A r \in 1..(Len(drawn) - 1) : \A n \in DOMAIN drawn[r] :
                  LET winner == {o \in ToSet(drawn[r][n].opponents) : o.result = "win"}
                      next == drawn[r + 1][(n + 1) \div 2].opponents[IF n % 2 = 1 THEN 1 ELSE 2]
                  IN  next.id = IF winner = {} THEN None ELSE (CHOOSE o \in winner : TRUE).id
=============================================================================
