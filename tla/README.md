# Brackets: a verification development

Brackets is a tournament system: a FastAPI backend over PostgreSQL
(`src/backend/bracket`) and a React frontend (`src/frontend`). A tournament has
stages; a stage has stage items (a round robin group, a Swiss group or a single
elimination bracket); a stage item has inputs, rounds and matches. This
directory holds TLA+ models of the backend's core logic and of the frontend,
the configurations that check them with TLC, and proofs for TLAPS.

## The system

Paths are relative to `src/backend/bracket` unless they start with `src/`.

| Component | State it keeps | Operations | What makes it correct |
|---|---|---|---|
| Elimination bracket, score entry (`routes/matches.py`, `logic/ranking/elimination.py`, `sql/matches.py`) | each match's two inputs, its score, the match that feeds each side | enter or correct a score and pass winners on; "complete" update; clear scores; delete a round | a side fed by a decided match shows its winner; nobody is twice in a round; a correction reaches the final |
| Elimination bracket, construction (`logic/scheduling/elimination.py`, `builder.py`) | none (pure) | build the rounds for 2 to 32 inputs | every match but the last feeds one side of a later one |
| Transactions (`database.py`) | rows, row locks, the copies requests have read | begin, read, update, commit, roll back | what overlapping requests leave behind agrees with what they were asked to do; every request ends |
| Stages (`routes/stages.py`, `sql/stages.py`, `logic/scheduling/handle_stage_activation.py`) | stages, the active one, stage items, the source and team of each input | create, delete, activate next/previous; create and delete stage items; change an input | a stage is derived from the standings when it is activated, never earlier; going back undoes it |
| Round robin (`logic/scheduling/round_robin.py`) | none (pure) | build the schedule | every pair meets once, nobody twice in a round |
| Swiss (`logic/scheduling/swiss.py`, `routes/rounds.py`, `logic/planning/rounds.py`) | rounds (draft or not), matches, players' scores | create a round, pair, publish | at most one draft round; nobody twice in a round; no pair twice |
| Ranking (`logic/ranking/calculation.py`) | points, wins, draws, losses of each input | recalculate after each change | statistics are those of the matches played |
| Planning (`logic/planning/*.py`) | start time, court and conflict flags of each match | schedule, reschedule, flag conflicts | no overlap on a court; flags agree with the times |
| Tournaments, clubs, teams, players, limits | rows that refer to each other | create, change, delete; check limits | limits hold; no dangling reference |
| Sessions, uploads, startup | users and tokens; files; the schema | log in; replace a logo; migrate | files and rows agree |
| Frontend: loading, saving, session (`src/frontend/src/app/api.ts`, `query-client.ts`, `hooks.ts`) | the user in local storage, a cache of bundles by key, the save under way | load a bundle in several requests, refetch, save, sign in and out | a save that succeeds is shown; nothing of a user stays after sign-out; a refusal does not end a valid session |
| Frontend: forms (`app/sections`, `app/pages`) | what is typed, which fields are edited | type, reload, save, clear | typing is not lost; changes of others are not overwritten; nothing is created twice |
| Frontend: views (`app/utils.ts`, `bracket-adapter.ts`, `app/sections`) | none (drawn from the bundle) | list, sort, group, rank and draw matches | each match is listed once; pages agree; lines lead where winners go |
| Frontend: navigation (`app.tsx`, `app/pages`) | the address, the remembered team | open, replace, follow a link | every link lands; no page asks for what its user is refused |

How they interact. A client's change is one HTTP request. FastAPI first
resolves the request's dependencies, some of which read rows (`stage_item_dependency`,
`round_dependency`), and then runs the route, usually in one transaction
(`database.py`: `async with engine.begin()`). Routes call `logic/`, which
reads a stage item with everything in it (`get_stage_item`), computes in memory, and writes rows through `sql/`.
A score entry touches three components in order: the match's row, the ranking
of the stage item, and the later rounds of the bracket. Activating a stage reads
the rankings of other stage items and writes the teams of its inputs.

A page of the frontend loads a bundle with several GET requests, which the
server answers one by one, and TanStack Query keeps it under a key that names
the tournament, the kind of page and the viewer. A save is one request; after
it every mounted query is invalidated and the page waits for the refetch before it reports success.
Forms (react-hook-form) are bound to the rows of the bundle, so each refetch
reaches into a form that is being typed into.

What is hard: a route computes from a copy and writes later, and nothing locks
the rows it read; corrections have to travel through a tree of matches; stages
are left and entered again in any order while scores below them change; deleting
a row changes others that refer to it; an organizer acts on what a page showed
some time ago; answers come late, twice over or never, while a session ends. Every such place is listed, at its line,
under `hazards` in `PROJECT.json`, with the properties that cover it.

## Modules

| Module | Models | Kind |
|---|---|---|
| `BracketShape` | what kind of tree the matches of a bracket form | definitions |
| `BracketTree` | the tree of matches, `get_winner`, what a reader expects of a bracket | definitions |
| `BracketBuild` | `build_single_elimination_stage_item` | pure algorithm |
| `BracketPromise` | what entering a score promises | abstract specification |
| `Elimination` | the requests of one bracket, one at a time, with the update loop in steps | detailed specification |
| `BracketTreeProofs` | where in a tree an input can get to; recursion down the feeders | proofs |
| `EliminationProofs` | theorems about `Elimination` | proofs |
| `BracketRequests` | overlapping requests, row locks and transactions of one bracket | specification with fairness |
| `BracketRequestsProofs` | theorems about `BracketRequests` | proofs |
| `StageLifecycle` | stages, stage items and derived inputs | specification |
| `StageProofs` | theorems about `StageLifecycle` | proofs |
| `SwissPairing` | `get_swiss_pairing` | pure algorithm |
| `RoundRobin` | `get_round_robin_combinations`, `build_round_robin_stage_item` | pure algorithm |
| `MatchMaking` | what `SwissPairing`, `RoundRobin` and `BracketBuild` are given and return, and what that should be | specification |
| `MatchMakingProofs` | theorems about `SwissPairing`, `RoundRobin` and `BracketBuild` | proofs |
| `SwissRounds` | the rounds of a Swiss stage item, several organizers at once | specification |
| `SwissRoundsProofs` | theorems about `SwissRounds` | proofs |
| `Api` | the requests the frontend sends, with their bodies and rights | definitions |
| `PageSession` | one browser tab: session, bundle, save | specification with fairness |
| `PageSessionProofs` | theorems about `PageSession` | proofs |
| `Forms` | one form over a row that others change | specification |
| `BracketDrawing` | what `bracket-adapter.ts` hands to the drawing library | pure algorithm |
| `Views` | what the pages of a tournament show | specification, over `BracketDrawing` |
| `Pages` | addresses, links, rights and requests of the pages | specification, over `Api` |
| `FrontendProofs` | theorems about `Forms` and `Pages` | proofs |
| `MC...` | the instances TLC checks | |

### BracketShape, BracketTree, BracketBuild, BracketPromise

Ids are numbers and `None` is 0 (ids start at 1). `Feeder[m][k]` is
`stage_item_input<k>_winner_from_match_id`, and `FedBy` is what is left of it
once matches are deleted (the foreign key is set to NULL). `Winner` is
`Match.get_winner`: a tie has no winner. `BracketPromise` says in one equation,
`Advances`, which sides change when the score of one match does. It has no
loop, no copy of a row and no transaction. `IsTree` and `IsRoundByRound` say what
`BracketTree` assumes of a tree; `RoundsOf`, `FeedersOf` and `SeedsOf` are the tree of the matches
that `BracketBuild` computes, for whatever ids the inputs of the stage item have.

### Elimination

`inputs`, `scores` and `live` are the committed rows. `draft` and `draftScores`
are the rows the open transaction sees, `snap` the stage item it read, `work`
the copies that the loop of `get_inputs_to_update_in_subsequent_elimination_rounds`
makes, `affected` the keys of `affected_matches`, `todo` the part of
`subsequent_matches` still to visit, `passes` the rounds for which a complete
update has not run the loop yet.

| Action | Code |
|---|---|
| `StartScore` | `update_match_by_id` up to the call of `update_inputs_in_subsequent_elimination_rounds` |
| `StartComplete`, `StartPass` | `update_stage_item` (and `update_ranking_by_id`), `update_inputs_in_complete_elimination_stage_item` |
| `Visit` | one turn of the loop, in the order of `(round, id)` |
| `WriteUpdates` | `sql_set_input_ids_for_match` for each affected match |
| `Commit`, `Rollback` | leaving `engine.begin()` |
| `ClearScores` | `clear_scores_for_matches_in_stage_item` on deactivation |
| `DeleteRound` | `delete_round` with the foreign keys it triggers |

### BracketRequests

Several requests, each a transaction at PostgreSQL's default isolation level.
`queue` is the set of rows a request still has to update and `NextRow` the first of them in
the code's order (`Earlier`: the stage item's name, the statistics, then the sides by round and id), `held` the rows it has
locked, `seen` and `plan` what it computed from the stage item when it read it.
A score entry writes its match's row, then reads, then writes the statistics
of the inputs, then the sides that change. A complete update reads before it
writes anything, because the stage item comes from a dependency. What a request
computes is `Advanced`, the function that `BracketPromise!Advances` determines;
that the loop computes it is what `EliminationProofs` proves. `outdated` is a history
variable: the requests whose copy is older than some commit. Row locks,
READ COMMITTED and deadlock detection are those of PostgreSQL and are marked
external in the map.

### StageLifecycle

One request at a time. `NextStage` and `PreviousStage` are the query of
`get_next_stage_in_tournament`. `ActivateNext` is `update_matches_in_activated_stage`
followed by `sql_activate_next_stage`; `ActivatePrevious` is
`update_matches_in_deactivated_stage` followed by it. Inputs are the three kinds
of `models/db/stage_item_inputs.py`. What the code does to the rest of a tournament
when something is deleted is in `Removed` and `DeleteStage`. A request that fails
leaves no trace and is no step. The matches of a stage item are abstracted to
which slots are in some match (`paired`), which of those have a score
(`played`) and how the slots then rank (`order`, any permutation). `replaced` and
`gap` are history variables that say when the organiser changed an input and when
an active stage was deleted.

### SwissPairing

`Weights` is the graph that `get_swiss_pairing` hands to networkx: an edge for
every two active teams that have not met and, with an odd number of teams, one
from each team to the placeholder `BYE`. Teams are numbered in the order of the
shuffled and sorted list. `MaxWeightMatchings` is what
`nx.max_weight_matching(..., maxcardinality=True)` promises: any matching of the
largest weight among those with the most edges; which one it returns is its own
business. Points are whole numbers, as in the code (`START_ELO` plus changes
rounded by `int`).

### RoundRobin

`Combinations` is `get_round_robin_combinations`: the table of inputs is folded
to give a round and then turned (`Turned`, the `remove` and `insert` of the
loop; the input that moves is where `PlaceOf` says). With an odd number of inputs the last place of the table belongs to
nobody, and `BuildRoundRobin` leaves out its matches, as
`build_round_robin_stage_item` does. Inputs are numbered from 0 as in the code.

### SwissRounds

Several organizers, each acting on what a page shows. `rounds` are the committed
rows by id, `counted` the results that the stored points count, `seen` what each
slow page shows, `request` what each page has under way. A request first checks
what it read (`at = "checked"`), then writes its rows and recalculates the
points over them (`"written"`), and commits later. `overtaken` is a history variable: the kinds of
requests that were committed since this one looked.

| Action | Code |
|---|---|
| `Generate`, `GenerateAgain`, `CommitGenerate` | `create_round`, from the Generate and Regenerate buttons of `stage-item-rounds.tsx`; the number comes from `get_next_round_name` |
| `AddPairing`, `CommitAdd` | `create_match` with its check that no input is in a match of the draft |
| `RemovePairing`, `WriteRemoval` | `delete_match` |
| `Discard`, `Regenerate`, `DeleteLatest` | `delete_round`, from the three buttons that send it |
| `EnterScore` | `update_match_by_id` for a match of a published round |
| `Publish` | `update_round_by_id`, one statement |
| `CommitChange`, `Fail` | leaving `get_connection` with a commit, or with an error |
| `Reload` | the refetch after a save, on focus or by a timer |

A round that was deleted stays as `"deleted"`, since ids are not used again.
Row locks (`Holds`, `Free`) are PostgreSQL's and external.

### Api

One line per request that the frontend sends: whether it writes, which rows its path names,
which fields its body has (the types of `types.gen.ts`), and
whom the dependency of its route answers. `Forms` takes the bodies from it,
`Pages` the rights.

### PageSession

`session` is the user in local storage, `cookie` the user of the session cookie,
which expires on its own; the pages go by the first, the server by the second.
`query[k]` is what TanStack Query keeps for a key: the bundle, whether the last fetch failed, how far the
running fetch has come (`step`) and what it has read so far (`read`). The data
of the tournament is abstracted to the number of changes made to it. A Details page is opened by the tournament's
number (`"dashboard"`) or by a custom link (`"linked"`); `link` tells whether the link this browser knows still leads there.

| Action | Code |
|---|---|
| `Refetch`, `Poll` | a refetch on focus or mount; `refetchInterval` of the workspace and the Details pages |
| `AnswerTournament` | `fetchTournament`, by number or by custom link (`Misses`), which is answered 401 once the link is renamed or disabled, whoever asks |
| `AnswerStages`, `AnswerRest`, `LoseAnswer` | the rest of `fetchTournamentBundle`, by number: the stages with the fallback to the public ones when drafts are refused, then what needs them; one retry after a failure (`FetchFailed`, which leaves open which of the two attempts failed) |
| `Submit`, `Apply`, `ApplyDelete` | a save, or the deletion of the tournament, and its handling by the server |
| `Refused`, `SaveLost` | an answer 401, which signs out (`configureApiClient`); an answer that is lost |
| `SaveAnswered`, `SaveDone`, `DeleteAnswered` | `MutationCache.onSuccess`: invalidate, wait for the refetch, report success; leaving the deleted tournament |
| `Open`, `Login`, `Logout`, `Expire` | routes, `LoginPage`, `RootLayout` with `queryClient.clear()`, the end of a token |
| `OthersChange`, `OthersSetLink`, `OthersSetAccess` | what other organizers do meanwhile: a change, the link renamed or its pages turned off or on, archiving, reopening, deletion |

`Login` drops what a visitor had loaded, which in the code stays until the user signs out: no page of a user shows it.

What the library does was read off its version (5.104): invalidating a query that has data cancels its fetch and
starts another one, a first load is joined instead, a query nobody has mounted is only marked as
old, and the mutation cache's handler is awaited before the mutation's own.

### Forms

`Forms` is a set of 18 forms, each an `Editor` of a row or a `Creator` of
one, with the fields typed into, the fields sent and the body of its request. Values are version
numbers: every text typed and every change by others is new. `values`, `dirty` and
`shown` are those of react-hook-form and the loaded row; `unsaved` (what the
organizer typed and did not save), `unsure` (a save whose answer was lost) and
the fields `saw` and `edited` of `save` are history variables. The actions are `Type` and `TypeBack`,
`Reload`, `Submit`, `Apply` (the server's side), `Saved` and `Failed`, and `OthersSave` and `Remove` by others. A reload
keeps the fields marked dirty (`keepDirtyValues`), a save sends every field of the
form, and a dirty mark outlives the save of an editor. Not among them are `AddPairingForm`, whose two selects depend on each other (its
saves are `AddPairing` of `SwissRounds`), and the forms to sign in and to register (their requests are in `Pages`).

### BracketDrawing and Views

`Views` changes a tournament as the backend does, one request at a time
(`EnterScore`, `Publish`, `Activate`, `SetArchived`, `Tick`), and draws every page from it: the lists of the
overview and the schedule (`flattenMatches`, `matchStatus`, the time slots), the
tables, the page and the panel of each team, and through `BracketDrawing` the
brackets. It keeps the names of the functions of `utils.ts` and of the sections. All
operators are pure; what there is to check is that they agree.

### Pages

An address is a page, the key by which it names the tournament (number or custom
link), a team and a hash. `RedirectedTo` is every `Navigate` element, `Display`
what the page shows to whom, `Links` the links on it, `Queries` the requests it sends by itself,
`Offers` the ones its buttons send, `Answer` the status the server gives, from the
rights in `Api`. Actions open an address, follow a link, sign in or out, pick a team, delete the tournament, and
let others change its settings, stage items, teams and organizers.

## What the runs check

Run them with `tlc -workers 2 -config <cfg> <module>`.

| Run | Configuration | States | Result |
|---|---|---|---|
| `elimination` | `MCElimination.cfg` | 80,866 | passes |
| `requests` | `MCBracketRequests.cfg` | 100,274 | passes, liveness included |
| `lost_winner` | `MCBracketRequestsLost.cfg` | | violated: see findings |
| `stages` | `MCStageLifecycle.cfg` | 713,731 | passes |
| `pairings` | `MCPairings.cfg` | 44,099 | passes |
| `rounds` | `MCSwissRounds.cfg` | 897,126 | passes |
| `page` | `MCPageSession.cfg` | 127,660 | passes, liveness included |
| `forms` | `MCForms.cfg` | 883,049 | passes |
| `views` | `MCViews.cfg` | 39,498 | passes |
| `pages` | `MCPages.cfg` | 315,840 | passes |
| `no_active_stage` | `MCStageLifecycleActive.cfg` | | violated: see findings |
| `draft_discard` | `MCSwissRoundsDiscard.cfg` | | violated: see findings |

**elimination.** The bracket the code builds for 8 inputs: three rounds, so a
corrected quarter-final has to travel through a semi-final. Scores are entered for one path to the
final and a neighbour on each level (matches 1, 2, 5 and 7). The other matches behave
as these do by the symmetry of the tree. There are four scores: unplayed, won by either
side, and a draw that was played. Nothing bounds the length of a behaviour.
It shows that every decided winner is passed on (`DecidedAdvances`), nobody is
twice in a round (`OneMatchPerRound`), the loop implements `BracketPromise`
(`KeepsPromise`), a complete update repairs nothing
(`CompleteUpdateChangesNothing`), and only clearing scores leaves an input in a
side whose feeder is undecided (`RequestsKeepFollowing`).

**requests.** The bracket for 4 inputs, whose semi-finals write the two sides of one row,
is the smallest in which two requests can meet. Two request slots run one
request each: any score entry or a complete update. They start from any bracket
that score entries can produce, which stands for the requests that ended before. The run
shows that all started requests end (`EveryRequestEnds`): deadlocks
do occur, between entries of different rounds and with complete updates, and are
cancelled. Of entries of one round one always waits for none of the others, so that they
never deadlock among themselves (`SameRoundNoDeadlock`), nobody
is twice in a round whatever the interleaving (`OneMatchPerRound`), and a request whose
copy is current when it commits leaves statistics and sides consistent
(`CurrentCopyKeepsConsistent`).

**stages.** Three stages of one stage item each and two inputs, started from 17 set-ups: in 16 each
stage item is fed by the one before it, by itself, or by a later one, and the second is Swiss; in one
the third stage is still to be created.
Three stages are the fewest in which "next" and "previous" have inactive
stages on both sides, and in which a stage that was left has another after it.
`MaxChanges = 2` bounds changes of stages, stage items, inputs and
rounds; activations and scores are unbounded. At most one stage is active
(`OneActive`). A stage after it has nothing looked up (`LaterStagesUnresolved`).
Activation uses the standings of that moment (`ActivationUsesStandings`). A team
that was looked up is still in the stage item it came from
(`DerivedTeamsAreInSource`). No deletion takes an input out of a match
(`PairedInputsExist`). `CHECK_DEADLOCK FALSE`, since a tournament with nothing
left to activate and no changes left may stop.

**pairings.** The matches the code makes up by itself. For every set of pairs met, every order of ratings 0 to 2 and
histories in which one of up to four teams may have played an opponent who has left,
`MatchMaking` compares every Swiss pairing the weights admit with the docstring of
`get_swiss_pairing`, stated without graphs and weights: the most teams possible
play and no two meet again (`AsManyAsPossible`), then the lowest ranked team
that has not sat out sits out (`SitsOutFairly`), and only then the
opponents are as close as possible (`ClosestOpponents`). Five teams are enough
for the three aims to pull apart: with four or five, a pairing from the top
down can leave two teams over that have met, and the team to sit
out can be the one whose absence widens the gaps. For a round robin of 2 to 64 inputs (`MaxSize`), all
that `StageItemCreateBody` allows, every pair meets once and nobody plays twice in a round
(`EveryPairMeetsOnce`). For a bracket of each size that has a round count, 2 to 32, every input is seated
once and every match but the final feeds one side of the next round (`EveryWinnerReachesTheFinal`): the tree is as
`TreeAssumption` and `RoundsAssumption` of `BracketTree` say (`BuiltTreesAreTrees`, below). Each input is paired once, hence
`CHECK_DEADLOCK FALSE`.

**rounds.** Two organizers, one of whom always sees the present and one (`SlowPages`)
what was loaded at any time before. Three inputs have three pairs, so a round leaves somebody out and
a second round still has a pairing; `MaxRounds = 2` ids are enough for a second draft and for a number given twice,
`MaxMatches = 2` for an input paired twice. The inputs are symmetric: nothing in the module tells them apart.
A second draft (`SecondDraftOnlyByOverlap`), an input paired twice in a round (`PairedTwiceOnlyByOverlap`) and points that
do not count the published results (`PointsStayCurrent`) each need two overlapping requests, however old
the pages are; numbers stay in order (`NumberedInOrder`) but for an overlap or a
deletion from an old page. These overlaps do occur in the model, as in the code,
which takes no lock and has no constraint against them. `CHECK_DEADLOCK FALSE`: when every id is used and
nothing is left to delete or score, nothing may happen.

**page.** One organizer and one other account share the browser; one change by
this tab or by others (`MaxChanges = 1`) separates old data from new, and a tournament's access changes without
bound. `Sections` are the home page, the settings and the Details page under its custom link: the workspace is always loaded by number, and
a Details page opened by number differs from one opened by link only in its first request, which is then answered as that of the settings.
`LoginBound` (nobody signs in while a fetch or a save is under way) keeps the instance small: the sign-in page loads no
bundle. No page without a session and no Details page shows a draft round (`NoDraftsForVisitors`), nothing of a user is left after
sign-out (`NothingLeftAfterSignOut`), and success is reported over fresh data (`SuccessMeansShown`),
and no page loads or saves for ever (`LoadingEnds`, `SaveEnds`). While the cookie is valid and the tournament public, one answer only ends a
session (`SignedOutOnlyWhenRefused`): that to a Details page asked for by a custom link that was renamed or disabled. There the
code does sign an organizer out, with the message that the session expired, as it cannot tell this 401 from one that
means it; the run reaches this case.

**forms.** The 18 forms of `Forms`, each with every one or two of its fields watched at a time: fields meet only in
being sent together. Three versions let an organizer type, another change the same or the other field, and the
organizer type again. A save leaves alone what another organizer changed and the page had loaded (`LoadedChangesAreKept`),
typing is never thrown away but with its row (`TypingIsKept`), and a second row takes a lost
answer (`CreatedOnce`). `CHECK_DEADLOCK FALSE`: a form whose row is gone is at its end.

**views.** Four tournaments: a group whose first two meet in a final, a knockout bracket of eight,
a Swiss stage with a draft and with matches without a time, and a tournament without stages; every score,
publication, activation and time up to `MaxTime = 2`, at which the last match that has a time starts.
`EachMatchListedOnce`, `PagesAgree`, `WinnersFollowConnectors`. A finished, archived tournament stops, hence `CHECK_DEADLOCK FALSE`.

**pages.** Every address, for a visitor, a guest account and an organizer, over every combination of settings, kinds of stage items
and teams. One team is enough, as pages depend only on whether there are teams and whether the remembered one still exists.
Every link leads to a page with content, and one to a stage item to the page that has its bracket, or its table once a team has joined it; the
overview links a group without teams all the same, which leads to the standings without its table (`EveryLinkLands`). No page sends or offers what is refused to
who asks (`RequestsAreAllowed`). `CHECK_DEADLOCK FALSE` as the last page of a deleted tournament may be the end.

Every property of a passing run has a mutant in `PROJECT.json`: an operator,
marked "seeded fault" or "Mutant of ..." in the module, that changes one
definition as a plausible bug would and makes TLC find that property violated.

### Findings

- `lost_winner`: both semi-finals are entered at the same time. Each request reads the
  stage item before the other commits, and each writes both sides of the final from
  its copy, so the second commit removes the first one's winner from the final.
- `no_active_stage`: `delete_stage` refuses an active stage, but only after it has refused
  any stage with stage items, and its condition for "active" asks for stage items
  too. An active stage without stage items is deleted and no stage is active.
- `draft_discard`: `delete_round` asks only that the round exists. A page that still shows a draft
  which another organizer has published, and perhaps scored, deletes it when "Discard the draft ...?" is confirmed.

### Fairness

`BracketRequests` and `PageSession` state fairness; the other specifications are about safety only.

In `BracketRequests`: `WF(Step(r))` for each request: the
server goes on with a request it has started until it waits for a lock, and
PostgreSQL grants a lock that is free. `WF(\E r : CancelDeadlocked(r))`:
PostgreSQL looks for deadlocks whenever a wait exceeds `deadlock_timeout`. There
is none on clients sending requests (`Begin`) and none on failures (`Fail`). Weak
fairness of `Step` is enough because each slot runs one request, so a row cannot be
taken by newcomers for ever.

In `PageSession`: `WF(Poll)`, as `refetchInterval` fires again and again while the
page is open; for each key `WF` of an answer, or the loss of one, that ends the fetch, as every request is answered or its
connection fails in the end and a fetch is tried twice at most; `WF` of what becomes of a save, for the same reason. `SaveDone`
has strong fairness: it waits for a fetch that a timer or a focus may start
again, so it can be enabled and disabled in turn, and a promise that has been settled is
taken up. Nobody has to sign in, open a page or press a button.

## What is proved

The theorems are in `EliminationProofs`, `BracketRequestsProofs`, `StageProofs`, `MatchMakingProofs`,
`SwissRoundsProofs`, `PageSessionProofs` and `FrontendProofs`, with `BracketTreeProofs` for what the first two share. They are
checked by `tlapm`, with no step left out.

**Elimination**, for every tree in which a match is fed from earlier rounds
(`TreeAssumption`; the trees the code builds are such trees, `BuiltTreesAreTrees` under Brackets),
every set of scores that contains 0-0 and every set of edited matches
(`EditedAssumption`).

- `TypeCorrect`: `TypeOK`.
- `Invariant`: the inductive invariant `IInv`. It adds to `TypeOK` what the loop has
  done so far: in a score entry, a visited match has the copy that its feeders' copies
  imply, the affected matches are the entered one and those whose copy differs from the
  snapshot, and no visited match is of a later round than one to be visited
  (`LoopInv`), so that copies used to compute others do not change any more. After
  the writes, the transaction's rows are what `Advances` asks for (`WrittenInv`). In a complete
  update (`CompleteInv`), a copy or a written row that differs from the snapshot is
  in a round from which a pass is still to start, or is about to be written back from
  the snapshot, so at the end none differs.
- `Implements`: `Spec => KeepsPromise`, by step simulation from `IInv`: only
  `Commit` of a score entry, `ClearScores` and `DeleteRound` map to steps of
  `BracketPromise`, every other step to a stutter.
- `WinnersAreAdvanced`, `OnlyClearingLeavesInputs`: `DecidedAdvances` and
  `RequestsKeepFollowing`, from `Implements`' step lemma.
- `CompleteUpdateIsNoOp`: `CompleteUpdateChangesNothing`.
- `NobodyPlaysTwice`: `OneMatchPerRound`. `DecidedAdvances` does not give it, since sides fed by undecided matches may be
  stale. `BracketTreeProofs` defines the places of an input without scores: the least set that
  contains where it is seeded and every side fed from the set (`Places`). Under `RoundsAssumption` (inputs are seated once, a match feeds
  one side, the feeders of a round are of one round) it has one place in a round at most (`OnePlaceInRound`), as there would be no first
  round with two. Every side of the rows and of the copies a request works on shows an input at a place of its own (`AllPlaced`).

**BracketRequests**, for every tree as above with `RoundsAssumption`, any set of requests, any edited
matches and every interleaving of reads, updates, commits, failures and cancellations.

- `Invariant`: `IInv` has a part for each thing a request relies on: a row is locked by one transaction (`ExclusiveInv`);
  one that is not running holds and awaits nothing (`EndedInv`); a score entry locks its match, then the statistics, then
  sides of later rounds (`OrderInv`); what a request whose copy is current is going to write is what follows from the
  committed rows (`CopyInv`); and the sides it writes, from however old a copy, show inputs at places of their own (`PlacedInv`).
- `TypeCorrect`: `TypeOK`.
- `NoDeadlockInRound`: `SameRoundNoDeadlock`. If one of the requests holds the statistics, it only waits for rows of
  later rounds, which nobody without the statistics holds; if none does, one that holds its match's row waits for nobody
  among them, and if none of them holds any row, none waits for another.
- `NobodyPlaysTwice`: `OneMatchPerRound`, from `PlacedInv` and `OnePlaceInRound`.
- `CurrentCopies`: `CurrentCopyKeepsConsistent`. By `CopyInv` the plan of a request whose copy is current is what entering its score does to
  the committed bracket, and that keeps every side following its feeder (`AdvancedIs`).

What a request computes is a function defined by recursion down the feeders (`Filled`, `Advanced`). That such a
function exists, and that there is only one, is proved in `BracketTreeProofs` without induction over data: the rounds in which it
could fail have no first one (`WorkedOutExists`).

**StageLifecycle**, for any bounded set of stage ids, any stage items, teams, number
of inputs and number of changes (`StageAssumption`), and any well-typed tournament set up so that
nothing has been looked up before the start (`SetupAssumption`).

- `Invariant`: `IInv` holds what the search for the next and the previous stage needs (stages and
  stage items refer to what exists, at most one stage is active), with the two safety
  properties below. `LaterStagesUnresolved` is inductive only together with
  the fact that no inactive stage lies between the active stage and the one
  "previous" picks (`PreviousStageIsLast`), hence the lemmas on `Min` and `Max`.
- `AtMostOneStage`, `LaterStagesWait`, `MatchesHaveInputs`: `OneActive`,
  `LaterStagesUnresolved` and `PairedInputsExist`.
- `ActivationLooksUp`: `ActivationUsesStandings`. An input of the entered stage that has a
  source cannot hold an older team, by `LaterStagesUnresolved`, so it is looked up now.
- `TypeCorrect`: `TypeOK`, of which the part that matters is that a source exists as long as the inputs it feeds.
- `TeamsStayInSource`: `DerivedTeamsAreInSource`. It is inductive with what distinguishes a source in a later stage
  (`SourceKeeps`): a team that was looked up there was put there by the organizer, so that leaving the later stage does not take it
  away. A source in the same stage is emptied together with what it feeds, and one in an earlier
  stage is left only after what it feeds was emptied (`LaterStagesUnresolved`).

**SwissPairing**, through `MatchMaking`, for any number of teams, any ratings in order, any pairs met and any matches played
(`BoundsAssumption`). These are the steps by which the weights bring about what the docstring promises.

- `Matchings`, which goes through the teams one by one, returns the sets of disjoint edges and nothing else (`MatchingsAre`). Sums over
  a set do not depend on the order (`TotalWithout`), and there is a best among finitely many (`BestExists`).
- The weights of the pairs of a matching and its squared gaps add up to the same for all matchings of one size (`CandidateWeight`), so the
  heaviest is the closest (`HeavierIsCloser`); their sum is at most `MaxTotalPairWeight`, since no gap is wider than that of the first and
  the last team (`WidestGap`).
- With an odd number of teams somebody is always left to sit out (`SomebodyIsLeft`), so a matching with the most edges is a largest
  set of pairs and one `BYE` (`OddPairing`); and as a place in the order of sitting out weighs one more than all pairs together, it is the
  team that the docstring names (`SitsOutIs`).
- `PairsAsManyAsPossible`, `LowestFreshTeamSitsOut`, `OpponentsAreClosest`: `AsManyAsPossible`, `SitsOutFairly` and `ClosestOpponents`.
  `SomePairingIsFound`: there is always a pairing to return.

What networkx computes is not proved: it is taken to return some matching of the largest weight among those with the most edges.

**Round robins**, for any number of inputs from 2 up; `MaxSize` bounds only what TLC tries.

- The table of each round is known place by place (`Table`, `TablesAre`): moving the last place to the second turns all
  the others on by one (`LastMoved`, `TableTurns`).
- Any two inputs sit opposite each other in one round, which the sum of their numbers tells (`EveryTwoMeet`), and in no
  other, as the number of places that turn is odd (`NoTwoMeetTwice`).
- `RoundRobinIsComplete`: `EveryPairMeetsOnce`. The place that belongs to nobody takes no match from the others (`AllArePlaced`), so
  the rows that are created are as many as the pairs (`AsManyPlaced`).

**Brackets**, for every size that has a round count (`EliminationRounds`).

- The code works out each round from the ids of the round before. A row is what its round and its place in it tell
  (`BracketRow`), and the rounds that are built are these rows (`BracketIs`): a first round that is
  different would have none before it.
- No two rows have the same id, as every round is at most half of those before (`RoundsShrink`, `IdsDiffer`), so the id by which a match names its
  feeder is that of one row of the round before (`FeedersAre`), and a row is named by one side of one match (`FeedsOne`).
- `BracketsAreComplete`: `EveryWinnerReachesTheFinal`, with one final (`OneFinal`) and a seat for every input
  (`InputSeated`).
- `BuiltTreesAreTrees`: the tree of every size satisfies `IsTree` and `IsRoundByRound`, which are what `TreeAssumption` (but for
  the scores) and `RoundsAssumption` say of the constants of the modules about score entry. So the theorems
  about **Elimination** and **BracketRequests** are about the brackets the code builds. A match, found by its id, is one row
  (`RowIs`, `TreeRows`), whose sides are seated in the first round and fed by the round before in every other (`RowSides`, `TreeSides`), and no
  input or winner is on two sides (`SeatedOnce`).

**SwissRounds**, for any set of inputs, pages and slow pages and any bounds (`InputsAssumption`).

- `Invariant`: `IInv` says what each request under way may still rely on. One to create a
  round saw no draft, and there is none unless another such request was
  committed since (`SoundGenerate`); a pairing to be added is free unless another was added (`SoundAdd`); a written change has the points
  that follow from it unless another change was committed since (`SoundWritten`), which needs
  that written changes hold different rows (`ExclusiveInv`), that only published rounds have results, and that a round a page shows as published was
  published (`RoundsInv`).
- `TypeCorrect`: `TypeOK`. That numbers stay in their range needs that the rounds that exist are
  fewer than the ids while one is left (`NumberedInBound`).
- `OneDraft`, `OneMatchEach`, `PointsAreCurrent`: `SecondDraftOnlyByOverlap`,
  `PairedTwiceOnlyByOverlap` and `PointsStayCurrent`, each from `IInv` and the lemma of the commit that it is about.
- `NumbersInvariant`, `NumbersStayInOrder`: `NumberedInOrder`. A round that is deleted leaves its number behind, so what matters is which
  rounds can be: ids are used in order, drafts are newer than every published round, and an old page that shows a draft shows
  the drafts before it (`OldestFirst`); unless overtaken, a new round still has the next number, and a page that is
  up to date deletes a draft or the newest round (`Numbering`).

**PageSession**, for any accounts, any of them organizers, any number of changes and any of the pages, Details pages by number among them (`UsersAssumption`).

- `Invariant`: `IInv` is `TypeOK` with `OwnInv` (the cookie is the session's or has expired, and the cache holds
  nothing of anybody but visitors and the signed-in user), `BundleInv` (only an organizer's bundle says that it can be
  managed, one of a Details page has no drafts), `SaverInv` (only an organizer saves) and `RefreshInv` (the fetch a save
  waits for asks for the tournament after the change, and what it ends with shows the change).
- `TypeCorrect`, `SigningOutForgets`, `DraftsStayHidden`, `RefusalsKeepSessions`, `SuccessIsShown`: `TypeOK`,
  `NothingLeftAfterSignOut`, `NoDraftsForVisitors`, `SignedOutOnlyWhenRefused` and `SuccessMeansShown`. For `RefusalsKeepSessions`: a page of
  the workspace that can be managed is an organizer's (`BundleInv`), a save is too (`SaverInv`), and what an organizer with a valid cookie asks for by number
  is answered while the tournament exists.

**Forms**, for every form and any number of versions (`VersionsAssumption`).

- `FormsInvariant`: `FormsInv` adds to `TypeOK` what the watched fields are, that a field the organizer typed into and has not
  saved is dirty, that a field that is not dirty shows the loaded value (`CleanInv`), that a save under way carries, for every
  field that was not edited, what the page had loaded (`SaveInv`, which would fail for a form that leaves out a field of its body, hence
  `EditorsSendTheRow`), and for a creator that what it holds and has not sent is in no row yet (`CreatorInv`).
- `FormsTypeCorrect`, `NoTypingIsLost`, `NoLoadedChangeIsLost`, `NothingIsCreatedTwice`: `TypeOK`, `TypingIsKept`,
  `LoadedChangesAreKept` and `CreatedOnce`.

**Pages**, for any set of teams (`PagesAssumption`). The behaviours of `Pages` have names of their own (`PagesSpec`) for
`FrontendProofs` to be about both modules.

- `PagesInvariant`: `PagesInv` says that the address is one of the pages, with one of the tournament's two addresses
  (`Known`), and that only stage items that exist have teams. That following a link keeps it needs what the links are.
- `LinksLand`: `EveryLinkLands`. Each part of a page is taken by itself: a link to the Details pages has an address that loads for whoever
  the page was loaded for (`PublicPathLoads`), and tabs of the workspace are only on pages that are replaced unless the tournament can be
  managed (`WorkspaceIsForOrganizers`). It proves more than the property: an address a page links to is never replaced
  (`LinksGood`). That the bracket or table a link names is there is part of it (`LandsOnItem`). Any other address is replaced at most twice (`ArrivesSomewhere`).
- `OnlyAllowedRequests`: `RequestsAreAllowed`, from what the server says to each right (`AnswerTo`) and the rights
  of all the requests (`SectionsAreForOrganizers`, `BundleAllowed`).

Only model-checked:

- liveness (`EveryRequestEnds`, `LoadingEnds`, `SaveEnds`), which is out of the prover's reach;
- `Views` (`EachMatchListedOnce`, `PagesAgree`, `WinnersFollowConnectors`), whose lists are the results of sorting, filtering and
  folding sequences: what these operators return for every sequence takes induction over data.

## What is not modelled

- A PUT that moves a match to another round. The frontend always sends the match's own
  round (`src/frontend/src/app/sections/stage-item-rounds.tsx:528`).
- Start times: changing a match's duration reschedules matches (`schedule_all_matches`);
  in `BracketRequests` the rows that locks are about are those of scores, sides and statistics only.
- Elo arithmetic on decimals: `StageLifecycle` takes any order of the inputs that played, `Views` ranks by
  wins, draws and losses.
- Of the generated client: how it encodes requests, the zod schemas, the client for server-sent events, which
  nothing uses, and the requests nothing sends (such as `ping`, the logo by GET, a user by id).
- What a form field accepts and how values are formatted; styling and wording.
- In `PageSession`: that the sections of one bundle may disagree when others commit a change between its requests. A comment
  (`src/frontend/src/app/api.ts:80`) says they agree; nothing in the code sees to it, and no property says they do. Nor that the name of a
  custom link is given to another tournament.
- In `SwissRounds`: making a published round a draft again, which `PUT rounds` allows and no page sends (its results would go on counting);
  and the recalculation of a request to remove a pairing or a round that another request has removed meanwhile.
- The pairing form as a form, and those to sign in and to register.
- The selects of `stage-item-slots.tsx`, which save as soon as something is chosen, and the inputs for logos.
- The components with status `not_modelled` in `PROJECT.json`: match planning, logo uploads and startup; of
  tournaments, clubs, teams and players the limits, and what deleting one does to rows that refer to it.

## Plan

The bracket, the stages, Swiss rounds and the frontend are done. What would come next:

1. `StageRequests`: overlapping activations, interleaved as in `BracketRequests`.
2. `Planning`: start times and conflict flags, against a reference definition of overlap.
3. `Limits` and `Uploads`: the check-then-insert of limits; logo files over rollbacks and crashes.

Every safety property but those of `Views` is proved. Theorems that could still be added are those of the modules above
once they are written.
