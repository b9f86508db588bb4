-------------------------------- MODULE Pages --------------------------------
(***************************************************************************)
(* Getting around: which page each address leads to, for whom, which links *)
(* the page shows, and which requests it sends or offers to send.  One     *)
(* tournament has two addresses: its number, which always leads to it, and *)
(* the custom link of its Details pages, which works while they are        *)
(* enabled.                                                                *)
(*                                                                         *)
(* What a page shows is worked out from the tournament as it is now; how   *)
(* long a page goes on showing an older one is the subject of PageSession. *)
(***************************************************************************)
EXTENDS Naturals, FiniteSets, Api

CONSTANTS
    AllTeams,   \* the teams a tournament can have
    Nobody      \* no team

ASSUME PagesAssumption == Nobody \notin AllTeams

VARIABLES
    place,        \* the address
    role,         \* a visitor, an organizer of other events, or of this one
    tournament,
    myTeam,       \* the team this browser remembers
    registration  \* accounts can be created

(* Named so that one module can be about Forms and Pages. *)
pagesVars == <<place, role, tournament, myTeam, registration>>

----------------------------------------------------------------------------
(* The addresses. *)

SitePages == {"home", "login", "create-account", "password-reset", "events", "user", "nowhere"}
ManagementSections == {"players", "rankings", "settings", "stages", "teams"}
WorkspacePages == ManagementSections \cup {"overview", "schedule"}
DetailsPages == {"dashboard", "dashboard-schedule", "dashboard-standings", "dashboard-bracket",
    "dashboard-teams", "dashboard-team"}
BigScreens == {"dashboard-present-schedule", "dashboard-present-standings"}
MovedPages == {"results", "dashboard-present-courts"}
TournamentPages == WorkspacePages \cup DetailsPages \cup BigScreens \cup MovedPages

dashboardMode(page) == page \in DetailsPages \cup BigScreens

Types == {"ROUND_ROBIN", "SINGLE_ELIMINATION", "SWISS"}

(* The team of a team page; the stage item, by its type, a hash names. *)
Address(page, key, team, type) == [page |-> page, key |-> key, team |-> team, item |-> type]

Site(page) == Address(page, "none", Nobody, "none")
Tournament(page, key) == Address(page, key, Nobody, "none")
Team(key, team) == Address("dashboard-team", key, team, "none")

(* Where the table or bracket of a stage item is shown. *)
stageItemPath(key, type) ==
    Address(IF type = "SINGLE_ELIMINATION" THEN "dashboard-bracket" ELSE "dashboard-standings",
            key, Nobody, type)

Addresses ==
    {Site(p) : p \in SitePages}
    \cup {Tournament(p, k) : p \in TournamentPages \ {"dashboard-team"}, k \in {"id", "link"}}
    \cup {Team(k, t) : k \in {"id", "link"}, t \in AllTeams}
    \cup {stageItemPath(k, t) : k \in {"id", "link"}, t \in Types}

(* Mutant of publicTournamentPath: the custom link, enabled or not. *)
namedTournamentPath == IF tournament.named THEN "link" ELSE "id"

(* The custom link only leads there while the page is enabled. *)
publicTournamentPath == IF tournament.public /\ tournament.named THEN "link" ELSE "id"

publicPath(at) == IF dashboardMode(at.page) THEN at.key ELSE publicTournamentPath

----------------------------------------------------------------------------
(* What there is, and who may see it. *)

isAuthenticated == role # "visitor"
canManage == role = "organizer"

hasGroups == \E t \in tournament.items : t # "SINGLE_ELIMINATION"
hasBrackets == \E t \in tournament.items : t # "ROUND_ROBIN"

(* The custom link leads to Details pages only, and nobody is asked who    *)
(* they are; the number leads everyone to a public tournament.             *)
Loads(at) ==
    /\ tournament.exists
    /\ at.key = "link" => dashboardMode(at.page) /\ tournament.public /\ tournament.named
    /\ at.key = "id" => canManage \/ tournament.open \/ tournament.public

detailsSuffix(page) ==
    CASE page = "overview" -> "dashboard"
      [] page = "schedule" -> "dashboard-schedule"
      [] OTHER -> "none"

sendVisitorToDetails(at) == detailsSuffix(at.page) # "none" /\ ~isAuthenticated

(* The address an address is replaced by, or itself. *)
RedirectedTo(at) ==
    CASE at.page = "results" -> Tournament("schedule", at.key)
      [] at.page = "dashboard-present-courts" -> Tournament("dashboard-present-schedule", at.key)
      [] at.page = "events" /\ ~isAuthenticated -> Site("login")
      [] sendVisitorToDetails(at) -> Tournament(detailsSuffix(at.page), at.key)
      [] /\ detailsSuffix(at.page) # "none" /\ ~sendVisitorToDetails(at)
         /\ Loads(at) /\ ~canManage -> Tournament(detailsSuffix(at.page), at.key)
      [] at.page = "dashboard-standings" /\ Loads(at) /\ ~hasGroups /\ hasBrackets ->
            Tournament("dashboard-bracket", at.key)
      [] at.page = "dashboard-bracket" /\ Loads(at) /\ ~hasBrackets /\ hasGroups ->
            Tournament("dashboard-standings", at.key)
      [] OTHER -> at

(* What an address shows that is not replaced. *)
Display(at) ==
    CASE at.page = "nowhere" -> "not found"
      [] at.page = "user" /\ ~isAuthenticated -> "organizers only"
      [] at.page = "create-account" /\ ~registration -> "unavailable"
      [] at.page \in ManagementSections /\ ~isAuthenticated -> "organizers only"
      [] /\ at.page \in TournamentPages /\ ~Loads(at)
         /\ ~(at.page \in ManagementSections /\ ~isAuthenticated) -> "unable to load"
      [] at.page \in ManagementSections /\ Loads(at) /\ isAuthenticated /\ ~canManage -> "read-only"
      [] at.page = "dashboard-team" /\ Loads(at) /\ at.team \notin tournament.teams -> "no such team"
      [] OTHER -> "page"

----------------------------------------------------------------------------
(* The links of each part of a page. *)

TopNav ==
    {Site("home")} \cup
    IF isAuthenticated THEN {Site("events"), Site("user")} ELSE {Site("login")}

(* A visitor is listed the public tournaments, an organizer those of the   *)
(* own events; an organizer without events is also pointed to their page,  *)
(* which the navigation leads to as well.                                  *)
HomePage ==
    CASE ~isAuthenticated /\ tournament.exists /\ (tournament.open \/ tournament.public) ->
            {Tournament("dashboard", publicTournamentPath)}
      [] canManage /\ tournament.exists /\ tournament.public ->
            {Tournament("overview", "id"), Tournament("dashboard", publicTournamentPath)}
      [] canManage /\ tournament.exists /\ ~tournament.public -> {Tournament("overview", "id")}
      [] OTHER -> {}

LoginPage ==
    {Site("home"), Site("password-reset")} \cup
    IF registration THEN {Site("create-account")} ELSE {}

RegisterPage == {Site("login")}

UserPage == IF isAuthenticated THEN {} ELSE {Site("login")}

NotFoundPage == {Site("home")}

workspaceTabs == {Tournament(p, "id") : p \in WorkspacePages}

detailsTabs(key) ==
    {Tournament("dashboard", key), Tournament("dashboard-schedule", key),
     Tournament("dashboard-teams", key)}
    \cup (IF hasGroups THEN {Tournament("dashboard-standings", key)} ELSE {})
    \cup (IF hasBrackets THEN {Tournament("dashboard-bracket", key)} ELSE {})

TournamentHeader(at) ==
    IF ~dashboardMode(at.page)
    THEN workspaceTabs \cup {Tournament("dashboard", publicPath(at))}
    ELSE detailsTabs(at.key) \cup IF canManage THEN {Tournament("overview", "id")} ELSE {}

ExitBigScreen(at) ==
    Tournament(IF at.page = "dashboard-present-schedule" THEN "dashboard-schedule" ELSE "dashboard",
               at.key)

(* Every team that has a name on the page. *)
TeamLinks(key) == {Team(key, t) : t \in tournament.teams}

MyTeamPanel(key) ==
    CASE tournament.teams = {} -> {}
      [] tournament.teams # {} /\ myTeam \in tournament.teams -> {Team(key, myTeam)}
      [] OTHER -> {Tournament("dashboard-teams", key)}

OverviewSection(key) ==
    MyTeamPanel(key) \cup TeamLinks(key) \cup {stageItemPath(key, t) : t \in tournament.items}

ScheduleSection(key) == {Tournament("dashboard-present-schedule", key)} \cup TeamLinks(key)

StandingsSection(key) == {Tournament("dashboard-present-standings", key)} \cup TeamLinks(key)

(* The names in a bracket are links on the big screens too. *)
BracketSection(at) ==
    TeamLinks(at.key) \cup
    IF at.page \in BigScreens THEN {} ELSE {Tournament("dashboard-present-standings", at.key)}

TeamDirectorySection(key) == TeamLinks(key)

TeamDetailSection(at) ==
    {Tournament("dashboard-teams", at.key)} \cup
    IF at.team \notin tournament.teams THEN {}
    ELSE TeamLinks(at.key)
         \cup {stageItemPath(at.key, t) : t \in tournament.filled \ {"SINGLE_ELIMINATION"}}

SettingsSection == IF tournament.public THEN {Tournament("dashboard", publicTournamentPath)} ELSE {}

(* The standings once more, without the way to the big screen. *)
RankingsSection == TeamLinks(publicTournamentPath)

StagesSection == {Team(publicTournamentPath, t) : t \in tournament.teams}

Content(at) ==
    CASE at.page \in {"overview", "dashboard"} -> OverviewSection(publicPath(at))
      [] at.page \in {"schedule", "dashboard-schedule"} -> ScheduleSection(publicPath(at))
      [] at.page = "dashboard-standings" -> StandingsSection(at.key)
      [] at.page = "dashboard-bracket" -> IF hasBrackets THEN BracketSection(at) ELSE {}
      [] at.page = "dashboard-teams" -> TeamDirectorySection(at.key)
      [] at.page = "dashboard-team" -> TeamDetailSection(at)
      [] at.page = "dashboard-present-standings" -> IF hasBrackets THEN BracketSection(at) ELSE {}
      [] at.page = "settings" -> SettingsSection
      [] at.page = "rankings" -> RankingsSection
      [] at.page = "stages" -> StagesSection
      [] OTHER -> {}

TournamentView(at) ==
    Content(at) \cup IF at.page \in BigScreens THEN {ExitBigScreen(at)} ELSE TournamentHeader(at)

PageLinks(at) ==
    CASE at.page = "home" -> HomePage
      [] at.page = "login" -> LoginPage
      [] at.page = "create-account" -> RegisterPage
      [] at.page = "user" -> UserPage
      [] at.page = "nowhere" -> NotFoundPage
      [] at.page \in TournamentPages /\ Display(at) = "organizers only" -> {Site("login")}
      [] at.page \in TournamentPages /\ Display(at) = "read-only" ->
            {Tournament("dashboard", publicTournamentPath)}
      [] at.page \in TournamentPages /\ Display(at) \in {"page", "no such team"} -> TournamentView(at)
      [] OTHER -> {}

(* A big screen has no navigation of the site. *)
Links(at) ==
    IF RedirectedTo(at) # at THEN {}
    ELSE PageLinks(at) \cup IF at.page \in BigScreens \cup {"dashboard-present-courts"} THEN {} ELSE TopNav

----------------------------------------------------------------------------
(* The requests a page sends by itself, and those its forms and buttons    *)
(* send.                                                                   *)

(* What the server says.  A draft round may only be asked for by an        *)
(* organizer, and nothing of an archived tournament changes but its status *)
(* and whether it is there.                                                *)
Visible == tournament.open \/ tournament.public

Frozen(r) ==
    /\ r.writes /\ r.right = "organizer" /\ ~tournament.open
    /\ r \notin {ChangeStatus, DeleteTournament}

Answer(r) ==
    CASE r.right \in {"account", "club"} /\ ~isAuthenticated -> 401
      [] r.right \in {"viewer", "drafts"} /\ ~(tournament.exists /\ (canManage \/ Visible)) -> 401
      [] r.right = "drafts" /\ tournament.exists /\ Visible /\ ~canManage -> 403
      [] r.right = "link" /\ ~(tournament.exists /\ tournament.public /\ tournament.named) -> 401
      [] r.right = "organizer" /\ ~(tournament.exists /\ canManage) -> 401
      [] r.right = "organizer" /\ tournament.exists /\ canManage /\ Frozen(r) -> 400
      [] OTHER -> 200

GetTournamentByLink == [GetTournaments EXCEPT !.right = "link"]
GetStagesWithDrafts == [GetStages EXCEPT !.right = "drafts"]

(* The tournament first, then its stages, with their drafts for whoever is *)
(* signed in and once more without them if that is refused, then the rest. *)
fetchTournament(at) ==
    CASE at.key = "id" -> {GetTournament}
      [] at.key = "link" /\ dashboardMode(at.page) -> {GetTournamentByLink}
      [] OTHER -> {}

fetchTournamentBundle(at) ==
    fetchTournament(at) \cup
    IF ~Loads(at) THEN {}
    ELSE (IF isAuthenticated THEN {GetStagesWithDrafts} ELSE {})
         \cup (IF canManage THEN {} ELSE {GetStages})
         \cup {GetPlayers, GetTeams, GetRankings, GetStandings}
         \cup (IF canManage /\ ~dashboardMode(at.page)
               THEN {GetAvailableInputs, GetNextStageRankings} ELSE {})

(* Mutant of HomeQueries: the events are loaded for visitors too. *)
HomeQueriesOfOrganizers == {GetTournaments, GetClubs}

HomeQueries == {GetTournaments} \cup IF isAuthenticated THEN {GetClubs} ELSE {}

Queries(at) ==
    CASE at.page = "home" -> HomeQueries
      [] at.page \in {"login", "create-account"} -> {GetAuthFeatures}
      [] at.page = "events" /\ isAuthenticated -> {GetClubs}
      [] at.page = "user" /\ isAuthenticated -> {GetUser}
      [] at.page \in TournamentPages /\ Display(at) # "organizers only" -> fetchTournamentBundle(at)
      [] OTHER -> {}

SectionOffers(section) ==
    CASE section = "schedule" -> {ScheduleMatches}
      [] section = "players" ->
            {CreateSinglePlayer, CreateMultiplePlayers, UpdatePlayer, DeletePlayer}
      [] section = "teams" ->
            {CreateTeam, CreateMultipleTeams, UpdateTeam, UpdateTeamLogo, DeleteTeam}
      [] section = "rankings" -> {CreateRanking, UpdateRanking, DeleteRanking}
      [] section = "settings" -> {UpdateTournament, UploadLogo, ChangeStatus, DeleteTournament}
      [] section = "stages" ->
            {CreateStage, UpdateStage, DeleteStage, ActivateNextStage,
             CreateStageItem, UpdateStageItem, DeleteStageItem, UpdateStageItemInput,
             CreateRound, UpdateRound, DeleteRound, CreateMatch, UpdateMatch, DeleteMatch}
      [] OTHER -> {}

PageOffers(at) ==
    CASE at.page = "home" /\ isAuthenticated -> {CreateTournament}
      [] at.page = "login" -> {Login}
      [] at.page = "create-account" /\ registration -> {Register}
      [] at.page = "events" /\ isAuthenticated -> {CreateNewClub, UpdateClub, DeleteClub}
      [] at.page = "user" /\ isAuthenticated -> {UpdateUserDetails, PutUserPassword}
      [] at.page \in TournamentPages /\ Display(at) = "page" -> SectionOffers(at.page)
      [] OTHER -> {}

Offers(at) ==
    IF RedirectedTo(at) # at THEN {}
    ELSE PageOffers(at) \cup
         IF isAuthenticated /\ at.page \notin BigScreens \cup {"dashboard-present-courts"}
         THEN {Logout} ELSE {}

----------------------------------------------------------------------------

Open(at) ==
    /\ place' = at
    /\ UNCHANGED <<role, tournament, myTeam, registration>>

Redirected ==
    /\ RedirectedTo(place) # place
    /\ place' = RedirectedTo(place)
    /\ UNCHANGED <<role, tournament, myTeam, registration>>

Follow ==
    /\ place' \in Links(place)
    /\ UNCHANGED <<role, tournament, myTeam, registration>>

(* Signing in, or registering, leads home. *)
SignIn(r) ==
    /\ place.page = "login" \/ (place.page = "create-account" /\ registration)
    /\ role' = r
    /\ place' = Site("home")
    /\ UNCHANGED <<tournament, myTeam, registration>>

SignOut ==
    /\ isAuthenticated
    /\ role' = "visitor"
    /\ UNCHANGED <<place, tournament, myTeam, registration>>

PickTeam(t) ==
    /\ Loads(place)
    /\ place.page \in {"overview", "dashboard", "dashboard-team"}
    /\ t \in tournament.teams \cup {Nobody}
    /\ myTeam' = t
    /\ UNCHANGED <<place, role, tournament, registration>>

(* This organizer deletes the tournament, which leads home. *)
Delete ==
    /\ canManage /\ place.page = "settings" /\ Loads(place)
    /\ tournament' = [tournament EXCEPT !.exists = FALSE]
    /\ place' = Site("home")
    /\ UNCHANGED <<role, myTeam, registration>>

(* The settings, the stage items and whether they have teams yet, the      *)
(* teams and the organizers change at any time.                            *)
Configurations ==
    {t \in [exists : {TRUE}, open : BOOLEAN, public : BOOLEAN, named : BOOLEAN,
            items : SUBSET Types, filled : SUBSET Types, teams : SUBSET AllTeams] :
        t.filled \subseteq t.items /\ (t.teams = {} => t.filled = {})}

OthersChange ==
    /\ tournament.exists
    /\ tournament' \in Configurations
    /\ UNCHANGED <<place, role, myTeam, registration>>

OthersGiveAccess ==
    /\ isAuthenticated
    /\ role' \in {"guest", "organizer"}
    /\ UNCHANGED <<place, tournament, myTeam, registration>>

PagesInit ==
    /\ place = Site("home")
    /\ role = "visitor"
    /\ tournament \in Configurations
    /\ myTeam = Nobody
    /\ registration \in BOOLEAN

PagesNext ==
    \/ \E at \in Addresses : Open(at)
    \/ Redirected
    \/ Follow
    \/ \E r \in {"guest", "organizer"} : SignIn(r)
    \/ SignOut
    \/ \E t \in AllTeams \cup {Nobody} : PickTeam(t)
    \/ Delete
    \/ OthersChange
    \/ OthersGiveAccess

PagesSpec == PagesInit /\ [][PagesNext]_pagesVars

----------------------------------------------------------------------------

Arrives(at) == RedirectedTo(RedirectedTo(RedirectedTo(at)))

(* The stage items a page has a table or a bracket of: the standings leave *)
(* out a group that no team has joined, a bracket is there before that.    *)
ItemsShown(at) ==
    CASE at.page = "dashboard-standings" -> tournament.filled \ {"SINGLE_ELIMINATION"}
      [] at.page = "dashboard-bracket" -> tournament.items \ {"ROUND_ROBIN"}
      [] OTHER -> {}

(* A group has a table once a team has joined it. *)
HasTable(type) == type # "SINGLE_ELIMINATION" /\ type \in tournament.filled

LandsOnItem(at, type) ==
    IF HasTable(type) \/ type = "SINGLE_ELIMINATION"
    THEN type \in ItemsShown(at)
    ELSE at.page = "dashboard-standings"

(* Every link a page shows leads, after at most three replacements, to a   *)
(* page with content that this user may see: links to the Details pages    *)
(* work for players while they are enabled and for organizers always, tabs *)
(* lead to pages that exist, and no address is replaced for ever.  One to  *)
(* a stage item leads to the page that has its bracket, or its table once  *)
(* a team has joined the group; before that it leads to the standings,     *)
(* which do not have the group yet (publicTournamentPath, stageItemPath,   *)
(* detailsTabs, the filters of StandingsSection and BracketSection, the    *)
(* Navigate elements, the rights of the routes that load a tournament).    *)
EveryLinkLands ==
    /\ RedirectedTo(Arrives(place)) = Arrives(place)
    /\ \A link \in Links(place) :
          /\ RedirectedTo(Arrives(link)) = Arrives(link)
          /\ Display(Arrives(link)) = "page"
          /\ link.item # "none" => LandsOnItem(Arrives(link), link.item)

(* A page sends no request of its own that the server refuses with 401,    *)
(* which would sign an organizer out, as long as the tournament loads at   *)
(* all, and offers none that is refused for who asks: what the pages go by *)
(* (the session, canManage, the kind of page) agrees with the rights the   *)
(* server checks on every route.  Changes to an archived tournament are    *)
(* offered all the same, and refused with 400.                             *)
RequestsAreAllowed ==
    /\ (place.page \in TournamentPages => Loads(place)) =>
          \A r \in Queries(place) : Answer(r) # 401
    /\ \A r \in Offers(place) : Answer(r) \in {200, 400}
=============================================================================
