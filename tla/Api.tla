--------------------------------- MODULE Api ---------------------------------
(***************************************************************************)
(* The requests of the API client that the frontend sends: whether one     *)
(* changes something, the rows its path names, the fields of its body and  *)
(* whom the server answers (the dependency of its route).                  *)
(***************************************************************************)

(* Rights: "everyone"; "account", any signed-in user; "club", a member of  *)
(* the event; "viewer", everyone while the tournament is public, else its  *)
(* organizers; "organizer", of the tournament.                             *)
Read(path, right) == [writes |-> FALSE, path |-> path, body |-> {}, right |-> right]
Write(path, body, right) == [writes |-> TRUE, path |-> path, body |-> body, right |-> right]

----------------------------------------------------------------------------
(* The bodies. *)

RankingBody == {"position", "win_points", "draw_points", "loss_points", "add_score_points"}
RankingCreateBody == RankingBody \ {"position"}
TournamentUpdateBody == {"start_time", "name", "dashboard_public", "dashboard_endpoint",
    "players_can_be_in_multiple_teams", "duration_minutes", "margin_minutes"}
TournamentBody == TournamentUpdateBody \cup {"club_id"}
TournamentChangeStatusBody == {"status"}
StageUpdateBody == {"name", "custom_duration_minutes"}
StageActivateBody == {"direction"}
StageItemUpdateBody == {"name", "ranking_id"}
StageItemInputUpdateBody == {"team_id", "winner_from_stage_item_id", "winner_position"}
StageItemCreateBody == {"stage_id", "name", "type", "team_count", "ranking_id"}
RoundCreateBody == {"name", "stage_item_id"}
RoundUpdateBody == {"name", "is_draft"}
MatchCreateBodyFrontend == {"round_id", "stage_item_input1_id", "stage_item_input2_id",
    "stage_item_input1_winner_from_match_id", "stage_item_input2_winner_from_match_id"}
MatchBody == {"round_id", "stage_item_input1_score", "stage_item_input2_score",
    "custom_duration_minutes", "custom_margin_minutes"}
PlayerBody == {"name", "active"}
PlayerMultiBody == {"names", "active"}
TeamBody == {"name", "active", "player_ids"}
TeamMultiBody == {"names", "active"}
LogoBody == {"file"}
ClubUpdateBody == {"name"}
ClubCreateBody == {"name"}
UserToUpdate == {"email", "name"}
UserPasswordToUpdate == {"current_password", "password"}
LoginBody == {"username", "password", "grant_type", "scope", "client_id", "client_secret"}
UserToRegister == {"email", "name", "password"}

----------------------------------------------------------------------------
(* Signing in, accounts and events. *)

GetAuthFeatures == Read({}, "everyone")
Login == Write({}, LoginBody, "everyone")
Logout == Write({}, {}, "everyone")
Register == Write({}, UserToRegister, "everyone")
GetUser == Read({}, "account")
UpdateUserDetails == Write({"user_id"}, UserToUpdate, "account")
PutUserPassword == Write({"user_id"}, UserPasswordToUpdate, "account")

GetClubs == Read({}, "account")
CreateNewClub == Write({}, ClubCreateBody, "account")
DeleteClub == Write({"club_id"}, {}, "club")
UpdateClub == Write({"club_id"}, ClubUpdateBody, "club")

----------------------------------------------------------------------------
(* Tournaments.  The list holds what the user may see, so everyone may ask *)
(* for it; by its custom link a tournament is asked for in the same way.   *)

GetTournaments == Read({}, "everyone")
CreateTournament == Write({}, TournamentBody, "account")
OfTournament == {"tournament_id"}
GetTournament == Read(OfTournament, "viewer")
UpdateTournament == Write(OfTournament, TournamentUpdateBody, "organizer")
DeleteTournament == Write(OfTournament, {}, "organizer")
ChangeStatus == Write(OfTournament, TournamentChangeStatusBody, "organizer")
UploadLogo == Write(OfTournament, LogoBody, "organizer")

GetPlayers == Read(OfTournament, "viewer")
CreateSinglePlayer == Write(OfTournament, PlayerBody, "organizer")
CreateMultiplePlayers == Write(OfTournament, PlayerMultiBody, "organizer")
UpdatePlayer == Write(OfTournament \cup {"player_id"}, PlayerBody, "organizer")
DeletePlayer == Write(OfTournament \cup {"player_id"}, {}, "organizer")

GetTeams == Read(OfTournament, "viewer")
CreateTeam == Write(OfTournament, TeamBody, "organizer")
CreateMultipleTeams == Write(OfTournament, TeamMultiBody, "organizer")
UpdateTeam == Write(OfTournament \cup {"team_id"}, TeamBody, "organizer")
UpdateTeamLogo == Write(OfTournament \cup {"team_id"}, LogoBody, "organizer")
DeleteTeam == Write(OfTournament \cup {"team_id"}, {}, "organizer")

GetRankings == Read(OfTournament, "viewer")
GetStandings == Read(OfTournament, "viewer")
CreateRanking == Write(OfTournament, RankingCreateBody, "organizer")
UpdateRanking == Write(OfTournament \cup {"ranking_id"}, RankingBody, "organizer")
DeleteRanking == Write(OfTournament \cup {"ranking_id"}, {}, "organizer")

----------------------------------------------------------------------------
(* Stages, their items, rounds and matches. *)

GetStages == Read(OfTournament, "viewer")
GetAvailableInputs == Read(OfTournament, "organizer")
GetNextStageRankings == Read(OfTournament, "organizer")
CreateStage == Write(OfTournament, {}, "organizer")
UpdateStage == Write(OfTournament \cup {"stage_id"}, StageUpdateBody, "organizer")
DeleteStage == Write(OfTournament \cup {"stage_id"}, {}, "organizer")
ActivateNextStage == Write(OfTournament, StageActivateBody, "organizer")

OfStageItem == OfTournament \cup {"stage_item_id"}
CreateStageItem == Write(OfTournament, StageItemCreateBody, "organizer")
UpdateStageItem == Write(OfStageItem, StageItemUpdateBody, "organizer")
DeleteStageItem == Write(OfStageItem, {}, "organizer")
UpdateStageItemInput ==
    Write(OfStageItem \cup {"stage_item_input_id"}, StageItemInputUpdateBody, "organizer")

CreateRound == Write(OfTournament, RoundCreateBody, "organizer")
UpdateRound == Write(OfTournament \cup {"round_id"}, RoundUpdateBody, "organizer")
DeleteRound == Write(OfTournament \cup {"round_id"}, {}, "organizer")

CreateMatch == Write(OfTournament, MatchCreateBodyFrontend, "organizer")
UpdateMatch == Write(OfTournament \cup {"match_id"}, MatchBody, "organizer")
DeleteMatch == Write(OfTournament \cup {"match_id"}, {}, "organizer")
ScheduleMatches == Write(OfTournament, {}, "organizer")
=============================================================================
