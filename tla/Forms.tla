-------------------------------- MODULE Forms --------------------------------
(***************************************************************************)
(* One form of the frontend, while the row behind it is changed by others  *)
(* too: what the form shows and sends, what a reload does to it, and what  *)
(* its save writes.                                                        *)
(*                                                                         *)
(* Every form is one of two kinds.  An editor is bound to the values of a  *)
(* row the page has loaded, keeps what is typed (keepDirtyValues) and      *)
(* replaces the whole row; a creator starts from fixed defaults, adds a    *)
(* row and is cleared after that.  The form library marks a field as dirty *)
(* when it is typed into and clears the mark only when the field has its   *)
(* loaded value again, or with the whole form.                             *)
(*                                                                         *)
(* Values are versions: every text typed here and every change of another  *)
(* organizer is a new one.  Fields do not interact except in that they are *)
(* sent together, so two at a time are watched.                            *)
(***************************************************************************)
EXTENDS Naturals, FiniteSets, Api

CONSTANTS
    MaxVersions    \* bound on the texts typed and the changes of others

ASSUME VersionsAssumption == MaxVersions \in Nat

VARIABLES
    form,       \* the form, and the fields watched
    row,        \* the row in the database, for an editor
    created,    \* the texts that rows were created with, for a creator
    version,    \* the newest version
    shown,      \* the row as the page has loaded it
    values,     \* what the form holds
    dirty,      \* the fields the library takes for edited
    unsaved,    \* the fields typed into and not saved since
    unsure,     \* a save may have been applied although it failed
    save        \* the save under way

vars == <<form, row, created, version, shown, values, dirty, unsaved, unsure, save>>

----------------------------------------------------------------------------
(* The forms.  An editor sends the fields it lets the organizer type into  *)
(* and others it takes from the loaded row.                                *)
Editor(request, typed, kept) ==
    [creates |-> FALSE, body |-> request.body, typed |-> typed, sent |-> typed \cup kept]

Creator(request, typed) ==
    [creates |-> TRUE, body |-> request.body, typed |-> typed, sent |-> request.body]

RankingEditor == Editor(UpdateRanking, RankingBody, {})
NewRankingForm == Creator(CreateRanking, RankingCreateBody)
TournamentSettingsForm == Editor(UpdateTournament, TournamentUpdateBody, {})
StageForm == Editor(UpdateStage, StageUpdateBody, {})
NewStageItemForm == Creator(CreateStageItem, {"name", "type", "team_count", "ranking_id"})
(* Mutant of StageItemNameForm: only what is typed is sent. *)
StageItemOnlyNameForm == Editor(UpdateStageItem, {"name"}, {})
StageItemNameForm == Editor(UpdateStageItem, {"name"}, {"ranking_id"})
ScoreForm == Editor(UpdateMatch, {"stage_item_input1_score", "stage_item_input2_score"},
                    {"round_id", "custom_duration_minutes", "custom_margin_minutes"})
NewPlayerForm == Creator(CreateSinglePlayer, PlayerBody)
BulkPlayersForm == Creator(CreateMultiplePlayers, {"names"})
PlayerEditor == Editor(UpdatePlayer, PlayerBody, {})
NewTeamForm == Creator(CreateTeam, TeamBody)
BulkTeamsForm == Creator(CreateMultipleTeams, {"names"})
TeamEditor == Editor(UpdateTeam, TeamBody, {})
NewClubForm == Creator(CreateNewClub, ClubCreateBody)
ClubEditor == Editor(UpdateClub, ClubUpdateBody, {})
IdentityForm == Editor(UpdateUserDetails, UserToUpdate, {})
PasswordForm == Creator(PutUserPassword, UserPasswordToUpdate)
NewTournamentForm == Creator(CreateTournament, TournamentBody)

(* The forms of those who are signed in, but for the one that adds a       *)
(* pairing: its two selects depend on each other, and its saves are        *)
(* AddPairing of SwissRounds.                                              *)
Forms == {RankingEditor, NewRankingForm, TournamentSettingsForm, StageForm,
    NewStageItemForm, StageItemNameForm, ScoreForm, NewPlayerForm, BulkPlayersForm,
    PlayerEditor, NewTeamForm, BulkTeamsForm, TeamEditor, NewClubForm, ClubEditor,
    IdentityForm, PasswordForm, NewTournamentForm}

Watchable(f) ==
    IF f.creates THEN {{a} : a \in f.typed}
    ELSE {{a, b} : a \in f.typed, b \in f.body}

----------------------------------------------------------------------------

Fields == form.watched
Typed == Fields \cap form.typed
Version == 0..MaxVersions

(* A version of a new row, of an empty field and of a default. *)
Default == 0

Gone == [gone |-> TRUE]
Defaults == [f \in Fields |-> Default]

NoSave == [at |-> "idle", body |-> Defaults, saw |-> Defaults, edited |-> {}]

Row == [Fields -> Version]

TypeOK ==
    /\ row \in Row \cup {Gone}
    /\ created \subseteq Version
    /\ version \in Version
    /\ shown \in Row \cup {Gone}
    /\ values \in Row
    /\ dirty \subseteq Typed
    /\ unsaved \subseteq Typed
    /\ unsure \in BOOLEAN
    /\ save \in [at : {"idle", "sent", "applied"}, body : Row, saw : Row,
                 edited : SUBSET Typed]

Mounted == shown # Gone

(* Mutant of Reset: a reload replaces what is typed. *)
ResetAll(loaded) ==
    /\ shown' = loaded
    /\ IF loaded = Gone
       THEN values' = Defaults /\ dirty' = {} /\ unsaved' = {}
       ELSE values' = (IF form.creates THEN values ELSE loaded) /\ dirty' = {}

(* Loading the row again: what the library takes for edited stays, the     *)
(* rest follows the row.  A creator is not bound to a row.                 *)
Reset(loaded) ==
    /\ shown' = loaded
    /\ IF loaded = Gone
       THEN values' = Defaults /\ dirty' = {} /\ unsaved' = {}
       ELSE /\ values' = [f \in Fields |-> IF f \in dirty \/ form.creates
                                           THEN values[f] ELSE loaded[f]]
            /\ UNCHANGED dirty

Reload ==
    /\ Mounted
    /\ shown # row
    /\ Reset(row)
    /\ row # Gone => UNCHANGED unsaved
    /\ UNCHANGED <<form, row, created, version, unsure, save>>

Type(f) ==
    /\ Mounted
    /\ version < MaxVersions
    /\ version' = version + 1
    /\ values' = [values EXCEPT ![f] = version + 1]
    /\ dirty' = dirty \cup {f}
    /\ unsaved' = unsaved \cup {f}
    /\ UNCHANGED <<form, row, created, shown, unsure, save>>

(* Typing what was loaded, or emptying a creator's field. *)
TypeBack(f) ==
    /\ Mounted
    /\ values[f] # shown[f]
    /\ values' = [values EXCEPT ![f] = shown[f]]
    /\ dirty' = dirty \ {f}
    /\ unsaved' = unsaved \ {f}
    /\ UNCHANGED <<form, row, created, version, shown, unsure, save>>

----------------------------------------------------------------------------
(* The button is disabled while a save is under way, the fields are not.   *)

Body == [f \in Fields |-> IF f \in form.typed THEN values[f] ELSE shown[f]]

Submit ==
    /\ Mounted
    /\ save.at = "idle"
    /\ form.creates => values # Defaults
    /\ save' = [at |-> "sent", body |-> Body, saw |-> shown, edited |-> dirty]
    /\ UNCHANGED <<form, row, created, version, shown, values, dirty, unsaved, unsure>>

(* The row is replaced; the server fills a field that is not sent with its *)
(* default.                                                                *)
Apply ==
    /\ save.at = "sent"
    /\ row # Gone
    /\ IF form.creates
       THEN /\ created' = created \cup {save.body[f] : f \in Fields}
            /\ UNCHANGED row
       ELSE /\ row' = [f \in Fields |-> IF f \in form.sent THEN save.body[f] ELSE Default]
            /\ UNCHANGED created
    /\ save' = [save EXCEPT !.at = "applied"]
    /\ UNCHANGED <<form, version, shown, values, dirty, unsaved, unsure>>

(* An error message and nothing else: the form keeps what is typed.        *)
Failed ==
    /\ save.at \in {"sent", "applied"}
    /\ unsure' = (unsure \/ save.at = "applied")
    /\ save' = NoSave
    /\ UNCHANGED <<form, row, created, version, shown, values, dirty, unsaved>>

(* Mutant of Saved: a creator keeps what was sent. *)
SavedUncleared ==
    /\ save.at = "applied"
    /\ save' = NoSave
    /\ IF form.creates THEN UNCHANGED <<shown, values, dirty, unsaved>>
       ELSE Reset(row) /\ (row # Gone => UNCHANGED unsaved)
    /\ unsure' = FALSE
    /\ UNCHANGED <<form, row, created, version>>

(* The page has been reloaded before the save is over.  A creator is       *)
(* cleared then, an editor stays as it is.                                 *)
Saved ==
    /\ save.at = "applied"
    /\ save' = NoSave
    /\ IF form.creates
       THEN /\ values' = Defaults
            /\ dirty' = {}
            /\ unsaved' = {}
            /\ UNCHANGED shown
       ELSE /\ Reset(row)
            /\ row # Gone => unsaved' = {f \in unsaved : values[f] # save.body[f]}
    /\ unsure' = FALSE
    /\ UNCHANGED <<form, row, created, version>>

----------------------------------------------------------------------------
(* Other organizers, or this one elsewhere on the page. *)

OthersSave(f) ==
    /\ ~form.creates
    /\ row # Gone
    /\ version < MaxVersions
    /\ version' = version + 1
    /\ row' = [row EXCEPT ![f] = version + 1]
    /\ UNCHANGED <<form, created, shown, values, dirty, unsaved, unsure, save>>

Remove ==
    /\ ~form.creates
    /\ row # Gone
    /\ row' = Gone
    /\ UNCHANGED <<form, created, version, shown, values, dirty, unsaved, unsure, save>>

Init ==
    /\ \E f \in Forms : \E w \in Watchable(f) :
          form = [creates |-> f.creates, body |-> f.body, typed |-> f.typed,
                  sent |-> f.sent, watched |-> w]
    /\ row = Defaults
    /\ created = {}
    /\ version = 0
    /\ shown = Defaults
    /\ values = Defaults
    /\ dirty = {}
    /\ unsaved = {}
    /\ unsure = FALSE
    /\ save = NoSave

Next ==
    \/ Reload
    \/ \E f \in Typed : Type(f) \/ TypeBack(f)
    \/ Submit
    \/ Apply
    \/ Failed
    \/ Saved
    \/ \E f \in Fields : OthersSave(f)
    \/ Remove

Spec == Init /\ [][Next]_vars

----------------------------------------------------------------------------

(* A save leaves alone what another organizer changed, in every field of   *)
(* the row, as long as the page had loaded that change and the organizer   *)
(* had not typed into the field (values and keepDirtyValues of the forms,  *)
(* the fields ScoreForm and StageItemNameForm add to the body).            *)
LoadedChangesAreKept ==
    [][(Apply /\ ~form.creates) =>
          \A f \in Fields : (f \notin save.edited /\ save.saw[f] = row[f]) => row'[f] = row[f]]_vars

(* What is typed and not saved is thrown away only with its row, or when   *)
(* it was typed into a creator while its save was under way                *)
(* (resetOptions, form.reset).                                             *)
TypingIsKept ==
    [][\A f \in unsaved :
          \/ values'[f] = values[f]
          \/ version' # version \/ TypeBack(f)
          \/ shown' = Gone
          \/ form.creates /\ Saved]_vars

(* A creator adds a second row with the same text only if an earlier save  *)
(* was applied and its answer lost (form.reset after a success, the        *)
(* disabled button).                                                       *)
CreatedOnce ==
    [][(Apply /\ form.creates) => unsure \/ created' # created]_vars
=============================================================================
