---------------------------- MODULE FrontendProofs ----------------------------
(***************************************************************************)
(* Theorems about the frontend.  Of Forms, for every number of versions:   *)
(* what is typed is kept, what was loaded and not typed into is not        *)
(* overwritten, and a creator adds nothing twice unless an answer was      *)
(* lost.  Of Pages, for any set of teams: every link leads to a page with  *)
(* content, and no page sends or offers a request that is refused for who  *)
(* asks.                                                                   *)
(***************************************************************************)
EXTENDS Forms, Pages, TLAPS


(* Editors send every field of the row, creators watch what is typed.      *)
FormInv ==
    /\ form.creates \in BOOLEAN
    /\ form.creates => Fields \subseteq form.typed
    /\ ~form.creates => Fields \subseteq form.sent

(* A field that is not marked as edited shows what was loaded. *)
CleanInv == (~form.creates /\ Mounted) => \A f \in Fields \ dirty : values[f] = shown[f]

(* So does a field of a save that was not marked when it was sent. *)
SaveInv ==
    (~form.creates /\ save.at = "sent") =>
        \A f \in Fields \ save.edited : save.body[f] = save.saw[f]

(* No text is newer than the newest version, and one that was not sent is  *)
(* new to the table, unless an earlier save may have been applied.         *)
Fresh == \A f \in Fields : values[f] = Default \/ values[f] \notin created

CreatorInv ==
    /\ created \subseteq 0..version
    /\ \A f \in Fields : values[f] \in 0..version /\ save.body[f] \in 0..version
    /\ form.creates => shown = Defaults /\ row = Defaults
    /\ (form.creates /\ ~unsure /\ save.at # "applied") => Fresh
    /\ (form.creates /\ ~unsure /\ save.at = "sent") =>
          \E f \in Fields : save.body[f] \notin created

FormsInv ==
    /\ TypeOK
    /\ FormInv
    /\ unsaved \subseteq dirty
    /\ CleanInv
    /\ SaveInv
    /\ form.creates => CreatorInv

----------------------------------------------------------------------------

Whole(f) ==
    /\ f.creates \in BOOLEAN
    /\ ~f.creates => f.typed \subseteq f.sent /\ f.body \subseteq f.sent

(* An editor sends the whole row: the fields it lets the organizer type    *)
(* into and the others as loaded.                                          *)
LEMMA EditorsSendTheRow == \A f \in Forms : Whole(f)
<1> USE DEF Whole
<1>1. Whole(RankingEditor)
  BY DEF RankingEditor, Editor, UpdateRanking, Write, RankingBody
<1>2. Whole(TournamentSettingsForm)
  BY DEF TournamentSettingsForm, Editor, UpdateTournament, Write, TournamentUpdateBody
<1>3. Whole(StageForm)
  BY DEF StageForm, Editor, UpdateStage, Write, StageUpdateBody
<1>4. Whole(StageItemNameForm)
  BY DEF StageItemNameForm, Editor, UpdateStageItem, Write, StageItemUpdateBody
<1>5. Whole(ScoreForm)
  BY DEF ScoreForm, Editor, UpdateMatch, Write, MatchBody
<1>6. Whole(PlayerEditor)
  BY DEF PlayerEditor, Editor, UpdatePlayer, Write, PlayerBody
<1>7. Whole(TeamEditor)
  BY DEF TeamEditor, Editor, UpdateTeam, Write, TeamBody
<1>8. Whole(ClubEditor)
  BY DEF ClubEditor, Editor, UpdateClub, Write, ClubUpdateBody
<1>9. Whole(IdentityForm)
  BY DEF IdentityForm, Editor, UpdateUserDetails, Write, UserToUpdate
<1>10. ASSUME NEW request, NEW typed PROVE Whole(Creator(request, typed))
  BY DEF Creator
<1>11. /\ Whole(NewRankingForm) /\ Whole(NewStageItemForm) /\ Whole(NewPlayerForm)
       /\ Whole(BulkPlayersForm) /\ Whole(NewTeamForm) /\ Whole(BulkTeamsForm)
       /\ Whole(NewClubForm) /\ Whole(PasswordForm) /\ Whole(NewTournamentForm)
  BY <1>10 DEF NewRankingForm, NewStageItemForm, NewPlayerForm, BulkPlayersForm, NewTeamForm,
     BulkTeamsForm, NewClubForm, PasswordForm, NewTournamentForm
<1> QED
  BY <1>1, <1>2, <1>3, <1>4, <1>5, <1>6, <1>7, <1>8, <1>9, <1>11 DEF Forms

LEMMA FormInit == Init => FormInv
<1> SUFFICES ASSUME Init PROVE FormInv
  OBVIOUS
<1>1. PICK f \in Forms : \E w \in Watchable(f) :
         form = [creates |-> f.creates, body |-> f.body, typed |-> f.typed,
                 sent |-> f.sent, watched |-> w]
  BY DEF Init
<1>2. PICK w \in Watchable(f) :
         form = [creates |-> f.creates, body |-> f.body, typed |-> f.typed,
                 sent |-> f.sent, watched |-> w]
  BY <1>1
<1>3. Whole(f)
  BY EditorsSendTheRow
<1> QED
  BY <1>2, <1>3 DEF Whole, Watchable, FormInv, Fields

LEMMA FormStays == FormInv /\ [Next]_vars => FormInv'
BY DEF FormInv, Fields, Next, vars, Reload, Type, TypeBack, Submit, Apply, Failed, Saved,
   OthersSave, Remove

----------------------------------------------------------------------------
(* Types. *)

LEMMA DefaultsType == Defaults \in Row /\ 0 \in Version
BY VersionsAssumption DEF Defaults, Default, Row, Version

LEMMA TypeInit == Init /\ FormInv => TypeOK
<1> SUFFICES ASSUME Init, FormInv PROVE TypeOK
  OBVIOUS
<1>1. save \in [at : {"idle", "sent", "applied"}, body : Row, saw : Row, edited : SUBSET Typed]
  BY DefaultsType DEF Init, NoSave
<1>2. /\ row = Defaults /\ shown = Defaults /\ values = Defaults /\ version = 0
      /\ created = {} /\ dirty = {} /\ unsaved = {} /\ unsure = FALSE
  BY DEF Init
<1> QED
  BY <1>1, <1>2, DefaultsType DEF TypeOK

LEMMA ResetType ==
    ASSUME TypeOK, FormInv, row # Gone => row \in Row, Reset(row), UNCHANGED form
    PROVE  /\ (shown \in Row \cup {Gone})'
           /\ (values \in Row)'
           /\ (dirty \subseteq Typed)'
BY VersionsAssumption DEF TypeOK, Reset, Row, Typed, Fields, Defaults, Default, Version

LEMMA TypeStep == TypeOK /\ FormInv /\ [Next]_vars => TypeOK'
<1> SUFFICES ASSUME TypeOK, FormInv, [Next]_vars PROVE TypeOK'
  OBVIOUS
<1> USE VersionsAssumption
<1>0. UNCHANGED form => Fields' = Fields /\ Typed' = Typed /\ Row' = Row
  BY DEF Fields, Typed, Row
<1>1. CASE Reload
  <2>1. UNCHANGED form
    BY <1>1 DEF Reload
  <2>2. row # Gone => row \in Row
    BY DEF TypeOK
  <2>3. Reset(row)
    BY <1>1 DEF Reload
  <2>4. (unsaved \subseteq Typed)'
    BY <1>0, <1>1, <2>1, <2>3 DEF Reload, Reset, TypeOK
  <2> QED
    BY <1>0, <1>1, <2>1, <2>2, <2>3, <2>4, ResetType DEF Reload, TypeOK
<1>2. ASSUME NEW f \in Typed, Type(f) PROVE TypeOK'
  <2>1. version + 1 \in Version
    BY <1>2 DEF Type, TypeOK, Version
  <2>2. values' \in Row
    BY <1>2, <2>1 DEF Type, TypeOK, Row
  <2> QED
    BY <1>0, <1>2, <2>1, <2>2 DEF Type, TypeOK
<1>3. ASSUME NEW f \in Typed, TypeBack(f) PROVE TypeOK'
  <2>1. shown[f] \in Version
    BY <1>3 DEF TypeBack, TypeOK, Mounted, Row, Typed
  <2>2. values' \in Row
    BY <1>3, <2>1 DEF TypeBack, TypeOK, Row
  <2> QED
    BY <1>0, <1>3, <2>2 DEF TypeBack, TypeOK
<1>4. CASE Submit
  <2>1. shown \in Row
    BY <1>4 DEF Submit, Mounted, TypeOK
  <2>2. Body \in Row
    BY <2>1 DEF Body, TypeOK, Row
  <2> QED
    BY <1>0, <1>4, <2>1, <2>2 DEF Submit, TypeOK
<1>5. CASE Apply
  <2>1. save.body \in Row
    BY DEF TypeOK
  <2>2. {save.body[f] : f \in Fields} \subseteq Version
    BY <2>1 DEF Row
  <2>3. [f \in Fields |-> IF f \in form.sent THEN save.body[f] ELSE Default] \in Row
    BY <2>1 DEF Row, Version, Default
  <2>4. save' \in [at : {"idle", "sent", "applied"}, body : Row, saw : Row, edited : SUBSET Typed]
    BY <1>5 DEF Apply, TypeOK
  <2>5. row' \in Row \cup {Gone} /\ created' \subseteq Version
    BY <1>5, <2>2, <2>3 DEF Apply, TypeOK
  <2> QED
    BY <1>0, <1>5, <2>4, <2>5 DEF Apply, TypeOK
<1>6. CASE Failed
  BY <1>0, <1>6, DefaultsType DEF Failed, TypeOK, NoSave
<1>7. CASE Saved
  <2>1. UNCHANGED form
    BY <1>7 DEF Saved
  <2>2. save' \in [at : {"idle", "sent", "applied"}, body : Row, saw : Row, edited : SUBSET Typed]
    BY <1>7, DefaultsType DEF Saved, NoSave
  <2>3. CASE form.creates
    <3>1. /\ values' = Defaults /\ dirty' = {} /\ unsaved' = {} /\ shown' = shown
          /\ row' = row /\ created' = created /\ version' = version /\ unsure' = FALSE
      BY <1>7, <2>3 DEF Saved
    <3> QED
      BY <1>0, <2>1, <2>2, <3>1, DefaultsType DEF TypeOK, Version
  <2>4. CASE ~form.creates
    <3>1. Reset(row) /\ (row # Gone => row \in Row)
      BY <1>7, <2>4 DEF Saved, TypeOK
    <3>2. (unsaved \subseteq Typed)'
      BY <1>0, <1>7, <2>1, <2>4, <3>1 DEF Saved, Reset, TypeOK
    <3> QED
      BY <1>0, <1>7, <2>1, <2>2, <3>1, <3>2, ResetType DEF Saved, TypeOK
  <2> QED
    BY <2>3, <2>4
<1>8. ASSUME NEW f \in Fields, OthersSave(f) PROVE TypeOK'
  <2>1. version + 1 \in Version
    BY <1>8 DEF OthersSave, TypeOK, Version
  <2>2. row' \in Row
    BY <1>8, <2>1 DEF OthersSave, TypeOK, Row
  <2> QED
    BY <1>0, <1>8, <2>1, <2>2 DEF OthersSave, TypeOK
<1>9. CASE Remove
  BY <1>0, <1>9 DEF Remove, TypeOK
<1>10. CASE UNCHANGED vars
  BY <1>0, <1>10 DEF vars, TypeOK
<1> QED
  BY <1>1, <1>2, <1>3, <1>4, <1>5, <1>6, <1>7, <1>8, <1>9, <1>10 DEF Next

----------------------------------------------------------------------------
(* What the marks of the form library and the save under way say.          *)

LEMMA RestInit ==
    Init /\ FormInv => /\ unsaved \subseteq dirty
                       /\ CleanInv
                       /\ SaveInv
                       /\ CreatorInv
<1> SUFFICES ASSUME Init, FormInv
             PROVE  unsaved \subseteq dirty /\ CleanInv /\ SaveInv /\ CreatorInv
  OBVIOUS
<1>1. /\ row = Defaults /\ shown = Defaults /\ values = Defaults /\ version = 0
      /\ created = {} /\ dirty = {} /\ unsaved = {} /\ save = NoSave
  BY DEF Init
<1> QED
  BY <1>1 DEF CleanInv, SaveInv, CreatorInv, NoSave, Defaults, Default, Fresh

(* A field typed into and not saved is marked. *)
LEMMA DirtyStep ==
    ASSUME TypeOK, unsaved \subseteq dirty, [Next]_vars
    PROVE  unsaved' \subseteq dirty'
BY DEF Next, vars, Reload, Reset, Type, TypeBack, Submit, Apply, Failed, Saved, OthersSave, Remove

LEMMA CleanStep ==
    ASSUME TypeOK, FormInv, CleanInv, [Next]_vars
    PROVE  CleanInv'
<1> SUFFICES ASSUME ~form.creates, form' = form, shown' # Gone, NEW f \in Fields, f \notin dirty'
             PROVE  values'[f] = shown'[f]
  BY FormStays DEF CleanInv, Fields, Mounted, Next, vars, Reload, Type, TypeBack, Submit, Apply,
     Failed, Saved, OthersSave, Remove
<1>1. Reset(row) => values'[f] = shown'[f]
  BY DEF Reset, Defaults
<1>2. UNCHANGED <<values, shown, dirty>> => values'[f] = shown'[f]
  BY DEF CleanInv, Mounted
<1>3. ASSUME NEW g \in Typed, Type(g) PROVE values'[f] = shown'[f]
  BY <1>3 DEF Type, CleanInv, Mounted, TypeOK, Row
<1>4. ASSUME NEW g \in Typed, TypeBack(g) PROVE values'[f] = shown'[f]
  BY <1>4 DEF TypeBack, CleanInv, Mounted, TypeOK, Row
<1> QED
  BY <1>1, <1>2, <1>3, <1>4 DEF Next, vars, Reload, Submit, Apply, Failed, Saved, OthersSave, Remove

LEMMA SaveStep ==
    ASSUME TypeOK, FormInv, CleanInv, SaveInv, [Next]_vars
    PROVE  SaveInv'
<1>1. CASE Submit
  BY <1>1 DEF Submit, SaveInv, Body, CleanInv, Mounted, Fields
<1>2. CASE UNCHANGED <<form, save>>
  BY <1>2 DEF SaveInv, Fields
<1>3. CASE save'.at # "sent"
  BY <1>3 DEF SaveInv
<1>4. Apply \/ Failed \/ Saved => save'.at # "sent"
  BY DEF Apply, Failed, Saved, NoSave, TypeOK
<1> QED
  BY <1>1, <1>2, <1>3, <1>4 DEF Next, vars, Reload, Type, TypeBack, OthersSave, Remove

(* A creator: it sends only what is new to the table. *)
LEMMA CreatorStep ==
    ASSUME TypeOK, FormInv, form.creates, CreatorInv, [Next]_vars
    PROVE  CreatorInv'
<1> USE DEF Default
<1>0. form' = form /\ Fields' = Fields /\ version \in Nat
  BY VersionsAssumption DEF Fields, Next, vars, Reload, Type, TypeBack, Submit, Apply, Failed, Saved,
     OthersSave, Remove, TypeOK, Version
<1>1. ASSUME NEW f \in Typed, Type(f) PROVE CreatorInv'
  <2>1. /\ version' = version + 1 /\ created' = created /\ shown' = shown /\ row' = row
        /\ unsure' = unsure /\ save' = save
        /\ \A g \in Fields : values'[g] = IF g = f THEN version + 1 ELSE values[g]
    BY <1>1 DEF Type, TypeOK, Row
  <2>2. Fresh => Fresh'
    BY <1>0, <2>1 DEF Fresh, CreatorInv
  <2> QED
    BY <1>0, <2>1, <2>2 DEF CreatorInv, Defaults
<1>2. ASSUME NEW f \in Typed, TypeBack(f) PROVE CreatorInv'
  <2>1. /\ version' = version /\ created' = created /\ shown' = shown /\ row' = row
        /\ unsure' = unsure /\ save' = save
        /\ \A g \in Fields : values'[g] = IF g = f THEN 0 ELSE values[g]
    BY <1>2 DEF TypeBack, TypeOK, Row, CreatorInv, Defaults, Typed
  <2>2. Fresh => Fresh'
    BY <1>0, <2>1 DEF Fresh
  <2> QED
    BY <1>0, <2>1, <2>2 DEF CreatorInv, Defaults
<1>3. CASE Submit
  <2>1. /\ UNCHANGED <<form, row, created, version, shown, values, unsure>>
        /\ save'.at = "sent" /\ save'.body = Body /\ save.at = "idle" /\ values # Defaults
    BY <1>3 DEF Submit
  <2>2. \A f \in Fields : Body[f] = values[f]
    BY DEF Body, FormInv
  <2>3. PICK f \in Fields : values[f] # 0
    BY <2>1 DEF Defaults, TypeOK, Row
  <2>4. ~unsure => Fresh /\ Fresh' /\ values[f] \notin created
    BY <1>0, <2>1, <2>3 DEF CreatorInv, Fresh
  <2>5. Defaults' = Defaults
    BY <1>0 DEF Defaults
  <2> QED
    BY <1>0, <2>1, <2>2, <2>3, <2>4, <2>5 DEF CreatorInv
<1>4. CASE Apply
  <2>1. /\ UNCHANGED <<form, row, version, shown, values, unsure>>
        /\ save'.at = "applied" /\ save'.body = save.body
        /\ created' = created \cup {save.body[f] : f \in Fields}
    BY <1>4 DEF Apply, TypeOK
  <2>2. Defaults' = Defaults
    BY <1>0 DEF Defaults
  <2> QED
    BY <1>0, <2>1, <2>2 DEF CreatorInv
<1>5. CASE Failed
  <2>1. /\ UNCHANGED <<form, row, created, version, shown, values>>
        /\ save' = NoSave
    BY <1>5 DEF Failed
  <2>2. Defaults' = Defaults /\ (Fresh => Fresh')
    BY <1>0, <2>1 DEF Defaults, Fresh
  <2>3. ~unsure' => ~unsure /\ save.at # "applied"
    BY <1>5, Zenon DEF Failed
  <2>4. ~unsure' => Fresh'
    BY <2>2, <2>3 DEF CreatorInv
  <2>5. save'.at = "idle" /\ \A f \in Fields : save'.body[f] = 0
    BY <2>1 DEF NoSave, Defaults
  <2> QED
    BY <1>0, <2>1, <2>2, <2>4, <2>5 DEF CreatorInv
<1>6. CASE Saved
  <2>1. /\ UNCHANGED <<form, row, created, version, shown>>
        /\ save' = NoSave /\ values' = Defaults
    BY <1>6 DEF Saved
  <2>2. Defaults' = Defaults /\ Fresh'
    BY <1>0, <2>1 DEF Defaults, Fresh
  <2> QED
    BY <1>0, <2>1, <2>2 DEF CreatorInv, NoSave, Defaults
<1>7. CASE UNCHANGED vars
  BY <1>0, <1>7 DEF vars, CreatorInv, Fresh, Defaults
<1>8. ~Reload /\ ~Remove /\ \A f \in Fields : ~OthersSave(f)
  BY DEF Reload, Remove, OthersSave, CreatorInv
<1> QED
  BY <1>1, <1>2, <1>3, <1>4, <1>5, <1>6, <1>7, <1>8 DEF Next

----------------------------------------------------------------------------

LEMMA Initially == Init => FormsInv
BY FormInit, TypeInit, RestInit DEF FormsInv

LEMMA Inductive == FormsInv /\ [Next]_vars => FormsInv'
<1> SUFFICES ASSUME FormsInv, [Next]_vars PROVE FormsInv'
  OBVIOUS
<1>1. FormInv' /\ TypeOK'
  BY FormStays, TypeStep DEF FormsInv
<1>2. unsaved' \subseteq dirty' /\ CleanInv' /\ SaveInv'
  BY DirtyStep, CleanStep, SaveStep DEF FormsInv
<1>3. form' = form
  BY DEF Next, vars, Reload, Type, TypeBack, Submit, Apply, Failed, Saved, OthersSave, Remove
<1>4. form.creates => CreatorInv'
  BY CreatorStep DEF FormsInv
<1> QED
  BY <1>1, <1>2, <1>3, <1>4 DEF FormsInv

(* The inductive invariant of a form. *)
THEOREM FormsInvariant == Spec => []FormsInv
BY Initially, Inductive, PTL DEF Spec

(* The form, the row and the save under way keep their types, for every    *)
(* form and every number of versions.                                      *)
THEOREM FormsTypeCorrect == Spec => []TypeOK
<1>1. FormsInv => TypeOK
  BY DEF FormsInv
<1> QED
  BY <1>1, FormsInvariant, PTL

(* A reload, a failed save, a save of others: none throws away what is     *)
(* typed and not saved (resetOptions, form.reset).                         *)
THEOREM NoTypingIsLost == Spec => TypingIsKept
<1> DEFINE Kept == \A f \in unsaved :
          \/ values'[f] = values[f]
          \/ version' # version \/ TypeBack(f)
          \/ shown' = Gone
          \/ form.creates /\ Saved
<1>1. FormsInv /\ [Next]_vars => [Kept]_vars
  <2> SUFFICES ASSUME FormsInv, Next, NEW f \in unsaved
               PROVE  \/ values'[f] = values[f]
                      \/ version' # version \/ TypeBack(f)
                      \/ shown' = Gone
                      \/ form.creates /\ Saved
    OBVIOUS
  <2>1. f \in dirty /\ f \in Fields /\ version \in Nat
    BY VersionsAssumption DEF FormsInv, TypeOK, Typed, Version
  <2>2. Reset(row) => values'[f] = values[f] \/ shown' = Gone
    BY <2>1 DEF Reset
  <2>3. ASSUME NEW g \in Typed, Type(g) PROVE version' # version
    BY <2>1, <2>3 DEF Type
  <2>4. ASSUME NEW g \in Typed, TypeBack(g) PROVE values'[f] = values[f] \/ TypeBack(f)
    BY <2>1, <2>4 DEF TypeBack, FormsInv, TypeOK, Row
  <2> QED
    BY <2>2, <2>3, <2>4 DEF Next, Reload, Submit, Apply, Failed, Saved, OthersSave, Remove
<1> QED
  BY <1>1, FormsInvariant, PTL DEF Spec, TypingIsKept

(* A save writes back what the page has loaded, in every field nobody      *)
(* typed into: no change of others that was loaded is overwritten          *)
(* (keepDirtyValues, the fields a form adds to its body).                  *)
THEOREM NoLoadedChangeIsLost == Spec => LoadedChangesAreKept
<1> DEFINE Kept == (Apply /\ ~form.creates) =>
          \A f \in Fields : (f \notin save.edited /\ save.saw[f] = row[f]) => row'[f] = row[f]
<1>1. FormsInv /\ [Next]_vars => [Kept]_vars
  BY DEF FormsInv, FormInv, SaveInv, Apply
<1> QED
  BY <1>1, FormsInvariant, PTL DEF Spec, LoadedChangesAreKept

(* What a creator adds is new, unless an earlier answer was lost           *)
(* (form.reset after a success, the disabled button).                      *)
THEOREM NothingIsCreatedTwice == Spec => CreatedOnce
<1> DEFINE Once == (Apply /\ form.creates) => unsure \/ created' # created
<1>1. FormsInv /\ [Next]_vars => [Once]_vars
  BY DEF FormsInv, CreatorInv, Apply
<1> QED
  BY <1>1, FormsInvariant, PTL DEF Spec, CreatedOnce

----------------------------------------------------------------------------
(* Getting around. *)


Keys == {"id", "link"}

(* An address, as far as where it leads goes. *)
Known(at) ==
    /\ at.page \in SitePages \cup TournamentPages
    /\ at.page \in TournamentPages => at.key \in Keys

(* What a link is to lead to: nothing replaces the address, and its page    *)
(* has content.                                                             *)
Good(at) ==
    /\ Known(at)
    /\ RedirectedTo(at) = at
    /\ Display(at) = "page"
    /\ at.item # "none" => LandsOnItem(at, at.item)

(* What one of the two addresses of the tournament is good for. *)
KeyLoads(key) ==
    /\ key \in Keys
    /\ tournament.exists
    /\ key = "link" => tournament.public /\ tournament.named
    /\ key = "id" => canManage \/ tournament.open \/ tournament.public

AddressFields(at, page, key, team, item) ==
    at.page = page /\ at.key = key /\ at.team = team /\ at.item = item

LEMMA FieldsAre ==
    /\ \A p : AddressFields(Site(p), p, "none", Nobody, "none")
    /\ \A p, k : AddressFields(Tournament(p, k), p, k, Nobody, "none")
    /\ \A k, t : AddressFields(Team(k, t), "dashboard-team", k, t, "none")
BY DEF AddressFields, Site, Tournament, Team, Address

LEMMA SiteGood ==
    /\ Good(Site("home")) /\ Good(Site("login")) /\ Good(Site("password-reset"))
    /\ registration => Good(Site("create-account"))
    /\ isAuthenticated => Good(Site("events")) /\ Good(Site("user"))
<1>1. ASSUME NEW p \in {"home", "login", "password-reset", "create-account", "events", "user"},
             p = "create-account" => registration,
             p \in {"events", "user"} => isAuthenticated
      PROVE  Good(Site(p))
  <2> DEFINE at == Site(p)
  <2>1. at.page = p /\ at.item = "none"
    BY FieldsAre DEF AddressFields
  <2> HIDE DEF at
  <2>2. Known(at)
    BY <2>1 DEF Known, SitePages, TournamentPages, WorkspacePages, ManagementSections,
                DetailsPages, BigScreens, MovedPages
  <2>3. RedirectedTo(at) = at
    BY <1>1, <2>1 DEF RedirectedTo, sendVisitorToDetails, detailsSuffix
  <2>4. Display(at) = "page"
    BY <1>1, <2>1 DEF Display, TournamentPages, WorkspacePages, ManagementSections,
                DetailsPages, BigScreens, MovedPages
  <2> QED
    BY <2>1, <2>2, <2>3, <2>4 DEF Good, at
<1> QED
  BY <1>1

(* The Details pages of an address that loads. *)
LEMMA DetailsGood ==
    ASSUME NEW at, at.page \in DetailsPages \cup BigScreens, KeyLoads(at.key),
           at.page = "dashboard-standings" => hasGroups,
           at.page = "dashboard-bracket" => hasBrackets,
           at.page = "dashboard-team" => at.team \in tournament.teams,
           at.item # "none" => LandsOnItem(at, at.item)
    PROVE  Good(at)
<1>1. Known(at)
  BY DEF Known, TournamentPages, KeyLoads
<1>2. Loads(at)
  BY DEF KeyLoads, Loads, dashboardMode
<1>3. RedirectedTo(at) = at
  BY DEF RedirectedTo, sendVisitorToDetails, detailsSuffix, DetailsPages, BigScreens
<1>4. Display(at) = "page"
  BY <1>2 DEF Display, DetailsPages, BigScreens, ManagementSections
<1> QED
  BY <1>1, <1>3, <1>4 DEF Good

LEMMA TournamentGood ==
    ASSUME NEW page \in (DetailsPages \ {"dashboard-team"}) \cup BigScreens, NEW key, KeyLoads(key),
           page = "dashboard-standings" => hasGroups,
           page = "dashboard-bracket" => hasBrackets
    PROVE  Good(Tournament(page, key))
<1> DEFINE at == Tournament(page, key)
<1>1. at.page = page /\ at.key = key /\ at.item = "none" /\ page # "dashboard-team"
  BY FieldsAre DEF AddressFields, BigScreens
<1> HIDE DEF at
<1>2. Good(at)
  BY <1>1, DetailsGood
<1> QED
  BY <1>2 DEF at

LEMMA TeamGood ==
    ASSUME NEW key, KeyLoads(key), NEW t \in tournament.teams
    PROVE  Good(Team(key, t))
<1> DEFINE at == Team(key, t)
<1>1. at.page = "dashboard-team" /\ at.key = key /\ at.team = t /\ at.item = "none"
  BY FieldsAre DEF AddressFields
<1> HIDE DEF at
<1>2. Good(at)
  BY <1>1, DetailsGood DEF DetailsPages
<1> QED
  BY <1>2 DEF at

LEMMA ItemGood ==
    ASSUME NEW key, KeyLoads(key), tournament.items \subseteq Types, NEW t \in tournament.items
    PROVE  Good(stageItemPath(key, t))
<1> DEFINE at == stageItemPath(key, t)
<1>1. /\ at.page = IF t = "SINGLE_ELIMINATION" THEN "dashboard-bracket" ELSE "dashboard-standings"
      /\ at.key = key /\ at.item = t
  BY DEF stageItemPath, Address
<1>2. t \in Types
  OBVIOUS
<1> HIDE DEF at
<1>3. CASE t = "SINGLE_ELIMINATION"
  <2>1. at.page = "dashboard-bracket" /\ hasBrackets
    BY <1>1, <1>3 DEF hasBrackets
  <2>2. LandsOnItem(at, at.item)
    BY <1>1, <1>3, <2>1 DEF LandsOnItem, ItemsShown, HasTable
  <2>3. Good(at)
    BY <1>1, <2>1, <2>2, DetailsGood DEF DetailsPages
  <2> QED
    BY <2>3 DEF at
<1>4. CASE t # "SINGLE_ELIMINATION"
  <2>1. at.page = "dashboard-standings" /\ hasGroups
    BY <1>1, <1>4 DEF hasGroups
  <2>2. LandsOnItem(at, at.item)
    BY <1>1, <1>4, <2>1 DEF LandsOnItem, ItemsShown, HasTable
  <2>3. Good(at)
    BY <1>1, <2>1, <2>2, DetailsGood DEF DetailsPages
  <2> QED
    BY <2>3 DEF at
<1> QED
  BY <1>3, <1>4

(* An organizer's own pages. *)
LEMMA WorkspaceGood ==
    ASSUME canManage, tournament.exists, NEW page \in WorkspacePages
    PROVE  Good(Tournament(page, "id"))
<1> DEFINE at == Tournament(page, "id")
<1>1. at.page = page /\ at.key = "id" /\ at.item = "none"
  BY FieldsAre DEF AddressFields
<1> HIDE DEF at
<1>2. Known(at)
  BY <1>1 DEF Known, TournamentPages, Keys
<1>3. Loads(at) /\ isAuthenticated
  BY <1>1 DEF Loads, canManage, isAuthenticated
<1>4. RedirectedTo(at) = at
  BY <1>1, <1>3 DEF RedirectedTo, sendVisitorToDetails, detailsSuffix, WorkspacePages, ManagementSections
<1>5. Display(at) = "page"
  BY <1>1, <1>3 DEF Display, WorkspacePages, ManagementSections
<1>6. Good(at)
  BY <1>1, <1>2, <1>4, <1>5 DEF Good
<1> QED
  BY <1>6 DEF at

(* Where the links of a page to the Details pages lead. *)
LEMMA PublicPathLoads ==
    ASSUME NEW at, at.key \in Keys, Loads(at)
    PROVE  /\ KeyLoads(publicPath(at))
           /\ dashboardMode(at.page) => KeyLoads(at.key)
           /\ ~dashboardMode(at.page) => KeyLoads(publicTournamentPath)
BY DEF Keys, Loads, KeyLoads, publicPath, publicTournamentPath

----------------------------------------------------------------------------
(* The links of the parts of a page of the tournament.                     *)

ItemsAre == tournament.items \subseteq Types /\ tournament.filled \subseteq tournament.items

LEMMA TeamLinksGood ==
    ASSUME NEW key, KeyLoads(key)
    PROVE  \A link \in TeamLinks(key) : Good(link)
BY TeamGood DEF TeamLinks

LEMMA OverviewGood ==
    ASSUME NEW key, KeyLoads(key), ItemsAre
    PROVE  \A link \in OverviewSection(key) : Good(link)
<1>1. \A link \in MyTeamPanel(key) : Good(link)
  <2>1. Good(Tournament("dashboard-teams", key))
    BY TournamentGood DEF DetailsPages
  <2>2. myTeam \in tournament.teams => Good(Team(key, myTeam))
    BY TeamGood
  <2>3. MyTeamPanel(key) \subseteq {Tournament("dashboard-teams", key)} \cup
           {l \in {Team(key, myTeam)} : myTeam \in tournament.teams}
    BY DEF MyTeamPanel
  <2> QED
    BY <2>1, <2>2, <2>3
<1>2. \A link \in {stageItemPath(key, t) : t \in tournament.items} : Good(link)
  BY ItemGood DEF ItemsAre
<1> QED
  BY <1>1, <1>2, TeamLinksGood DEF OverviewSection

LEMMA ContentGood ==
    ASSUME NEW at, at.key \in Keys, Loads(at), ItemsAre
    PROVE  \A link \in Content(at) : Good(link)
<1> DEFINE key == publicPath(at)
<1>1. /\ KeyLoads(key)
      /\ dashboardMode(at.page) => KeyLoads(at.key)
      /\ ~dashboardMode(at.page) => KeyLoads(publicTournamentPath)
  BY PublicPathLoads
<1> HIDE DEF key
<1>2. CASE at.page \in {"overview", "dashboard"}
  <2>1. Content(at) = OverviewSection(key)
    BY <1>2 DEF Content, key
  <2> QED
    BY <1>1, <2>1, OverviewGood
<1>3. CASE at.page \in {"schedule", "dashboard-schedule"}
  <2>1. Content(at) = {Tournament("dashboard-present-schedule", key)} \cup TeamLinks(key)
    BY <1>3 DEF Content, ScheduleSection, key
  <2>2. Good(Tournament("dashboard-present-schedule", key))
    BY <1>1, TournamentGood DEF BigScreens, DetailsPages
  <2> QED
    BY <1>1, <2>1, <2>2, TeamLinksGood
<1>4. CASE at.page \in {"dashboard-standings", "dashboard-bracket", "dashboard-present-standings",
                        "dashboard-teams", "dashboard-team"}
  <2>1. KeyLoads(at.key)
    BY <1>1, <1>4 DEF dashboardMode, DetailsPages, BigScreens
  <2>2. Good(Tournament("dashboard-present-standings", at.key)) /\ Good(Tournament("dashboard-teams", at.key))
    BY <2>1, TournamentGood DEF BigScreens, DetailsPages
  <2>3. \A link \in {stageItemPath(at.key, t) : t \in tournament.filled \ {"SINGLE_ELIMINATION"}} : Good(link)
    BY <2>1, ItemGood DEF ItemsAre
  <2>4. Content(at) \subseteq
           {Tournament("dashboard-present-standings", at.key), Tournament("dashboard-teams", at.key)}
           \cup TeamLinks(at.key)
           \cup {stageItemPath(at.key, t) : t \in tournament.filled \ {"SINGLE_ELIMINATION"}}
    BY <1>4 DEF Content, StandingsSection, BracketSection, TeamDirectorySection, TeamDetailSection
  <2> QED
    BY <2>1, <2>2, <2>3, <2>4, TeamLinksGood
<1>5. CASE at.page \in {"settings", "rankings", "stages"}
  <2>1. KeyLoads(publicTournamentPath)
    BY <1>1, <1>5 DEF dashboardMode, DetailsPages, BigScreens
  <2>2. Good(Tournament("dashboard", publicTournamentPath))
    BY <2>1, TournamentGood DEF DetailsPages
  <2>3. \A t \in tournament.teams : Good(Team(publicTournamentPath, t))
    BY <2>1, TeamGood
  <2>4. Content(at) \subseteq {Tournament("dashboard", publicTournamentPath)}
                             \cup {Team(publicTournamentPath, t) : t \in tournament.teams}
    BY <1>5 DEF Content, SettingsSection, RankingsSection, StagesSection, TeamLinks
  <2> QED
    BY <2>2, <2>3, <2>4
<1>6. CASE at.page \notin {"overview", "dashboard", "schedule", "dashboard-schedule",
                           "dashboard-standings", "dashboard-bracket", "dashboard-present-standings",
                           "dashboard-teams", "dashboard-team", "settings", "rankings", "stages"}
  BY <1>6 DEF Content
<1> QED
  BY <1>2, <1>3, <1>4, <1>5, <1>6

(* A page that shows something and is not replaced was opened by who may    *)
(* manage the tournament, or is one of the Details pages.                   *)
LEMMA WorkspaceIsForOrganizers ==
    ASSUME NEW at, at.page \in TournamentPages, RedirectedTo(at) = at, Display(at) = "page",
           ~dashboardMode(at.page)
    PROVE  Loads(at) /\ canManage /\ at.page \in WorkspacePages
<1>1. at.page \in WorkspacePages \cup MovedPages /\ at.page # "dashboard-team"
  BY DEF TournamentPages, dashboardMode, DetailsPages
<1>2. Loads(at)
  BY DEF Display, SitePages, TournamentPages, WorkspacePages, ManagementSections, DetailsPages,
         BigScreens, MovedPages
<1>3. CASE at.page \in ManagementSections
  BY <1>2, <1>3 DEF Display, ManagementSections, WorkspacePages
<1>4. CASE at.page \in {"overview", "schedule"}
  <2>1. detailsSuffix(at.page) # "none" /\ detailsSuffix(at.page) # at.page
    BY <1>4 DEF detailsSuffix
  <2>2. Tournament(detailsSuffix(at.page), at.key) # at
    BY <2>1, FieldsAre DEF AddressFields
  <2>3. canManage
    <3> SUFFICES ASSUME ~canManage
                 PROVE  FALSE
      OBVIOUS
    <3>1. RedirectedTo(at) = Tournament(detailsSuffix(at.page), at.key)
      BY <1>2, <1>4, <2>1 DEF RedirectedTo, sendVisitorToDetails
    <3> QED
      BY <2>2, <3>1
  <2> QED
    BY <1>2, <1>4, <2>3 DEF WorkspacePages
<1>5. CASE at.page \in MovedPages
  <2>1. CASE at.page = "results"
    <3>1. RedirectedTo(at) = Tournament("schedule", at.key)
      BY <2>1 DEF RedirectedTo, sendVisitorToDetails, detailsSuffix
    <3> QED
      BY <2>1, <3>1, FieldsAre DEF AddressFields
  <2>2. CASE at.page = "dashboard-present-courts"
    <3>1. RedirectedTo(at) = Tournament("dashboard-present-schedule", at.key)
      BY <2>2 DEF RedirectedTo, sendVisitorToDetails, detailsSuffix
    <3> QED
      BY <2>2, <3>1, FieldsAre DEF AddressFields
  <2> QED
    BY <1>5, <2>1, <2>2 DEF MovedPages
<1> QED
  BY <1>1, <1>3, <1>4, <1>5 DEF WorkspacePages

LEMMA ShownIsLoaded ==
    ASSUME NEW at, at.page \in TournamentPages, RedirectedTo(at) = at,
           Display(at) \in {"page", "no such team"}
    PROVE  /\ Loads(at)
           /\ dashboardMode(at.page) \/ (canManage /\ at.page \in WorkspacePages)
<1>1. CASE Display(at) = "page"
  <2>1. CASE dashboardMode(at.page)
    BY <1>1, <2>1 DEF Display, dashboardMode, SitePages, TournamentPages, WorkspacePages,
                      ManagementSections, DetailsPages, BigScreens, MovedPages
  <2> QED
    BY <1>1, <2>1, WorkspaceIsForOrganizers
<1>2. CASE Display(at) = "no such team"
  <2>1. at.page = "dashboard-team" /\ Loads(at)
    BY <1>2 DEF Display
  <2> QED
    BY <2>1 DEF dashboardMode, DetailsPages
<1> QED
  BY <1>1, <1>2

LEMMA HeaderGood ==
    ASSUME NEW at, at.key \in Keys, Loads(at), dashboardMode(at.page) \/ canManage
    PROVE  \A link \in TournamentHeader(at) : Good(link)
<1>1. /\ KeyLoads(publicPath(at)) /\ tournament.exists
      /\ dashboardMode(at.page) => KeyLoads(at.key)
  BY PublicPathLoads DEF Loads
<1>2. CASE dashboardMode(at.page)
  <2>1. \A p \in {"dashboard", "dashboard-schedule", "dashboard-teams"} : Good(Tournament(p, at.key))
    BY <1>1, <1>2, TournamentGood DEF DetailsPages
  <2>2. /\ hasGroups => Good(Tournament("dashboard-standings", at.key))
        /\ hasBrackets => Good(Tournament("dashboard-bracket", at.key))
    BY <1>1, <1>2, TournamentGood DEF DetailsPages
  <2>3. canManage => Good(Tournament("overview", "id"))
    BY <1>1, WorkspaceGood DEF WorkspacePages
  <2> QED
    BY <1>2, <2>1, <2>2, <2>3 DEF TournamentHeader, detailsTabs
<1>3. CASE ~dashboardMode(at.page)
  <2>1. Good(Tournament("dashboard", publicPath(at)))
    BY <1>1, TournamentGood DEF DetailsPages
  <2>2. \A p \in WorkspacePages : Good(Tournament(p, "id"))
    BY <1>1, <1>3, WorkspaceGood
  <2> QED
    BY <1>3, <2>1, <2>2 DEF TournamentHeader, workspaceTabs
<1> QED
  BY <1>2, <1>3

LEMMA TournamentViewGood ==
    ASSUME NEW at, at.page \in TournamentPages, at.key \in Keys, ItemsAre, RedirectedTo(at) = at,
           Display(at) \in {"page", "no such team"}
    PROVE  \A link \in TournamentView(at) : Good(link)
<1>1. Loads(at) /\ (dashboardMode(at.page) \/ canManage)
  BY ShownIsLoaded
<1>2. \A link \in Content(at) : Good(link)
  BY <1>1, ContentGood
<1>3. \A link \in TournamentHeader(at) : Good(link)
  BY <1>1, HeaderGood
<1>4. at.page \in BigScreens => Good(ExitBigScreen(at))
  <2>1. at.page \in BigScreens => KeyLoads(at.key)
    BY <1>1, PublicPathLoads DEF dashboardMode
  <2> QED
    BY <2>1, TournamentGood DEF ExitBigScreen, DetailsPages
<1> QED
  BY <1>2, <1>3, <1>4 DEF TournamentView

LEMMA HomeGood == \A link \in HomePage : Good(link)
<1>1. CASE ~isAuthenticated /\ tournament.exists /\ (tournament.open \/ tournament.public)
  <2>1. KeyLoads(publicTournamentPath)
    BY <1>1 DEF KeyLoads, publicTournamentPath, Keys
  <2>2. HomePage = {Tournament("dashboard", publicTournamentPath)}
    BY <1>1 DEF HomePage, canManage, isAuthenticated
  <2> QED
    BY <2>1, <2>2, TournamentGood DEF DetailsPages
<1>2. CASE canManage /\ tournament.exists
  <2>1. Good(Tournament("overview", "id"))
    BY <1>2, WorkspaceGood DEF WorkspacePages
  <2>2. KeyLoads(publicTournamentPath)
    BY <1>2 DEF KeyLoads, publicTournamentPath, Keys
  <2>3. HomePage \subseteq {Tournament("overview", "id"), Tournament("dashboard", publicTournamentPath)}
    BY <1>2 DEF HomePage, canManage, isAuthenticated
  <2>4. Good(Tournament("dashboard", publicTournamentPath))
    BY <2>2, TournamentGood DEF DetailsPages
  <2> QED
    BY <2>1, <2>3, <2>4
<1>3. CASE ~(canManage /\ tournament.exists)
           /\ ~(~isAuthenticated /\ tournament.exists /\ (tournament.open \/ tournament.public))
  BY <1>3 DEF HomePage
<1> QED
  BY <1>1, <1>2, <1>3

LEMMA LinksGood ==
    ASSUME NEW at, Known(at), ItemsAre
    PROVE  \A link \in Links(at) : Good(link)
<1> SUFFICES ASSUME RedirectedTo(at) = at
             PROVE  \A link \in PageLinks(at) \cup TopNav : Good(link)
  BY DEF Links
<1>1. \A link \in TopNav : Good(link)
  BY SiteGood DEF TopNav
<1>2. \A link \in LoginPage \cup RegisterPage \cup UserPage \cup NotFoundPage : Good(link)
  BY SiteGood DEF LoginPage, RegisterPage, UserPage, NotFoundPage
<1>3. CASE at.page \notin TournamentPages
  <2>1. PageLinks(at) \subseteq HomePage \cup LoginPage \cup RegisterPage \cup UserPage \cup NotFoundPage
    BY <1>3 DEF PageLinks
  <2> QED
    BY <1>1, <1>2, <2>1, HomeGood
<1>4. CASE at.page \in TournamentPages
  <2>1. at.key \in Keys /\ at.page \notin {"home", "login", "create-account", "user", "nowhere"}
    BY <1>4 DEF Known, TournamentPages, WorkspacePages, ManagementSections, DetailsPages, BigScreens, MovedPages
  <2>2. CASE Display(at) \in {"page", "no such team"}
    <3>1. PageLinks(at) = TournamentView(at)
      BY <1>4, <2>1, <2>2 DEF PageLinks
    <3> QED
      BY <1>1, <1>4, <2>1, <2>2, <3>1, TournamentViewGood
  <2>3. CASE Display(at) = "read-only"
    <3>1. PageLinks(at) = {Tournament("dashboard", publicTournamentPath)}
      BY <1>4, <2>1, <2>3 DEF PageLinks
    <3>2. at.page \in ManagementSections /\ Loads(at)
      BY <2>3 DEF Display
    <3>3. KeyLoads(publicTournamentPath)
      BY <2>1, <3>2, PublicPathLoads DEF dashboardMode, ManagementSections, DetailsPages, BigScreens
    <3> QED
      BY <1>1, <3>1, <3>3, TournamentGood DEF DetailsPages
  <2>4. CASE Display(at) \notin {"page", "no such team", "read-only"}
    <3>1. PageLinks(at) \subseteq {Site("login")}
      BY <1>4, <2>1, <2>4 DEF PageLinks
    <3> QED
      BY <1>1, <3>1, SiteGood
  <2> QED
    BY <2>2, <2>3, <2>4
<1> QED
  BY <1>3, <1>4

Still(x) == RedirectedTo(x) = x

(* No address is replaced for ever.                                         *)
LEMMA ArrivesSomewhere ==
    ASSUME NEW at, Known(at)
    PROVE  /\ RedirectedTo(Arrives(at)) = Arrives(at)
           /\ Known(RedirectedTo(at))
<1>1. ASSUME NEW x, Still(x)
      PROVE  RedirectedTo(RedirectedTo(RedirectedTo(x))) = x
  BY <1>1 DEF Still
<1>2. ASSUME NEW x, x.page \notin {"results", "dashboard-present-courts", "events", "overview", "schedule",
                                   "dashboard-standings", "dashboard-bracket"}
      PROVE  Still(x)
  BY <1>2 DEF Still, RedirectedTo, sendVisitorToDetails, detailsSuffix
<1>3. Still(Site("login"))
  <2>1. Site("login").page = "login"
    BY FieldsAre DEF AddressFields
  <2> QED
    BY <1>2, <2>1
<1>4. ASSUME NEW k, NEW p \in {"dashboard", "dashboard-schedule", "dashboard-present-schedule"}
      PROVE  Still(Tournament(p, k))
  <2>1. Tournament(p, k).page = p
    BY FieldsAre DEF AddressFields
  <2> QED
    BY <1>2, <2>1
<1>5. ASSUME NEW k
      PROVE  /\ hasBrackets => Still(Tournament("dashboard-bracket", k))
             /\ hasGroups => Still(Tournament("dashboard-standings", k))
  <2>1. Tournament("dashboard-bracket", k).page = "dashboard-bracket"
        /\ Tournament("dashboard-standings", k).page = "dashboard-standings"
    BY FieldsAre DEF AddressFields
  <2> QED
    BY <2>1 DEF Still, RedirectedTo, sendVisitorToDetails, detailsSuffix
<1>6. ASSUME NEW x, x.page \in {"overview", "schedule"}
      PROVE  \/ Still(x)
             \/ \E p \in {"dashboard", "dashboard-schedule"} : RedirectedTo(x) = Tournament(p, x.key)
  BY <1>6 DEF Still, RedirectedTo, sendVisitorToDetails, detailsSuffix
<1>7. ASSUME NEW x, Still(RedirectedTo(x))
      PROVE  Still(RedirectedTo(RedirectedTo(RedirectedTo(x))))
  BY <1>7 DEF Still
<1>8. ASSUME NEW x, x.page # "results"
      PROVE  Still(RedirectedTo(x))
  <2>1. CASE x.page = "dashboard-present-courts"
    <3>1. RedirectedTo(x) = Tournament("dashboard-present-schedule", x.key)
      BY <2>1 DEF RedirectedTo, sendVisitorToDetails, detailsSuffix
    <3> QED
      BY <1>4, <3>1
  <2>2. CASE x.page = "events"
    <3>1. RedirectedTo(x) \in {x, Site("login")}
      BY <2>2 DEF RedirectedTo, sendVisitorToDetails, detailsSuffix
    <3> QED
      BY <1>3, <3>1 DEF Still
  <2>3. CASE x.page \in {"overview", "schedule"}
    BY <1>4, <1>6, <2>3 DEF Still
  <2>4. CASE x.page = "dashboard-standings"
    <3>1. RedirectedTo(x) = x \/ (hasBrackets /\ RedirectedTo(x) = Tournament("dashboard-bracket", x.key))
      BY <2>4 DEF RedirectedTo, sendVisitorToDetails, detailsSuffix
    <3> QED
      BY <1>5, <3>1 DEF Still
  <2>5. CASE x.page = "dashboard-bracket"
    <3>1. RedirectedTo(x) = x \/ (hasGroups /\ RedirectedTo(x) = Tournament("dashboard-standings", x.key))
      BY <2>5 DEF RedirectedTo, sendVisitorToDetails, detailsSuffix
    <3> QED
      BY <1>5, <3>1 DEF Still
  <2>6. Still(x) => Still(RedirectedTo(x))
    BY DEF Still
  <2> QED
    BY <1>2, <1>8, <2>1, <2>2, <2>3, <2>4, <2>5, <2>6
<1>9. RedirectedTo(Arrives(at)) = Arrives(at)
  <2>1. CASE at.page = "results"
    <3>1. RedirectedTo(at) = Tournament("schedule", at.key)
      BY <2>1 DEF RedirectedTo, sendVisitorToDetails, detailsSuffix
    <3>2. Tournament("schedule", at.key).page = "schedule"
      BY FieldsAre DEF AddressFields
    <3>3. Still(RedirectedTo(RedirectedTo(at)))
      BY <1>8, <3>1, <3>2
    <3> QED
      BY <3>3 DEF Arrives, Still
  <2>2. CASE at.page # "results"
    BY <1>7, <1>8, <2>2 DEF Arrives, Still
  <2> QED
    BY <2>1, <2>2
<1>10. Known(RedirectedTo(at))
  <2> DEFINE moved == {"schedule", "dashboard-present-schedule", "dashboard", "dashboard-schedule",
                       "dashboard-bracket", "dashboard-standings"}
  <2>1. \/ RedirectedTo(at) \in {at, Site("login")}
        \/ at.page \in TournamentPages /\ \E p \in moved : RedirectedTo(at) = Tournament(p, at.key)
    BY DEF RedirectedTo, sendVisitorToDetails, detailsSuffix, TournamentPages, WorkspacePages,
           DetailsPages, MovedPages
  <2>2. \A p \in moved : p \in TournamentPages
    BY DEF TournamentPages, WorkspacePages, DetailsPages, BigScreens
  <2>3. CASE RedirectedTo(at) \in {at, Site("login")}
    BY <2>3, SiteGood DEF Good
  <2>4. ASSUME NEW p \in moved, at.page \in TournamentPages, RedirectedTo(at) = Tournament(p, at.key)
        PROVE  Known(RedirectedTo(at))
    BY <2>2, <2>4, FieldsAre DEF Known, AddressFields
  <2> QED
    BY <2>1, <2>3, <2>4
<1> QED
  BY <1>9, <1>10

----------------------------------------------------------------------------

PagesInv ==
    /\ Known(place)
    /\ role \in {"visitor", "guest", "organizer"}
    /\ ItemsAre

LEMMA AddressesKnown == \A at \in Addresses : Known(at)
<1>1. ASSUME NEW p \in SitePages
      PROVE  Known(Site(p))
  <2>1. p \notin TournamentPages
    BY DEF SitePages, TournamentPages, WorkspacePages, ManagementSections, DetailsPages, BigScreens, MovedPages
  <2> QED
    BY <2>1, FieldsAre DEF Known, AddressFields
<1>2. ASSUME NEW p \in TournamentPages, NEW k \in Keys
      PROVE  Known(Tournament(p, k))
  BY FieldsAre DEF Known, AddressFields
<1>3. ASSUME NEW k \in Keys, NEW t
      PROVE  Known(Team(k, t))
  BY FieldsAre DEF Known, AddressFields, TournamentPages, DetailsPages
<1>4. ASSUME NEW k \in Keys, NEW t
      PROVE  Known(stageItemPath(k, t))
  <2>1. /\ stageItemPath(k, t).key = k
        /\ stageItemPath(k, t).page \in {"dashboard-bracket", "dashboard-standings"}
    BY DEF stageItemPath, Address
  <2> QED
    BY <2>1 DEF Known, TournamentPages, DetailsPages
<1> QED
  BY <1>1, <1>2, <1>3, <1>4 DEF Addresses, Keys

LEMMA ItemsOfConfigurations ==
    ASSUME tournament \in Configurations
    PROVE  ItemsAre
BY DEF Configurations, ItemsAre

LEMMA PagesInvariant == PagesSpec => []PagesInv
<1>1. PagesInit => PagesInv
  <2> SUFFICES ASSUME PagesInit
               PROVE  PagesInv
    OBVIOUS
  <2>1. Known(Site("home"))
    BY AddressesKnown DEF Addresses, SitePages
  <2> QED
    BY <2>1, ItemsOfConfigurations DEF PagesInit, PagesInv
<1>2. PagesInv /\ [PagesNext]_pagesVars => PagesInv'
  <2> SUFFICES ASSUME PagesInv, [PagesNext]_pagesVars
               PROVE  PagesInv'
    OBVIOUS
  <2> USE DEF PagesInv
  <2>1. ASSUME UNCHANGED tournament
        PROVE  ItemsAre'
    BY <2>1 DEF ItemsAre
  <2>2. ASSUME Known(place')
        PROVE  Known(place)'
    BY <2>2 DEF Known
  <2>3. Known(Site("home"))
    BY AddressesKnown DEF Addresses, SitePages
  <2>4. ASSUME NEW at \in Addresses, Open(at)
        PROVE  PagesInv'
    BY <2>1, <2>2, <2>4, AddressesKnown DEF Open
  <2>5. CASE Redirected
    BY <2>1, <2>2, <2>5, ArrivesSomewhere DEF Redirected
  <2>6. CASE Follow
    <3>1. Good(place')
      BY <2>6, LinksGood DEF Follow
    <3> QED
      BY <2>1, <2>2, <2>6, <3>1 DEF Follow, Good
  <2>7. ASSUME NEW r \in {"guest", "organizer"}, SignIn(r)
        PROVE  PagesInv'
    BY <2>1, <2>2, <2>3, <2>7 DEF SignIn
  <2>8. CASE SignOut
    BY <2>1, <2>2, <2>8 DEF SignOut
  <2>9. ASSUME NEW t \in AllTeams \cup {Nobody}, PickTeam(t)
        PROVE  PagesInv'
    BY <2>1, <2>2, <2>9 DEF PickTeam
  <2>10. CASE Delete
    <3>1. ItemsAre'
      BY <2>10 DEF Delete, ItemsAre
    <3> QED
      BY <2>2, <2>3, <2>10, <3>1 DEF Delete
  <2>11. CASE OthersChange
    <3>1. ItemsAre'
      BY <2>11 DEF OthersChange, Configurations, ItemsAre
    <3> QED
      BY <2>2, <2>11, <3>1 DEF OthersChange
  <2>12. CASE OthersGiveAccess
    BY <2>1, <2>2, <2>12 DEF OthersGiveAccess
  <2>13. CASE UNCHANGED pagesVars
    BY <2>1, <2>2, <2>13 DEF pagesVars
  <2> QED
    BY <2>4, <2>5, <2>6, <2>7, <2>8, <2>9, <2>10, <2>11, <2>12, <2>13 DEF PagesNext
<1> QED
  BY <1>1, <1>2, PTL DEF PagesSpec

(* Whatever teams there are, every link leads to a page with content that   *)
(* this user may see, one to a stage item to its bracket, to its table if a *)
(* team has joined it or else to the standings without it, and no address   *)
(* is replaced for ever: the parts that show a link (publicTournamentPath,  *)
(* the tabs, the team and stage item links) go by what the route it leads   *)
(* to goes by.                                                              *)
THEOREM LinksLand == PagesSpec => []EveryLinkLands
<1>1. PagesInv => EveryLinkLands
  <2> SUFFICES ASSUME PagesInv
               PROVE  EveryLinkLands
    OBVIOUS
  <2>1. RedirectedTo(Arrives(place)) = Arrives(place)
    BY ArrivesSomewhere DEF PagesInv
  <2>2. ASSUME NEW link \in Links(place)
        PROVE  /\ RedirectedTo(Arrives(link)) = Arrives(link)
               /\ Display(Arrives(link)) = "page"
               /\ link.item # "none" => LandsOnItem(Arrives(link), link.item)
    <3>1. Good(link)
      BY LinksGood DEF PagesInv
    <3>2. Arrives(link) = link
      BY <3>1 DEF Good, Arrives
    <3> QED
      BY <3>1, <3>2 DEF Good
  <2> QED
    BY <2>1, <2>2 DEF EveryLinkLands
<1> QED
  BY <1>1, PagesInvariant, PTL

----------------------------------------------------------------------------
(* The requests of a page.                                                 *)

(* What the server says to each right.                                      *)
LEMMA AnswerTo ==
    ASSUME NEW r
    PROVE  /\ r.right = "everyone" => Answer(r) = 200
           /\ r.right \in {"account", "club"} /\ isAuthenticated => Answer(r) = 200
           /\ r.right = "viewer" /\ tournament.exists /\ (canManage \/ Visible) => Answer(r) = 200
           /\ r.right = "drafts" /\ tournament.exists /\ (canManage \/ Visible) => Answer(r) # 401
           /\ r.right = "link" /\ tournament.exists /\ tournament.public /\ tournament.named => Answer(r) = 200
           /\ r.right = "organizer" /\ tournament.exists /\ canManage => Answer(r) \in {200, 400}
BY DEF Answer

LEMMA SectionsAreForOrganizers ==
    ASSUME NEW section
    PROVE  /\ \A r \in SectionOffers(section) : r.right = "organizer"
           /\ SectionOffers(section) # {} => section \in {"schedule"} \cup ManagementSections
<1>1. \A r \in {ScheduleMatches} \cup
               {CreateSinglePlayer, CreateMultiplePlayers, UpdatePlayer, DeletePlayer} \cup
               {CreateTeam, CreateMultipleTeams, UpdateTeam, UpdateTeamLogo, DeleteTeam} :
         r.right = "organizer"
  BY DEF Write, ScheduleMatches, CreateSinglePlayer, CreateMultiplePlayers, UpdatePlayer, DeletePlayer,
         CreateTeam, CreateMultipleTeams, UpdateTeam, UpdateTeamLogo, DeleteTeam
<1>2. \A r \in {CreateRanking, UpdateRanking, DeleteRanking} \cup
               {UpdateTournament, UploadLogo, ChangeStatus, DeleteTournament} :
         r.right = "organizer"
  BY DEF Write, CreateRanking, UpdateRanking, DeleteRanking, UpdateTournament, UploadLogo, ChangeStatus,
         DeleteTournament
<1>3. \A r \in {CreateStage, UpdateStage, DeleteStage, ActivateNextStage,
                CreateStageItem, UpdateStageItem, DeleteStageItem, UpdateStageItemInput} :
         r.right = "organizer"
  BY DEF Write, CreateStage, UpdateStage, DeleteStage, ActivateNextStage, CreateStageItem, UpdateStageItem,
         DeleteStageItem, UpdateStageItemInput
<1>4. \A r \in {CreateRound, UpdateRound, DeleteRound, CreateMatch, UpdateMatch, DeleteMatch} :
         r.right = "organizer"
  BY DEF Write, CreateRound, UpdateRound, DeleteRound, CreateMatch, UpdateMatch, DeleteMatch
<1>5. \A r \in SectionOffers(section) : r.right = "organizer"
  BY <1>1, <1>2, <1>3, <1>4 DEF SectionOffers
<1>6. SectionOffers(section) # {} => section \in {"schedule"} \cup ManagementSections
  BY DEF SectionOffers, ManagementSections
<1> QED
  BY <1>5, <1>6

LEMMA BundleAllowed ==
    ASSUME NEW at, at.key \in Keys, Loads(at), NEW r \in fetchTournamentBundle(at)
    PROVE  Answer(r) # 401
<1>1. /\ tournament.exists /\ (canManage \/ Visible)
      /\ at.key = "link" => tournament.public /\ tournament.named
  BY DEF Loads, Visible, Keys
<1>2. /\ \A q \in {GetTournament, GetStages, GetPlayers, GetTeams, GetRankings, GetStandings} :
            q.right = "viewer"
      /\ GetTournamentByLink.right = "link" /\ GetStagesWithDrafts.right = "drafts"
      /\ \A q \in {GetAvailableInputs, GetNextStageRankings} : q.right = "organizer"
  BY DEF Read, GetTournament, GetTournaments, GetStages, GetPlayers, GetTeams, GetRankings, GetStandings,
         GetTournamentByLink, GetStagesWithDrafts, GetAvailableInputs, GetNextStageRankings
<1>3. \A q \in fetchTournamentBundle(at) :
         \/ q \in {GetTournament, GetStages, GetPlayers, GetTeams, GetRankings, GetStandings}
         \/ q = GetTournamentByLink /\ at.key = "link"
         \/ q = GetStagesWithDrafts
         \/ q \in {GetAvailableInputs, GetNextStageRankings} /\ canManage
  BY DEF fetchTournamentBundle, fetchTournament
<1>4. CASE r \in {GetTournament, GetStages, GetPlayers, GetTeams, GetRankings, GetStandings}
  <2>1. r.right = "viewer"
    BY <1>2, <1>4
  <2> QED
    BY <1>1, <2>1, AnswerTo
<1>5. CASE r = GetTournamentByLink /\ at.key = "link"
  BY <1>1, <1>2, <1>5, AnswerTo
<1>6. CASE r = GetStagesWithDrafts
  BY <1>1, <1>2, <1>6, AnswerTo
<1>7. CASE r \in {GetAvailableInputs, GetNextStageRankings} /\ canManage
  <2>1. r.right = "organizer"
    BY <1>2, <1>7
  <2> QED
    BY <1>1, <1>7, <2>1, AnswerTo
<1> QED
  BY <1>3, <1>4, <1>5, <1>6, <1>7

LEMMA QueriesAllowed ==
    ASSUME NEW at, Known(at), at.page \in TournamentPages => Loads(at), NEW r \in Queries(at)
    PROVE  Answer(r) # 401
<1>1. /\ GetTournaments.right = "everyone" /\ GetAuthFeatures.right = "everyone"
      /\ GetClubs.right = "account" /\ GetUser.right = "account"
  BY DEF Read, GetTournaments, GetAuthFeatures, GetClubs, GetUser
<1>2. CASE at.page \in TournamentPages
  <2>1. at.page \notin {"home", "login", "create-account", "events", "user"}
    BY <1>2 DEF TournamentPages, WorkspacePages, ManagementSections, DetailsPages, BigScreens, MovedPages
  <2>2. r \in fetchTournamentBundle(at)
    BY <1>2, <2>1 DEF Queries
  <2> QED
    BY <1>2, <2>2, BundleAllowed DEF Known
<1>3. CASE at.page \notin TournamentPages
  <2>1. r \in {GetTournaments, GetAuthFeatures} \/ (r \in {GetClubs, GetUser} /\ isAuthenticated)
    BY <1>3 DEF Queries, HomeQueries
  <2> QED
    BY <1>1, <2>1, AnswerTo
<1> QED
  BY <1>2, <1>3

LEMMA OffersAllowed ==
    ASSUME NEW at, Known(at), NEW r \in Offers(at)
    PROVE  Answer(r) \in {200, 400}
<1>1. RedirectedTo(at) = at
  BY DEF Offers
<1>2. /\ \A q \in {Login, Register, Logout} : q.right = "everyone"
      /\ \A q \in {CreateTournament, CreateNewClub, UpdateClub, DeleteClub, UpdateUserDetails, PutUserPassword} :
            q.right \in {"account", "club"}
  BY DEF Write, Login, Register, Logout, CreateTournament, CreateNewClub, UpdateClub, DeleteClub,
         UpdateUserDetails, PutUserPassword
<1>3. CASE at.page \in TournamentPages /\ r # Logout
  <2>1. at.page \notin {"home", "login", "create-account", "events", "user"}
    BY <1>3 DEF TournamentPages, WorkspacePages, ManagementSections, DetailsPages, BigScreens, MovedPages
  <2>2. Display(at) = "page" /\ r \in SectionOffers(at.page)
    BY <1>1, <1>3, <2>1 DEF Offers, PageOffers
  <2>3. ~dashboardMode(at.page)
    BY <2>2, SectionsAreForOrganizers DEF dashboardMode, ManagementSections, DetailsPages, BigScreens
  <2>4. Loads(at) /\ canManage /\ tournament.exists
    BY <1>1, <1>3, <2>2, <2>3, WorkspaceIsForOrganizers DEF Loads
  <2>5. r.right = "organizer"
    BY <2>2, SectionsAreForOrganizers
  <2> QED
    BY <2>4, <2>5, AnswerTo
<1>4. CASE at.page \notin TournamentPages \/ r = Logout
  <2>1. \/ r \in {Login, Register, Logout}
        \/ /\ r \in {CreateTournament, CreateNewClub, UpdateClub, DeleteClub, UpdateUserDetails, PutUserPassword}
           /\ isAuthenticated
    BY <1>1, <1>4 DEF Offers, PageOffers
  <2>2. CASE r \in {Login, Register, Logout}
    <3>1. r.right = "everyone"
      BY <1>2, <2>2
    <3> QED
      BY <3>1, AnswerTo
  <2>3. CASE /\ r \in {CreateTournament, CreateNewClub, UpdateClub, DeleteClub, UpdateUserDetails, PutUserPassword}
             /\ isAuthenticated
    <3>1. r.right \in {"account", "club"}
      BY <1>2, <2>3
    <3> QED
      BY <2>3, <3>1, AnswerTo
  <2> QED
    BY <2>1, <2>2, <2>3
<1> QED
  BY <1>3, <1>4

(* Whatever teams there are, no page sends a request that signs an          *)
(* organizer out while the tournament loads, and none offers one that is    *)
(* refused for who asks: each form and button is on a page that is shown to *)
(* those whom the route answers.                                            *)
THEOREM OnlyAllowedRequests == PagesSpec => []RequestsAreAllowed
<1>1. PagesInv => RequestsAreAllowed
  BY QueriesAllowed, OffersAllowed DEF PagesInv, RequestsAreAllowed
<1> QED
  BY <1>1, PagesInvariant, PTL
=============================================================================
