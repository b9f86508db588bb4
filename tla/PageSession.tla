----------------------------- MODULE PageSession -----------------------------
(***************************************************************************)
(* One browser tab of the frontend: who it believes is signed in, the      *)
(* tournament page it shows, the bundle behind that page and the requests  *)
(* that load it, and one change the page saves, while other organizers     *)
(* change, archive or delete the tournament.                               *)
(*                                                                         *)
(* A bundle is loaded by several requests that the server answers one by   *)
(* one (fetchTournamentBundle).  All data of the tournament is one number, *)
(* the count of changes so far; a bundle records the count the first of    *)
(* them was answered at.  The query library keeps a bundle per key and     *)
(* refetches it on mount, on a timer, on focus and after a change.         *)
(*                                                                         *)
(* A Details page is opened by the tournament's number or by a custom      *)
(* link, which others may rename or disable at any time.                   *)
(***************************************************************************)
EXTENDS Naturals, FiniteSets

CONSTANTS
    Users,        \* the accounts that sign in here
    Organizers,   \* the ones that can manage the tournament
    NoUser,       \* nobody is signed in
    NoData,       \* nothing loaded yet
    MaxChanges,   \* bound on the changes to the tournament
    Sections      \* the pages that are opened here

ASSUME UsersAssumption ==
    /\ Organizers \subseteq Users
    /\ NoUser \notin Users
    /\ MaxChanges \in Nat
    /\ "home" \in Sections
    /\ Sections \subseteq {"home", "settings", "dashboard", "linked"}

VARIABLES
    session,   \* the user kept in local storage, what the pages go by
    cookie,    \* the user of the session cookie, what the server goes by
    changes,   \* changes made to the tournament so far
    access,    \* whether everyone, only organizers or nobody can load it
    link,      \* the custom link this browser knows leads to the tournament
    section,   \* the page that is open
    query,     \* what each query key holds and is loading
    save       \* the change this page is saving

vars == <<session, cookie, changes, access, link, section, query, save>>

Viewers == Users \cup {NoUser}

Steps == {"idle", "tournament", "stages", "rest"}

(* A Details page is opened by number or by custom link, a page of the     *)
(* workspace by number only, and it loads nothing for a visitor.           *)
Details(s) == s \in {"dashboard", "linked"}

LoadsBundle(s, v) == Details(s) \/ (s = "settings" /\ v # NoUser)

KeyFor(s, v) == [details |-> Details(s), linked |-> s = "linked", viewer |-> v]

Keys == {KeyFor(p[1], p[2]) : p \in {q \in Sections \X Viewers : LoadsBundle(q[1], q[2])}}

Bundle == [canManage : BOOLEAN, drafts : BOOLEAN, seen : 0..MaxChanges]

Blank == [canManage |-> FALSE, drafts |-> FALSE, seen |-> 0]

Unloaded == [data |-> NoData, failed |-> FALSE, step |-> "idle", read |-> Blank]

NoSave == [at |-> "idle", change |-> 0, key |-> NoData, joined |-> FALSE]

TypeOK ==
    /\ session \in Viewers
    /\ cookie \in Viewers
    /\ changes \in 0..MaxChanges
    /\ access \in {"public", "private", "deleted"}
    /\ link \in BOOLEAN
    /\ section \in Sections
    /\ query \in [Keys -> [data : Bundle \cup {NoData}, failed : BOOLEAN, step : Steps,
                           read : Bundle]]
    /\ save \in [at : {"idle", "sent", "applied", "refreshing", "deleting", "deleted"},
                 change : 0..MaxChanges, key : Keys \cup {NoData}, joined : BOOLEAN]

----------------------------------------------------------------------------
(* What the page shows. *)

Key == KeyFor(section, session)

View ==
    LET q == query[Key]
    IN  CASE section = "home" -> "home"
          [] ~LoadsBundle(section, session) -> "locked"
          [] OTHER ->
               CASE q.data = NoData -> IF q.failed THEN "error" ELSE "loading"
                 [] q.data # NoData /\ section = "settings" /\ ~q.data.canManage -> "readonly"
                 [] OTHER -> "page"

----------------------------------------------------------------------------
(* Loading a bundle. *)

Started(q) == [q EXCEPT !.step = "tournament", !.failed = FALSE, !.read = Blank]

(* Opening a page refetches its bundle at once, however recent it is; a    *)
(* fetch of the same key already under way is joined.                      *)
Mounted(s, v) ==
    LET k == KeyFor(s, v)
    IN  IF LoadsBundle(s, v) /\ query[k].step = "idle"
        THEN [query EXCEPT ![k] = Started(@)]
        ELSE query

(* Mutant of Forgotten: the fetches under way go on. *)
ForgottenData == [k \in Keys |-> [query[k] EXCEPT !.data = NoData, !.failed = FALSE]]

(* Losing the session forgets every bundle and drops the fetches under     *)
(* way.  The effects of the page run before those of the layout, so the    *)
(* fetch the page starts for a visitor is dropped with them.               *)
Forgotten == [k \in Keys |-> Unloaded]

Refetch ==
    /\ LoadsBundle(section, session)
    /\ query[Key].step = "idle"
    /\ query[Key].data # NoData \/ query[Key].failed
    /\ query' = [query EXCEPT ![Key] = Started(@)]
    /\ UNCHANGED <<session, cookie, changes, access, link, section, save>>

(* Mutant of Poll: only a page that has its data polls. *)
PollLoaded ==
    /\ Details(section)
    /\ query[Key].step = "idle"
    /\ query[Key].data # NoData
    /\ query' = [query EXCEPT ![Key] = Started(@)]
    /\ UNCHANGED <<session, cookie, changes, access, link, section, save>>

Poll ==
    /\ Details(section)
    /\ query[Key].step = "idle"
    /\ query' = [query EXCEPT ![Key] = Started(@)]
    /\ UNCHANGED <<session, cookie, changes, access, link, section, save>>

(* The server's side of every request: organizers may load the tournament  *)
(* while it exists, everyone else while it is public.                      *)
Organizes == access # "deleted" /\ cookie \in Organizers
Refuses == ~Organizes /\ access # "public"

SignOut ==
    /\ session' = NoUser
    /\ query' = Forgotten

(* After a refused or lost answer the library tries the fetch once more,   *)
(* from the first request on, before it fails.  Which of the two attempts  *)
(* this is is left open; Fairness keeps a fetch from going on for ever.    *)
FetchFailed(k) ==
    \E q \in {Started(query[k]), [Unloaded EXCEPT !.data = query[k].data, !.failed = TRUE]} :
        query' = [query EXCEPT ![k] = q]

Unauthorized(k) ==
    IF session # NoUser THEN SignOut
    ELSE /\ FetchFailed(k)
         /\ UNCHANGED session

Went(k, step, read) ==
    query' = [query EXCEPT ![k].step = step, ![k].read = read]

(* Mutant of Loaded: the drafts an organizer may see stay in the bundle. *)
LoadedWithDrafts(k, read) ==
    query' = [query EXCEPT ![k] = [Unloaded EXCEPT !.data = read]]

(* A bundle is complete.  On Details pages the drafts are left out.        *)
Loaded(k, read) ==
    query' = [query EXCEPT ![k] =
                 [Unloaded EXCEPT !.data = [read EXCEPT !.drafts = @ /\ ~k.details]]]

(* Mutant of AnswerStages: a user who is refused the drafts is signed out. *)
AnswerStagesOrSignOut(k) ==
    /\ query[k].step = "stages"
    /\ IF Refuses \/ (k.viewer # NoUser /\ ~Organizes) THEN Unauthorized(k)
       ELSE /\ Went(k, "rest", [query[k].read EXCEPT !.canManage = Organizes,
                                   !.drafts = Organizes])
            /\ UNCHANGED session
    /\ UNCHANGED <<cookie, changes, access, link, section, save>>

(* By custom link a tournament is found while its Details pages are on     *)
(* under that name, whoever asks; else the answer is the same 401.         *)
Misses(k) == IF k.linked THEN ~link ELSE Refuses

AnswerTournament(k) ==
    /\ query[k].step = "tournament"
    /\ IF Misses(k) THEN Unauthorized(k)
       ELSE /\ Went(k, "stages", [Blank EXCEPT !.seen = changes])
            /\ UNCHANGED session
    /\ UNCHANGED <<cookie, changes, access, link, section, save>>

(* The rest is loaded by number.  Only organizers may see draft rounds, so *)
(* a signed-in user's request for them tells whether that user can manage  *)
(* the tournament; if not, the stages are asked for again without them.    *)
AnswerStages(k) ==
    LET manages == k.viewer # NoUser /\ Organizes
    IN  /\ query[k].step = "stages"
        /\ IF Refuses THEN Unauthorized(k)
           ELSE /\ Went(k, "rest", [query[k].read EXCEPT !.canManage = manages,
                                       !.drafts = manages])
                /\ UNCHANGED session
        /\ UNCHANGED <<cookie, changes, access, link, section, save>>

AnswerRest(k) ==
    LET read == query[k].read
    IN  /\ query[k].step = "rest"
        /\ IF Refuses \/ (read.canManage /\ ~k.details /\ ~Organizes)
           THEN Unauthorized(k)
           ELSE /\ Loaded(k, read)
                /\ UNCHANGED session
        /\ UNCHANGED <<cookie, changes, access, link, section, save>>

LoseAnswer(k) ==
    /\ query[k].step # "idle"
    /\ FetchFailed(k)
    /\ UNCHANGED <<session, cookie, changes, access, link, section, save>>

----------------------------------------------------------------------------
(* Saving a change from the settings page, or deleting the tournament. *)

Submit(kind) ==
    /\ section = "settings"
    /\ View = "page"
    /\ save.at = "idle"
    /\ save' = [NoSave EXCEPT !.at = kind]
    /\ UNCHANGED <<session, cookie, changes, access, link, section, query>>

(* Mutant of Apply: a request sent again by the library is applied twice. *)
ApplyTwice ==
    /\ save.at = "sent"
    /\ Organizes
    /\ access = "public"
    /\ changes < MaxChanges
    /\ changes' = changes + 2
    /\ link' \in BOOLEAN
    /\ save' = [save EXCEPT !.at = "applied", !.change = changes + 2]
    /\ UNCHANGED <<session, cookie, access, section, query>>

(* The form also renames, enables and disables the custom link.  Nothing   *)
(* of an archived tournament changes: that answer counts as a lost one.    *)
Apply ==
    /\ save.at = "sent"
    /\ Organizes
    /\ access = "public"
    /\ changes < MaxChanges
    /\ changes' = changes + 1
    /\ link' \in BOOLEAN
    /\ save' = [save EXCEPT !.at = "applied", !.change = changes + 1]
    /\ UNCHANGED <<session, cookie, access, section, query>>

ApplyDelete ==
    /\ save.at = "deleting"
    /\ Organizes
    /\ access' = "deleted"
    /\ link' = FALSE
    /\ save' = [save EXCEPT !.at = "deleted"]
    /\ UNCHANGED <<session, cookie, changes, section, query>>

Refused ==
    /\ save.at \in {"sent", "deleting"}
    /\ ~Organizes
    /\ IF session # NoUser THEN SignOut ELSE UNCHANGED <<session, query>>
    /\ save' = NoSave
    /\ UNCHANGED <<cookie, changes, access, link, section>>

(* A lost answer shows an error and refreshes nothing, applied or not.     *)
SaveLost ==
    /\ save.at \in {"sent", "applied", "deleting", "deleted"}
    /\ save' = NoSave
    /\ UNCHANGED <<session, cookie, changes, access, link, section, query>>

(* Mutant of SaveAnswered: the refresh joins a fetch already under way. *)
SaveAnsweredJoining ==
    /\ save.at = "applied"
    /\ IF LoadsBundle(section, session)
       THEN LET q == query[Key] IN
            /\ query' = [query EXCEPT ![Key] = IF q.step # "idle" THEN q ELSE Started(q)]
            /\ save' = [save EXCEPT !.at = "refreshing", !.key = Key, !.joined = q.data = NoData]
       ELSE /\ save' = [save EXCEPT !.at = "refreshing"]
            /\ UNCHANGED query
    /\ UNCHANGED <<session, cookie, changes, access, link, section>>

(* After a change every mounted query is refetched, and a fetch under way  *)
(* is dropped for it, unless it is the first one of its key: that one is   *)
(* joined.                                                                 *)
SaveAnswered ==
    /\ save.at = "applied"
    /\ IF LoadsBundle(section, session)
       THEN LET q == query[Key] IN
            /\ query' = [query EXCEPT ![Key] = IF q.data = NoData THEN q ELSE Started(q)]
            /\ save' = [save EXCEPT !.at = "refreshing", !.key = Key, !.joined = q.data = NoData]
       ELSE /\ save' = [save EXCEPT !.at = "refreshing"]
            /\ UNCHANGED query
    /\ UNCHANGED <<session, cookie, changes, access, link, section>>

(* Mutant of SaveDone: a failed refresh is waited for for ever. *)
SaveDoneIfRefreshed ==
    /\ save.at = "refreshing"
    /\ save.key # NoData => query[save.key].step = "idle" /\ ~query[save.key].failed
    /\ save' = NoSave
    /\ UNCHANGED <<session, cookie, changes, access, link, section, query>>

SaveDone ==
    /\ save.at = "refreshing"
    /\ save.key # NoData => query[save.key].step = "idle"
    /\ save' = NoSave
    /\ UNCHANGED <<session, cookie, changes, access, link, section, query>>

(* A deleted tournament is not reloaded: only the list on the home page is *)
(* stale, and that is where the page goes.                                 *)
DeleteAnswered ==
    /\ save.at = "deleted"
    /\ save' = NoSave
    /\ section' = "home"
    /\ UNCHANGED <<session, cookie, changes, access, link, query>>

----------------------------------------------------------------------------
(* The people: this visitor, and the other organizers. *)

Open(s) ==
    /\ s # section
    /\ section' = s
    /\ query' = Mounted(s, session)
    /\ UNCHANGED <<session, cookie, changes, access, link, save>>

(* Bound: nobody signs in while a fetch or a save is under way.            *)
LoginBound == save = NoSave /\ \A k \in Keys : query[k].step = "idle"

(* What the visitor loaded stays in the browser, but no page of a user     *)
(* shows it and signing out drops it, so it is dropped here already.       *)
Login(u) ==
    /\ section = "home"
    /\ session = NoUser
    /\ LoginBound
    /\ cookie' = u
    /\ session' = u
    /\ query' = Forgotten
    /\ UNCHANGED <<changes, access, link, section, save>>

(* Signing out forgets the session in this browser even if the request     *)
(* that removes the cookie fails.                                          *)
Logout ==
    /\ session # NoUser
    /\ cookie' \in {cookie, NoUser}
    /\ SignOut
    /\ UNCHANGED <<changes, access, link, section, save>>

Expire ==
    /\ cookie # NoUser
    /\ cookie' = NoUser
    /\ UNCHANGED <<session, changes, access, link, section, query, save>>

OthersChange ==
    /\ access = "public"
    /\ changes < MaxChanges
    /\ changes' = changes + 1
    /\ UNCHANGED <<session, cookie, access, link, section, query, save>>

(* The link is renamed or its pages turned off, or they are turned on      *)
(* under the old name; by number the tournament can be loaded as before.   *)
(* Nobody gives the name to another tournament.                            *)
OthersSetLink ==
    /\ access = "public"
    /\ link' = ~link
    /\ UNCHANGED <<session, cookie, changes, access, section, query, save>>

(* Archiving hides a tournament once its Details pages are off, reopening  *)
(* shows it again by number, deleting is for good.                         *)
OthersSetAccess(a) ==
    /\ access # "deleted"
    /\ a # access
    /\ access' = a
    /\ link' = FALSE
    /\ UNCHANGED <<session, cookie, changes, section, query, save>>

----------------------------------------------------------------------------

Init ==
    /\ session = NoUser
    /\ cookie = NoUser
    /\ changes = 0
    /\ access = "public"
    /\ link = TRUE
    /\ section = "home"
    /\ query = [k \in Keys |-> Unloaded]
    /\ save = NoSave

Answer(k) ==
    \/ AnswerTournament(k)
    \/ AnswerStages(k)
    \/ AnswerRest(k)

Next ==
    \/ \E k \in Keys : Answer(k) \/ LoseAnswer(k)
    \/ Refetch
    \/ Poll
    \/ \E kind \in {"sent", "deleting"} : Submit(kind)
    \/ Apply
    \/ ApplyDelete
    \/ Refused
    \/ SaveLost
    \/ SaveAnswered
    \/ SaveDone
    \/ DeleteAnswered
    \/ \E s \in Sections : Open(s)
    \/ \E u \in Users : Login(u)
    \/ Logout
    \/ Expire
    \/ OthersChange
    \/ OthersSetLink
    \/ \E a \in {"public", "private", "deleted"} : OthersSetAccess(a)

(* Timers fire, every request is answered or fails in the end, and so does *)
(* every fetch, which is tried twice at most.                              *)
Fairness ==
    /\ WF_vars(Poll)
    /\ \A k \in Keys : WF_vars((Answer(k) \/ LoseAnswer(k)) /\ query'[k].step = "idle")
    /\ WF_vars(Apply \/ ApplyDelete \/ Refused \/ SaveAnswered \/ DeleteAnswered \/ SaveLost)
    /\ SF_vars(SaveDone)

Spec == Init /\ [][Next]_vars /\ Fairness

----------------------------------------------------------------------------

(* A page without a session, and any Details page, never shows a draft     *)
(* round, whoever was signed in when its bundle was loaded                 *)
(* (withoutDraftRounds, the no_draft_rounds parameter, the query key).     *)
NoDraftsForVisitors ==
    (View = "page" /\ (session = NoUser \/ Details(section)))
        => ~query[Key].data.drafts

(* Without a session nothing of a signed-in user is left: no bundle, and   *)
(* no fetch whose late answer would bring one back (queryClient.clear in   *)
(* RootLayout).                                                            *)
NothingLeftAfterSignOut ==
    session = NoUser => \A k \in Keys : k.viewer # NoUser => query[k] = Unloaded

(* While the cookie is valid and the tournament public, an answer signs a  *)
(* user out in one case only: a Details page was asked for by a custom     *)
(* link that has been renamed or disabled, which is answered like a lost   *)
(* right.  A user who may not manage the tournament, or who is refused its *)
(* drafts, stays signed in, and so does everyone who goes by number        *)
(* (isAuthorizationError and the interceptor in configureApiClient).       *)
SignedOutOnlyWhenRefused ==
    [][(session # NoUser /\ session' = NoUser /\ cookie # NoUser /\ access = "public") =>
          /\ ~Refused
          /\ \A k \in Keys :
                Answer(k) => query[k].step = "tournament" /\ k.linked /\ ~link]_vars

(* When the success message appears the page already shows the change,     *)
(* unless reloading failed, the page was on its very first load, or it was *)
(* left or signed out meanwhile (the MutationCache onSuccess handler).     *)
SuccessMeansShown ==
    [][SaveDone =>
          LET q == query[save.key] IN
          \/ save.key = NoData
          \/ q.data = NoData
          \/ q.failed
          \/ save.joined
          \/ q.data.seen >= save.change]_vars

(* A page that shows it is loading ends up showing something else or is    *)
(* left, also when signing out dropped its fetch (refetchInterval).        *)
LoadingEnds ==
    \A s \in Sections \ {"home"} :
        (section = s /\ View = "loading") ~> (section # s \/ View # "loading")

(* A button that shows it is saving becomes usable again.                  *)
SaveEnds == (save.at # "idle") ~> (save.at = "idle")
=============================================================================
