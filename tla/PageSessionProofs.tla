--------------------------- MODULE PageSessionProofs ---------------------------
(***************************************************************************)
(* Theorems about PageSession, for any accounts and any number of changes: *)
(* what is left of a signed-in user, who is signed out, and what the page  *)
(* shows when a save has succeeded.                                        *)
(***************************************************************************)
EXTENDS PageSession, TLAPS

QueryState == [data : Bundle \cup {NoData}, failed : BOOLEAN, step : Steps, read : Bundle]

(* Only this user's keys hold or load anything, and the cookie is this     *)
(* user's as long as it is valid.                                          *)
OwnInv ==
    /\ session # NoUser => cookie \in {session, NoUser}
    /\ \A k \in Keys : k.viewer \notin {session, NoUser} => query[k] = Unloaded

(* A bundle says that its viewer can manage the tournament only of an      *)
(* organizer, and one of a Details page has no drafts.                     *)
BundleInv ==
    \A k \in Keys :
        /\ query[k].read.canManage => k.viewer \in Organizers
        /\ query[k].data # NoData =>
              /\ query[k].data.canManage => k.viewer \in Organizers
              /\ k.details => ~query[k].data.drafts

(* Only an organizer saves. *)
SaverInv ==
    /\ save.at # "idle" /\ session # NoUser => session \in Organizers
    /\ save.change <= changes
    /\ save.at # "refreshing" => save.key = NoData

(* What is fetched after the change shows the change. *)
RefreshInv ==
    (save.at = "refreshing" /\ save.key # NoData /\ ~save.joined) =>
        LET q == query[save.key] IN
        /\ q.step \in {"stages", "rest"} => q.read.seen >= save.change
        /\ q.step = "idle" => q.data = NoData \/ q.failed \/ q.data.seen >= save.change

IInv ==
    /\ TypeOK
    /\ OwnInv
    /\ BundleInv
    /\ SaverInv
    /\ RefreshInv

----------------------------------------------------------------------------
(* What a step does to one key: nothing, forget it, start loading it, lose *)
(* an answer, read the tournament or the stages, or complete the bundle.   *)

Start(k) == k.viewer = session /\ query'[k] = Started(query[k])

Lost(k) ==
    /\ query[k].step # "idle"
    /\ query'[k] \in {Started(query[k]),
                     [Unloaded EXCEPT !.data = query[k].data, !.failed = TRUE]}

ReadTournament(k) ==
    /\ query[k].step = "tournament"
    /\ query'[k] = [query[k] EXCEPT !.step = "stages", !.read = [Blank EXCEPT !.seen = changes]]

ReadStages(k) ==
    /\ query[k].step = "stages"
    /\ \E m \in BOOLEAN :
          /\ m => k.viewer # NoUser /\ cookie \in Organizers
          /\ query'[k] = [query[k] EXCEPT !.step = "rest",
                             !.read = [query[k].read EXCEPT !.canManage = m, !.drafts = m]]

Complete(k) ==
    /\ query[k].step = "rest"
    /\ query'[k] = [Unloaded EXCEPT
                      !.data = [query[k].read EXCEPT !.drafts = @ /\ ~k.details]]

KeyStep(k) ==
    \/ query'[k] = query[k]
    \/ query'[k] = Unloaded
    \/ Start(k)
    \/ Lost(k)
    \/ ReadTournament(k)
    \/ ReadStages(k)
    \/ Complete(k)

Shape == query' = [k \in Keys |-> query'[k]]

LEMMA LostStep ==
    ASSUME TypeOK, NEW k \in Keys, query[k].step # "idle", FetchFailed(k)
    PROVE  Shape /\ \A j \in Keys : KeyStep(j)
<1>1. DOMAIN query = Keys
  BY DEF TypeOK
<1>2. PICK q \in {Started(query[k]), [Unloaded EXCEPT !.data = query[k].data, !.failed = TRUE]} :
        query' = [query EXCEPT ![k] = q]
  BY Zenon DEF FetchFailed
<1>3. query' = [j \in Keys |-> IF j = k THEN q ELSE query[j]]
  BY <1>1, <1>2
<1>4. Lost(k)
  BY <1>2, <1>3 DEF Lost
<1> QED
  BY <1>3, <1>4, Zenon DEF Shape, KeyStep

LEMMA EachKeyStep ==
    ASSUME TypeOK, [Next]_vars
    PROVE  Shape /\ \A k \in Keys : KeyStep(k)
<1> USE DEF Shape, KeyStep
<1>0. DOMAIN query = Keys /\ query = [k \in Keys |-> query[k]]
  BY DEF TypeOK
<1>1. UNCHANGED query => Shape /\ \A k \in Keys : KeyStep(k)
  BY <1>0
<1>2. query' = Forgotten => Shape /\ \A k \in Keys : KeyStep(k)
  BY DEF Forgotten
<1>3. ASSUME NEW k \in Keys, query[k].step # "idle", Unauthorized(k)
      PROVE  Shape /\ \A j \in Keys : KeyStep(j)
  BY <1>2, <1>3, LostStep DEF Unauthorized, SignOut
<1>4. ASSUME NEW k \in Keys, AnswerStages(k) PROVE Shape /\ \A j \in Keys : KeyStep(j)
  <2>1. CASE Refuses
    BY <1>3, <1>4, <2>1 DEF AnswerStages
  <2>2. CASE ~Refuses
    <3> DEFINE m == k.viewer # NoUser /\ Organizes
    <3>1. /\ query[k].step = "stages"
          /\ query' = [query EXCEPT ![k].step = "rest",
                         ![k].read = [query[k].read EXCEPT !.canManage = m, !.drafts = m]]
      BY <1>4, <2>2 DEF AnswerStages, Went
    <3>2. m \in BOOLEAN /\ (m => k.viewer # NoUser /\ cookie \in Organizers)
      BY DEF Organizes
    <3> HIDE DEF m
    <3>3. query'[k] = [query[k] EXCEPT !.step = "rest",
                         !.read = [query[k].read EXCEPT !.canManage = m, !.drafts = m]]
      BY <1>0, <3>1
    <3>4. ReadStages(k)
      BY <3>1, <3>2, <3>3 DEF ReadStages
    <3>5. Shape /\ \A j \in Keys : j # k => query'[j] = query[j]
      BY <1>0, <3>1
    <3> QED
      BY <3>4, <3>5
  <2> QED
    BY <2>1, <2>2
<1>5. ASSUME NEW k \in Keys, AnswerRest(k) PROVE Shape /\ \A j \in Keys : KeyStep(j)
  <2>1. query[k].step = "rest"
    BY <1>5 DEF AnswerRest
  <2>2. CASE Unauthorized(k)
    BY <1>3, <2>1, <2>2
  <2>3. CASE Loaded(k, query[k].read)
    <3>1. Complete(k)
      BY <1>0, <2>1, <2>3 DEF Loaded, Complete
    <3>2. Shape /\ \A j \in Keys : j # k => query'[j] = query[j]
      BY <1>0, <2>3 DEF Loaded
    <3> QED
      BY <3>1, <3>2
  <2> QED
    BY <1>5, <2>2, <2>3 DEF AnswerRest
<1>6. ASSUME NEW k \in Keys, LoseAnswer(k) PROVE Shape /\ \A j \in Keys : KeyStep(j)
  BY <1>6, LostStep DEF LoseAnswer
<1>7. ASSUME NEW s, query' = [query EXCEPT ![KeyFor(s, session)] = Started(@)]
      PROVE  Shape /\ \A k \in Keys : KeyStep(k)
  <2>1. KeyFor(s, session).viewer = session
    BY DEF KeyFor
  <2> DEFINE new == KeyFor(s, session)
  <2>2. query' = [query EXCEPT ![new] = Started(query[new])]
    BY <1>7
  <2> HIDE DEF new
  <2>3. query' = [k \in Keys |-> IF k = new THEN Started(query[new]) ELSE query[k]]
    BY <1>0, <2>2
  <2>4. new.viewer = session
    BY <2>1 DEF new
  <2> QED
    BY <2>3, <2>4 DEF Start
<1>8. Refetch \/ Poll => query' = [query EXCEPT ![Key] = Started(@)]
  BY DEF Refetch, Poll
<1>9. query' = [query EXCEPT ![Key] = Started(@)] => Shape /\ \A k \in Keys : KeyStep(k)
  BY <1>7 DEF Key
<1>10. CASE SaveAnswered
  <2>1. CASE LoadsBundle(section, session)
    <3>1. query' = [query EXCEPT ![Key] = IF query[Key].data = NoData THEN query[Key]
                                                       ELSE Started(query[Key])]
      BY <1>10, <2>1 DEF SaveAnswered
    <3>2. query' = query \/ query' = [query EXCEPT ![Key] = Started(@)]
      BY <1>0, <3>1
    <3> QED
      BY <1>1, <1>9, <3>2
  <2> QED
    BY <1>1, <1>10, <2>1 DEF SaveAnswered
<1>11. ASSUME NEW s \in Sections, Open(s) PROVE Shape /\ \A k \in Keys : KeyStep(k)
  <2>1. query' = query \/ query' = [query EXCEPT ![KeyFor(s, session)] = Started(@)]
    BY <1>11, Zenon DEF Open, Mounted
  <2> QED
    BY <1>1, <1>7, <2>1
<1>12. Refused \/ Logout \/ (\E u \in Users : Login(u)) => UNCHANGED query \/ query' = Forgotten
  BY DEF Refused, Logout, Login, SignOut
<1>13. ASSUME NEW k \in Keys, AnswerTournament(k) PROVE Shape /\ \A j \in Keys : KeyStep(j)
  <2>1. query[k].step = "tournament"
    BY <1>13 DEF AnswerTournament
  <2>2. CASE Misses(k)
    BY <1>3, <1>13, <2>1, <2>2 DEF AnswerTournament
  <2>3. CASE ~Misses(k)
    <3>1. query' = [query EXCEPT ![k].step = "stages", ![k].read = [Blank EXCEPT !.seen = changes]]
      BY <1>13, <2>3 DEF AnswerTournament, Went
    <3>2. query'[k] = [query[k] EXCEPT !.step = "stages", !.read = [Blank EXCEPT !.seen = changes]]
      BY <1>0, <3>1
    <3>3. Shape /\ \A j \in Keys : j # k => query'[j] = query[j]
      BY <1>0, <3>1
    <3> QED
      BY <2>1, <3>2, <3>3 DEF ReadTournament
  <2> QED
    BY <2>2, <2>3
<1> QED
  BY <1>1, <1>2, <1>4, <1>5, <1>6, <1>7, <1>8, <1>9, <1>10, <1>11, <1>12, <1>13
  DEF Next, vars, Answer, Submit, Apply, ApplyDelete, SaveLost, SaveDone, DeleteAnswered,
      Expire, OthersChange, OthersSetLink, OthersSetAccess

----------------------------------------------------------------------------
(* Types. *)

LEMMA BlankTypes == Blank \in Bundle /\ Unloaded \in QueryState
BY UsersAssumption DEF Blank, Bundle, Unloaded, QueryState, Steps

LEMMA KeyStepType ==
    ASSUME TypeOK, NEW k \in Keys, KeyStep(k)
    PROVE  query'[k] \in QueryState
<1>1. query[k] \in QueryState
  BY DEF TypeOK, QueryState
<1>2. Started(query[k]) \in QueryState
  BY <1>1, BlankTypes DEF Started, QueryState, Steps
<1>3. CASE Lost(k)
  BY <1>1, <1>2, <1>3, BlankTypes DEF Lost, QueryState, Steps
<1>4. CASE ReadStages(k)
  <2>1. PICK m \in BOOLEAN :
          query'[k] = [query[k] EXCEPT !.step = "rest",
                         !.read = [query[k].read EXCEPT !.canManage = m, !.drafts = m]]
    BY <1>4 DEF ReadStages
  <2>2. [query[k].read EXCEPT !.canManage = m, !.drafts = m] \in Bundle
    BY <1>1 DEF QueryState, Bundle
  <2> QED
    BY <1>1, <2>1, <2>2 DEF QueryState, Steps
<1>5. CASE Complete(k)
  <2>1. [query[k].read EXCEPT !.drafts = @ /\ ~k.details] \in Bundle
    BY <1>1 DEF QueryState, Bundle
  <2> QED
    BY <1>5, <2>1, BlankTypes DEF Complete, QueryState
<1>6. CASE ReadTournament(k)
  <2>1. [Blank EXCEPT !.seen = changes] \in Bundle
    BY BlankTypes DEF TypeOK, Bundle
  <2> QED
    BY <1>1, <1>6, <2>1 DEF ReadTournament, QueryState, Steps
<1> QED
  BY <1>1, <1>2, <1>3, <1>4, <1>5, <1>6, BlankTypes DEF KeyStep, Start

SaveState == [at : {"idle", "sent", "applied", "refreshing", "deleting", "deleted"},
              change : 0..MaxChanges, key : Keys \cup {NoData}, joined : BOOLEAN]

LEMMA NoSaveType == NoSave \in SaveState
BY UsersAssumption DEF NoSave, SaveState

LEMMA ShownKey == TypeOK /\ LoadsBundle(section, session) => Key \in Keys
<1> SUFFICES ASSUME TypeOK, LoadsBundle(section, session) PROVE Key \in Keys
  OBVIOUS
<1> DEFINE shown == <<section, session>>
<1>1. shown \in {q \in Sections \X Viewers : LoadsBundle(q[1], q[2])}
  BY DEF TypeOK
<1>2. Key = KeyFor(shown[1], shown[2])
  BY DEF Key
<1> HIDE DEF shown
<1> QED
  BY <1>1, <1>2, Zenon DEF Keys

LEMMA TypeInit == Init => TypeOK
<1> SUFFICES ASSUME Init PROVE TypeOK
  OBVIOUS
<1>1. query \in [Keys -> QueryState] /\ save \in SaveState
  BY BlankTypes, NoSaveType DEF Init
<1> QED
  BY <1>1, UsersAssumption DEF Init, TypeOK, QueryState, SaveState, Viewers

LEMMA SaveType ==
    ASSUME TypeOK, [Next]_vars
    PROVE  save' \in SaveState /\ changes' \in 0..MaxChanges
<1>0. save \in SaveState /\ changes \in 0..MaxChanges /\ MaxChanges \in Nat
  BY UsersAssumption DEF TypeOK, SaveState
<1>1. UNCHANGED <<save, changes>> => save' \in SaveState /\ changes' \in 0..MaxChanges
  BY <1>0
<1>2. save' = NoSave /\ UNCHANGED changes => save' \in SaveState /\ changes' \in 0..MaxChanges
  BY <1>0, NoSaveType
<1>3. ASSUME NEW kind \in {"sent", "deleting"}, Submit(kind)
      PROVE  save' \in SaveState /\ changes' \in 0..MaxChanges
  BY <1>0, <1>3, NoSaveType DEF Submit, SaveState
<1>4. CASE Apply
  <2>1. changes + 1 \in 0..MaxChanges
    BY <1>0, <1>4 DEF Apply
  <2> QED
    BY <1>0, <1>4, <2>1 DEF Apply, SaveState
<1>5. CASE ApplyDelete
  BY <1>0, <1>5 DEF ApplyDelete, SaveState
<1>6. CASE SaveAnswered
  BY <1>0, <1>6, ShownKey DEF SaveAnswered, SaveState
<1>7. CASE OthersChange
  BY <1>0, <1>7 DEF OthersChange
<1> QED
  BY <1>1, <1>2, <1>3, <1>4, <1>5, <1>6, <1>7
  DEF Next, vars, Answer, AnswerTournament, AnswerStages, AnswerRest, LoseAnswer, Refetch, Poll,
      Refused, SaveLost, SaveDone, DeleteAnswered, Open, Login, Logout, Expire, OthersSetLink,
      OthersSetAccess

LEMMA TypeStep == TypeOK /\ [Next]_vars => TypeOK'
<1> SUFFICES ASSUME TypeOK, [Next]_vars PROVE TypeOK'
  OBVIOUS
<1>1. query' \in [Keys -> QueryState]
  <2>1. Shape /\ \A k \in Keys : query'[k] \in QueryState
    BY EachKeyStep, KeyStepType
  <2> QED
    BY <2>1 DEF Shape
<1>2. save' \in SaveState /\ changes' \in 0..MaxChanges
  BY SaveType
<1>3. session' \in Viewers /\ cookie' \in Viewers
  BY DEF TypeOK, Viewers, Next, vars, Answer, AnswerTournament, AnswerStages, AnswerRest,
     LoseAnswer, Unauthorized, SignOut, Refetch, Poll, Submit, Apply, ApplyDelete, Refused,
     SaveLost, SaveAnswered, SaveDone, DeleteAnswered, Open, Login, Logout, Expire, OthersChange,
     OthersSetLink, OthersSetAccess
<1>4. /\ access' \in {"public", "private", "deleted"}
      /\ link' \in BOOLEAN
      /\ section' \in Sections
  BY UsersAssumption DEF TypeOK, Next, vars, Answer, AnswerTournament, AnswerStages, AnswerRest,
     LoseAnswer, Refetch, Poll, Submit, Apply, ApplyDelete, Refused, SaveLost, SaveAnswered,
     SaveDone, DeleteAnswered, Open, Login, Logout, Expire, OthersChange, OthersSetLink,
     OthersSetAccess
<1> QED
  BY <1>1, <1>2, <1>3, <1>4 DEF TypeOK, QueryState, SaveState

----------------------------------------------------------------------------
(* The invariant. *)

LEMMA RestInit == Init => OwnInv /\ BundleInv /\ SaverInv /\ RefreshInv
BY UsersAssumption DEF Init, OwnInv, BundleInv, SaverInv, RefreshInv, Unloaded, Blank, NoSave

LEMMA SessionStep ==
    ASSUME [Next]_vars
    PROVE  \/ session' = session
           \/ session' = NoUser /\ query' = Forgotten
           \/ LoginBound /\ query' = Forgotten /\ UNCHANGED save
BY DEF Next, vars, Answer, AnswerTournament, AnswerStages, AnswerRest, LoseAnswer, Unauthorized,
   SignOut, Refetch, Poll, Submit, Apply, ApplyDelete, Refused, SaveLost, SaveAnswered, SaveDone,
   DeleteAnswered, Open, Login, Logout, Expire, OthersChange, OthersSetLink, OthersSetAccess

LEMMA OwnStep ==
    ASSUME TypeOK, OwnInv, [Next]_vars
    PROVE  OwnInv'
<1>1. session' # NoUser => cookie' \in {session', NoUser}
  BY DEF OwnInv, Next, vars, Answer, AnswerTournament, AnswerStages, AnswerRest, LoseAnswer,
     Unauthorized, SignOut, Refetch, Poll, Submit, Apply, ApplyDelete, Refused, SaveLost,
     SaveAnswered, SaveDone, DeleteAnswered, Open, Login, Logout, Expire, OthersChange,
     OthersSetLink, OthersSetAccess
<1>2. ASSUME NEW k \in Keys, k.viewer \notin {session', NoUser} PROVE query'[k] = Unloaded
  <2>1. CASE session' = session
    <3>1. query[k] = Unloaded /\ k.viewer # session
      BY <1>2, <2>1 DEF OwnInv
    <3>2. query[k].step = "idle"
      BY <3>1 DEF Unloaded
    <3>3. KeyStep(k)
      BY EachKeyStep
    <3> QED
      BY <3>1, <3>2, <3>3 DEF KeyStep, Start, Lost, ReadTournament, ReadStages, Complete
  <2>2. CASE query' = Forgotten
    BY <2>2 DEF Forgotten
  <2> QED
    BY <2>1, <2>2, SessionStep
<1> QED
  BY <1>1, <1>2 DEF OwnInv

(* Who loads with the drafts and is answered is an organizer. *)
LEMMA ReaderManages ==
    ASSUME TypeOK, OwnInv, NEW k \in Keys, query[k].step # "idle", k.viewer # NoUser,
           cookie \in Organizers
    PROVE  k.viewer \in Organizers
<1>1. k.viewer = session
  BY DEF OwnInv, Unloaded
<1>2. cookie # NoUser
  BY UsersAssumption
<1> QED
  BY <1>1, <1>2 DEF OwnInv

LEMMA BundleStep ==
    ASSUME TypeOK, OwnInv, BundleInv, [Next]_vars
    PROVE  BundleInv'
<1> SUFFICES ASSUME NEW k \in Keys
             PROVE  /\ query'[k].read.canManage => k.viewer \in Organizers
                    /\ query'[k].data # NoData =>
                          /\ query'[k].data.canManage => k.viewer \in Organizers
                          /\ k.details => ~query'[k].data.drafts
  BY DEF BundleInv
<1>0. /\ query[k] \in QueryState
      /\ query[k].read.canManage => k.viewer \in Organizers
      /\ query[k].data # NoData =>
            /\ query[k].data.canManage => k.viewer \in Organizers
            /\ k.details => ~query[k].data.drafts
  BY DEF BundleInv, TypeOK, QueryState
<1>1. CASE query'[k] = query[k]
  BY <1>0, <1>1
<1>2. CASE query'[k] = Unloaded
  BY <1>2 DEF Unloaded, Blank
<1>3. CASE query'[k] = Started(query[k])
  BY <1>0, <1>3 DEF Started, Blank, QueryState
<1>4. CASE Lost(k)
  <2>1. CASE query'[k] = [Unloaded EXCEPT !.data = query[k].data, !.failed = TRUE]
    BY <1>0, <2>1 DEF Unloaded, Blank
  <2> QED
    BY <1>3, <1>4, <2>1 DEF Lost
<1>5. CASE ReadStages(k)
  <2>1. PICK m \in BOOLEAN :
          /\ m => k.viewer # NoUser /\ cookie \in Organizers
          /\ query'[k] = [query[k] EXCEPT !.step = "rest",
                             !.read = [query[k].read EXCEPT !.canManage = m, !.drafts = m]]
    BY <1>5 DEF ReadStages
  <2>2. m => k.viewer \in Organizers
    BY <1>5, <2>1, ReaderManages DEF ReadStages
  <2>3. query'[k].read.canManage = m /\ query'[k].data = query[k].data
    BY <1>0, <2>1 DEF QueryState, Bundle
  <2> QED
    BY <1>0, <2>2, <2>3
<1>6. CASE Complete(k)
  <2> DEFINE complete == [query[k].read EXCEPT !.drafts = @ /\ ~k.details]
  <2>1. query'[k] = [Unloaded EXCEPT !.data = complete]
    BY <1>6 DEF Complete
  <2>2. /\ complete.canManage = query[k].read.canManage
        /\ complete.drafts = (query[k].read.drafts /\ ~k.details)
    BY <1>0 DEF QueryState, Bundle
  <2> HIDE DEF complete
  <2>3. query'[k].data = complete /\ query'[k].read = Blank
    BY <2>1 DEF Unloaded
  <2>4. ~query'[k].read.canManage
    BY <2>3 DEF Blank
  <2>5. query'[k].data.canManage => k.viewer \in Organizers
    BY <1>0, <2>2, <2>3, Zenon
  <2>6. k.details => ~query'[k].data.drafts
    BY <2>2, <2>3, Zenon
  <2> QED
    BY <2>4, <2>5, <2>6, Zenon
<1>7. CASE ReadTournament(k)
  BY <1>0, <1>7 DEF ReadTournament, Blank, QueryState
<1> QED
  BY <1>1, <1>2, <1>3, <1>4, <1>5, <1>6, <1>7, EachKeyStep DEF KeyStep, Start

LEMMA SaveStep ==
    ASSUME [Next]_vars
    PROVE  \/ UNCHANGED save /\ changes' \in {changes, changes + 1}
           \/ save' = NoSave /\ UNCHANGED changes
           \/ \E kind \in {"sent", "deleting"} : Submit(kind)
           \/ Apply
           \/ ApplyDelete
           \/ SaveAnswered
BY DEF Next, vars, Answer, AnswerTournament, AnswerStages, AnswerRest, LoseAnswer, Refetch, Poll,
   Refused, SaveLost, SaveDone, DeleteAnswered, Open, Login, Logout, Expire, OthersChange,
   OthersSetLink, OthersSetAccess

LEMMA SaverStep ==
    ASSUME TypeOK, OwnInv, BundleInv, SaverInv, [Next]_vars
    PROVE  SaverInv'
<1>0. changes \in Nat /\ save \in SaveState
  BY UsersAssumption DEF TypeOK, SaveState
<1>1. save'.at # "idle" /\ session' # NoUser => session' \in Organizers
  <2> SUFFICES ASSUME save'.at # "idle", session' # NoUser PROVE session' \in Organizers
    OBVIOUS
  <2>1. CASE LoginBound /\ UNCHANGED save
    BY <2>1 DEF LoginBound, NoSave
  <2>2. ASSUME NEW kind \in {"sent", "deleting"}, Submit(kind) PROVE session' \in Organizers
    <3>1. LoadsBundle(section, session) /\ query[Key].data # NoData /\ query[Key].data.canManage
      BY <2>2 DEF Submit, View
    <3>2. Key \in Keys /\ Key.viewer = session /\ session' = session
      BY <2>2, <3>1, ShownKey DEF Key, KeyFor, Submit
    <3> QED
      BY <3>1, <3>2 DEF BundleInv
  <2>3. CASE session' = session /\ save.at # "idle"
    BY <2>3 DEF SaverInv
  <2>4. save.at = "idle" => save' = save \/ (\E kind \in {"sent", "deleting"} : Submit(kind))
                             \/ save'.at = "idle"
    BY DEF Next, vars, Answer, AnswerTournament, AnswerStages, AnswerRest, LoseAnswer, Refetch,
       Poll, Apply, ApplyDelete, Refused, SaveLost, SaveAnswered, SaveDone, DeleteAnswered, Open,
       Login, Logout, Expire, OthersChange, OthersSetLink, OthersSetAccess
  <2> QED
    BY <2>1, <2>2, <2>3, <2>4, SessionStep
<1>2. save'.change <= changes'
  <2>1. CASE UNCHANGED save /\ changes' \in {changes, changes + 1}
    BY <1>0, <2>1 DEF SaverInv, SaveState
  <2>2. CASE save' = NoSave /\ UNCHANGED changes
    BY <1>0, <2>2 DEF NoSave
  <2>3. ASSUME NEW kind \in {"sent", "deleting"}, Submit(kind) PROVE save'.change <= changes'
    BY <1>0, <2>3 DEF Submit, NoSave
  <2>4. CASE Apply
    BY <1>0, <2>4 DEF Apply, SaveState
  <2>5. CASE ApplyDelete \/ SaveAnswered
    <3>1. save'.change = save.change /\ changes' = changes
      BY <1>0, <2>5 DEF ApplyDelete, SaveAnswered, SaveState
    <3> QED
      BY <3>1 DEF SaverInv
  <2> QED
    BY <2>1, <2>2, <2>3, <2>4, <2>5, SaveStep
<1>3. save'.at # "refreshing" => save'.key = NoData
  <2>1. CASE UNCHANGED save
    BY <2>1 DEF SaverInv
  <2>2. CASE save' = NoSave
    BY <2>2 DEF NoSave
  <2>3. ASSUME NEW kind \in {"sent", "deleting"}, Submit(kind) PROVE save'.key = NoData
    BY <2>3 DEF Submit, NoSave
  <2>4. CASE Apply \/ ApplyDelete
    <3>1. save'.key = save.key /\ save.at # "refreshing"
      BY <1>0, <2>4 DEF Apply, ApplyDelete, SaveState
    <3> QED
      BY <3>1 DEF SaverInv
  <2>5. SaveAnswered => save'.at = "refreshing"
    BY <1>0 DEF SaveAnswered, SaveState
  <2> QED
    BY <2>1, <2>2, <2>3, <2>4, <2>5, SaveStep
<1> QED
  BY <1>1, <1>2, <1>3 DEF SaverInv

LEMMA RefreshStep ==
    ASSUME TypeOK, SaverInv, RefreshInv, [Next]_vars
    PROVE  RefreshInv'
<1> SUFFICES ASSUME save'.at = "refreshing", save'.key # NoData, ~save'.joined
             PROVE  LET q == query'[save'.key] IN
                    /\ q.step \in {"stages", "rest"} => q.read.seen >= save'.change
                    /\ q.step = "idle" => q.data = NoData \/ q.failed \/ q.data.seen >= save'.change
  BY DEF RefreshInv
<1>0. save \in SaveState /\ save' \in SaveState
  BY SaveType DEF TypeOK, SaveState
<1>1. CASE SaveAnswered
  <2>1. /\ LoadsBundle(section, session)
        /\ save'.key = Key /\ query[Key].data # NoData
        /\ query' = [query EXCEPT ![Key] = Started(query[Key])]
    <3>1. CASE ~LoadsBundle(section, session)
      <4>1. save' = [save EXCEPT !.at = "refreshing"] /\ save.at = "applied"
        BY <1>1, <3>1 DEF SaveAnswered
      <4>2. save'.key = save.key /\ save'.joined = save.joined
        BY <1>0, <4>1 DEF SaveState
      <4> QED
        BY <4>1, <4>2 DEF SaverInv
    <3>2. CASE LoadsBundle(section, session)
      <4>1. /\ query' = [query EXCEPT ![Key] = IF query[Key].data = NoData THEN query[Key]
                                                       ELSE Started(query[Key])]
            /\ save' = [save EXCEPT !.at = "refreshing", !.key = Key,
                                    !.joined = query[Key].data = NoData]
        BY <1>1, <3>2 DEF SaveAnswered
      <4>2. save'.key = Key /\ save'.joined = (query[Key].data = NoData)
        BY <1>0, <4>1 DEF SaveState
      <4>3. query[Key].data # NoData
        BY <4>2
      <4> QED
        BY <3>2, <4>1, <4>2, <4>3
    <3> QED
      BY <3>1, <3>2
  <2>2. Key \in DOMAIN query /\ query[Key] \in QueryState
    BY <2>1, ShownKey DEF TypeOK, QueryState
  <2>3. query'[save'.key].step = "tournament"
    BY <2>1, <2>2 DEF Started, QueryState
  <2> QED
    BY <2>3
<1>2. CASE UNCHANGED save
  <2> DEFINE k == save.key
  <2>1. k \in Keys /\ query[k] \in QueryState /\ save.change <= changes
    BY <1>0, <1>2 DEF SaveState, TypeOK, QueryState, SaverInv
  <2>2. /\ query[k].step \in {"stages", "rest"} => query[k].read.seen >= save.change
        /\ query[k].step = "idle" => \/ query[k].data = NoData
                                    \/ query[k].failed
                                    \/ query[k].data.seen >= save.change
    BY <1>2 DEF RefreshInv
  <2>3. save' = save
    BY <1>2
  <2>4. KeyStep(k)
    BY <2>1, EachKeyStep
  <2> HIDE DEF k
  <2> SUFFICES /\ query'[k].step \in {"stages", "rest"} => query'[k].read.seen >= save.change
               /\ query'[k].step = "idle" => \/ query'[k].data = NoData
                                            \/ query'[k].failed
                                            \/ query'[k].data.seen >= save.change
    BY <2>3 DEF k
  <2>5. CASE query'[k] = query[k]
    BY <2>2, <2>5
  <2>6. CASE query'[k] = Unloaded
    BY <2>6 DEF Unloaded
  <2>7. CASE Start(k)
    BY <2>1, <2>7 DEF Start, Started, QueryState
  <2>8. CASE Lost(k)
    BY <2>1, <2>8 DEF Lost, Started, Unloaded, QueryState
  <2>9. CASE ReadStages(k)
    <3>1. PICK m \in BOOLEAN :
            query'[k] = [query[k] EXCEPT !.step = "rest",
                           !.read = [query[k].read EXCEPT !.canManage = m, !.drafts = m]]
      BY <2>9 DEF ReadStages
    <3>2. query'[k].step = "rest" /\ query'[k].read.seen = query[k].read.seen
      BY <2>1, <3>1 DEF QueryState, Bundle
    <3> QED
      BY <2>2, <2>9, <3>2 DEF ReadStages
  <2>11. CASE ReadTournament(k)
    <3>1. query'[k].step = "stages" /\ query'[k].read.seen = changes
      BY <2>1, <2>11 DEF ReadTournament, QueryState, Blank
    <3> QED
      BY <2>1, <3>1, UsersAssumption DEF TypeOK
  <2>10. CASE Complete(k)
    <3> DEFINE complete == [query[k].read EXCEPT !.drafts = @ /\ ~k.details]
    <3>1. query'[k] = [Unloaded EXCEPT !.data = complete] /\ query[k].step = "rest"
      BY <2>10 DEF Complete
    <3>2. complete.seen = query[k].read.seen
      BY <2>1 DEF QueryState, Bundle
    <3> HIDE DEF complete
    <3>3. query'[k].data = complete /\ query'[k].step = "idle"
      BY <3>1 DEF Unloaded
    <3> QED
      BY <2>2, <3>1, <3>2, <3>3
  <2> QED
    BY <2>4, <2>5, <2>6, <2>7, <2>8, <2>9, <2>10, <2>11 DEF KeyStep
<1>3. ~(UNCHANGED save) => SaveAnswered
  <2>1. save' = NoSave => save'.at # "refreshing"
    BY DEF NoSave
  <2>2. ASSUME NEW kind \in {"sent", "deleting"}, Submit(kind) PROVE save'.at # "refreshing"
    BY <2>2 DEF Submit, NoSave
  <2>3. Apply \/ ApplyDelete => save'.at # "refreshing"
    BY <1>0 DEF Apply, ApplyDelete, SaveState
  <2> QED
    BY <2>1, <2>2, <2>3, SaveStep
<1> QED
  BY <1>1, <1>2, <1>3

LEMMA Initially == Init => IInv
BY TypeInit, RestInit DEF IInv

LEMMA Inductive == IInv /\ [Next]_vars => IInv'
BY TypeStep, OwnStep, BundleStep, SaverStep, RefreshStep DEF IInv

(* The inductive invariant of a tab. *)
THEOREM Invariant == Spec => []IInv
BY Initially, Inductive, PTL DEF Spec

----------------------------------------------------------------------------

(* What a tab holds keeps its type. *)
THEOREM TypeCorrect == Spec => []TypeOK
<1>1. IInv => TypeOK
  BY DEF IInv
<1> QED
  BY <1>1, Invariant, PTL

(* Without a session nothing is left of any user who was signed in, and    *)
(* nothing under way brings it back (queryClient.clear in RootLayout).     *)
THEOREM SigningOutForgets == Spec => []NothingLeftAfterSignOut
<1>1. IInv => NothingLeftAfterSignOut
  BY DEF IInv, OwnInv, NothingLeftAfterSignOut
<1> QED
  BY <1>1, Invariant, PTL

(* No Details page, and no page without a session, shows a draft round     *)
(* (withoutDraftRounds, the query key).                                    *)
THEOREM DraftsStayHidden == Spec => []NoDraftsForVisitors
<1>1. IInv => NoDraftsForVisitors
  <2> SUFFICES ASSUME IInv, View = "page", session = NoUser \/ Details(section)
               PROVE  ~query[Key].data.drafts
    BY DEF NoDraftsForVisitors
  <2>1. section # "home" /\ LoadsBundle(section, session) /\ query[Key].data # NoData
    BY DEF View
  <2>2. Details(section)
    BY <2>1 DEF LoadsBundle
  <2>3. Key \in Keys /\ Key.details
    BY <2>1, <2>2, ShownKey DEF IInv, Key, KeyFor
  <2> QED
    BY <2>1, <2>3 DEF IInv, BundleInv
<1> QED
  BY <1>1, Invariant, PTL

(* While the cookie is valid and the tournament public, only a custom link *)
(* that no longer leads there ends a session: neither the drafts that are  *)
(* refused nor any change of rights does, nor any answer to who goes by    *)
(* number (isAuthorizationError, the interceptor in configureApiClient).   *)
THEOREM RefusalsKeepSessions == Spec => SignedOutOnlyWhenRefused
<1> DEFINE Justified ==
       (session # NoUser /\ session' = NoUser /\ cookie # NoUser /\ access = "public") =>
          /\ ~Refused
          /\ \A k \in Keys :
                Answer(k) => query[k].step = "tournament" /\ k.linked /\ ~link
<1>1. IInv /\ [Next]_vars => [Justified]_vars
  <2> SUFFICES ASSUME IInv, session # NoUser, session' = NoUser, access = "public",
                      cookie # NoUser
               PROVE  /\ ~Refused
                      /\ \A k \in Keys :
                            Answer(k) => query[k].step = "tournament" /\ k.linked /\ ~link
    OBVIOUS
  <2>1. cookie = session
    BY DEF IInv, OwnInv
  <2>2. ASSUME Refused PROVE FALSE
    <3>1. session \in Organizers
      BY <2>2 DEF IInv, SaverInv, Refused
    <3> QED
      BY <2>1, <2>2, <3>1 DEF Refused, Organizes
  <2>3. ASSUME NEW k \in Keys, AnswerStages(k) PROVE FALSE
    BY <2>3 DEF AnswerStages, Refuses
  <2>4. ASSUME NEW k \in Keys, AnswerRest(k) PROVE FALSE
    <3>1. query[k].read.canManage /\ ~Organizes /\ query[k].step = "rest"
      BY <2>4 DEF AnswerRest, Refuses
    <3>2. k.viewer \in Organizers
      BY <3>1 DEF IInv, BundleInv
    <3>3. k.viewer = session
      BY <3>1, <3>2, UsersAssumption DEF IInv, OwnInv, Unloaded
    <3> QED
      BY <2>1, <3>1, <3>2, <3>3 DEF Organizes
  <2>5. ASSUME NEW k \in Keys, AnswerTournament(k)
        PROVE  query[k].step = "tournament" /\ k.linked /\ ~link
    BY <2>5 DEF AnswerTournament, Misses, Refuses
  <2> QED
    BY <2>2, <2>3, <2>4, <2>5 DEF Answer
<1> QED
  BY <1>1, Invariant, PTL DEF Spec, SignedOutOnlyWhenRefused

(* Over the message of success the page shows what was read after the      *)
(* change (the MutationCache onSuccess handler).                           *)
THEOREM SuccessIsShown == Spec => SuccessMeansShown
<1> DEFINE Shows ==
       SaveDone =>
          LET q == query[save.key] IN
          \/ save.key = NoData
          \/ q.data = NoData
          \/ q.failed
          \/ save.joined
          \/ q.data.seen >= save.change
<1>1. IInv /\ [Next]_vars => [Shows]_vars
  BY DEF IInv, RefreshInv, SaveDone
<1> QED
  BY <1>1, Invariant, PTL DEF Spec, SuccessMeansShown
=============================================================================
