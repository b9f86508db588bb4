----------------------------- MODULE SwissRounds -----------------------------
(***************************************************************************)
(* The rounds of one Swiss stage item, changed by organizers who each work *)
(* from what their own page last loaded (stage-item-rounds.tsx): rounds    *)
(* are generated as drafts, their pairings adjusted, published, scored and *)
(* deleted (routes/rounds.py, routes/matches.py).                          *)
(*                                                                         *)
(* A request is a transaction at READ COMMITTED.  It checks what it read   *)
(* at one moment ("checked"), makes its own change and recalculates the    *)
(* points from what is committed then ("written"), and commits later; in   *)
(* between other requests commit.  A request that is refused changes       *)
(* nothing and is left out.  What matters of the points is which results   *)
(* they count.  All inputs of the stage item have active teams.            *)
(***************************************************************************)
EXTENDS FiniteSets, Naturals

CONSTANTS
    Inputs,      \* the inputs of the stage item
    Pages,       \* the browser pages of organizers
    SlowPages,   \* the ones that may show something old
    MaxRounds,   \* bound on the rounds ever created
    MaxMatches   \* bound on the matches of a round

ASSUME InputsAssumption == SlowPages \subseteq Pages /\ MaxRounds \in Nat /\ MaxMatches \in Nat

VARIABLES
    rounds,    \* the committed rounds by id, in the order they are created
    counted,   \* the results that the stored points of the inputs count
    seen,      \* the rounds each slow page shows
    request    \* what each page has under way

vars == <<rounds, counted, seen, request>>

RoundIds == 1..MaxRounds
Pairs == {p \in SUBSET Inputs : Cardinality(p) = 2}

(* A match stands for its pair.  Bound: no round has the same pair twice.  *)
Match == Pairs

Round == [status : {"new", "draft", "published", "deleted"}, number : 0..MaxRounds,
          matches : SUBSET Match, scored : SUBSET Match]

NewRound == [status |-> "new", number |-> 0, matches |-> {}, scored |-> {}]
Deleted == [NewRound EXCEPT !.status = "deleted"]

Request == [op : {"generate", "add", "remove", "delete", "score"},
            at : {"sent", "checked", "written"},
            round : 0..MaxRounds, pairs : SUBSET Pairs, number : 0..MaxRounds,
            scored : BOOLEAN, again : BOOLEAN, stale : BOOLEAN,
            points : SUBSET (RoundIds \X Match), overtaken : SUBSET {"generate", "add", "change"}]

Idle == [op |-> "none"]

(* A request about some matches of a round. *)
Asking(op, round, pairs) ==
    [op |-> op, at |-> "checked", round |-> round, pairs |-> pairs, number |-> 0,
     scored |-> FALSE, again |-> FALSE, stale |-> FALSE, points |-> {}, overtaken |-> {}]

TypeOK ==
    /\ rounds \in [RoundIds -> Round]
    /\ counted \subseteq RoundIds \X Match
    /\ seen \in [SlowPages -> [RoundIds -> [status : {"new", "draft", "published", "deleted"},
                                      matches : SUBSET Match]]]
    /\ request \in [Pages -> Request \cup {Idle}]

Existing(rs) == {r \in DOMAIN rs : rs[r].status \in {"draft", "published"}}
Drafts(rs) == {r \in DOMAIN rs : rs[r].status = "draft"}
Published(rs) == {r \in DOMAIN rs : rs[r].status = "published"}
Newest(R) == {r \in R : \A s \in R : s <= r}
Oldest(R) == {r \in R : \A s \in R : r <= s}

(* What the buttons of a page depend on: which rounds there are, and who   *)
(* is paired in a draft.                                                   *)
Visible(rs) ==
    [r \in RoundIds |-> [status |-> rs[r].status,
                         matches |-> IF r \in Drafts(rs) THEN rs[r].matches ELSE {}]]

(* The results a recalculation counts: those of published rounds.  A match *)
(* counts when one of its scores is not zero.                              *)
Results(rs) == {rm \in RoundIds \X Match :
                   rm[1] \in Published(rs) /\ rm[2] \in rs[rm[1]].scored}

(* The inputs of the matches of a round. *)
Paired(round) == UNION round.matches

(* The pairings of inputs that have not met, each input at most once, with *)
(* as many matches as there can be; the points decide between them.        *)
Pairings(rs) ==
    LET met == UNION {rs[r].matches : r \in Existing(rs)}
        disjoint == {S \in SUBSET (Pairs \ met) : \A p, q \in S : p # q => p \cap q = {}}
    IN  {S \in disjoint : \A T \in disjoint : Cardinality(T) <= Cardinality(S)}

Numbered(rs) == Cardinality(Existing(rs)) + 1

----------------------------------------------------------------------------
(* What a request changes, on top of any committed rounds. *)

(* The id and the number of a round are settled when it is inserted; the   *)
(* rounds may have been counted before or after another request committed. *)
Inserted(rs, pairs, number) ==
    LET r == CHOOSE r \in Oldest({i \in RoundIds : rs[i].status = "new"}) : TRUE
    IN  [rs EXCEPT ![r] = [status |-> "draft", number |-> number,
                           matches |-> pairs, scored |-> {}]]

WithMatch(rs, r, p) ==
    [rs EXCEPT ![r].matches = @ \cup {p}]

Without(round, pairs) == [round EXCEPT !.matches = @ \ pairs, !.scored = @ \ pairs]

Changed(q, rs) ==
    CASE q.op = "remove" -> [rs EXCEPT ![q.round] = Without(@, q.pairs)]
      [] q.op = "delete" -> [rs EXCEPT ![q.round] = Deleted]
      [] q.op = "score" -> [rs EXCEPT ![q.round].scored =
                                  (@ \ q.pairs) \cup (IF q.scored THEN q.pairs ELSE {})]

(* Rows a request has written and not committed: later ones wait for them. *)
Holds(q, r, pairs) ==
    /\ q # Idle
    /\ q.at = "written"
    /\ q.round = r
    /\ q.op = "delete" \/ q.pairs \cap pairs # {}

Free(r, pairs) == \A p \in Pages : ~Holds(request[p], r, pairs)

(* Removing a pairing, deleting a round and entering a score recalculate   *)
(* the points.                                                             *)
Kind(op) == IF op \in {"remove", "delete", "score"} THEN "change" ELSE op

(* The kinds of commits that can make what a request decided on old.       *)
Outdates(op) ==
    IF op \in {"generate", "delete"} THEN {"generate", "change"} ELSE {Kind(op)}

Overtaken(p, next) ==
    LET done == Kind(request[p].op)
    IN  [o \in Pages |->
            CASE o = p -> next
              [] o # p /\ request[o] # Idle /\ done \in Outdates(request[o].op) ->
                     [request[o] EXCEPT !.overtaken = @ \cup {done}]
              [] OTHER -> request[o]]

----------------------------------------------------------------------------
(* The buttons of a page, and what the server checks before it writes. *)

(* Bound: only SlowPages show something old. *)
Shown(p) == IF p \in SlowPages THEN seen[p] ELSE Visible(rounds)

Send(p, q) ==
    /\ request' = [request EXCEPT ![p] = q]
    /\ UNCHANGED <<rounds, counted, seen>>

(* Bound: a round to create is left. *)
RoundLeft == \E r \in RoundIds : rounds[r].status = "new"

(* Mutant of CanCreateRound: only pages look for a draft. *)
CanCreateAnyRound ==
    /\ RoundLeft
    /\ Pairings(rounds) # {{}}

CanCreateRound ==
    /\ RoundLeft
    /\ Drafts(rounds) = {}
    /\ Pairings(rounds) # {{}}

Creating(pairs) == [Asking("generate", 0, pairs) EXCEPT !.number = Numbered(rounds)]

Generate(p) ==
    /\ request[p] = Idle
    /\ Drafts(Shown(p)) = {}
    /\ CanCreateRound
    /\ \E pairs \in Pairings(rounds) : Send(p, Creating(pairs))

(* Of several drafts a page shows the first. *)
ShownDraft(p) == Oldest(Drafts(Shown(p)))

(* Mutant of AddPairing: only the page looks who is paired. *)
AddPairingUnchecked(p) ==
    \E r \in ShownDraft(p), pair \in Pairs :
        /\ request[p] = Idle
        /\ pair \cap Paired(Shown(p)[r]) = {}
        /\ r \in Drafts(rounds)
        /\ Send(p, Asking("add", r, {pair}))

AddPairing(p) ==
    \E r \in ShownDraft(p), pair \in Pairs :
        /\ request[p] = Idle
        /\ pair \cap Paired(Shown(p)[r]) = {}
        /\ r \in Drafts(rounds)
        /\ pair \cap Paired(rounds[r]) = {}
        /\ Send(p, Asking("add", r, {pair}))

RemovePairing(p) ==
    \E r \in ShownDraft(p) : \E m \in Shown(p)[r].matches :
        /\ request[p] = Idle
        /\ r \in Drafts(rounds)
        /\ m \in rounds[r].matches
        /\ Send(p, Asking("remove", r, {m}))

(* Mutant of Written: the points are recalculated before the change. *)
WrittenAfterwards(q) == [q EXCEPT !.at = "written", !.points = Results(rounds)]

(* The request's own change, and the points recalculated over it. *)
Written(q) == [q EXCEPT !.at = "written", !.points = Results(Changed(q, rounds))]

(* A pairing that another request has removed meanwhile is not removed     *)
(* again: that request changes no row, and that it recalculates the points *)
(* all the same is left out.                                               *)
WriteRemoval(p) ==
    LET q == request[p] IN
    /\ q # Idle
    /\ q.op = "remove" /\ q.at = "checked"
    /\ q.pairs \subseteq rounds[q.round].matches
    /\ Free(q.round, q.pairs)
    /\ Send(p, Written(q))

(* The page does not show which rounds there are and which are drafts. *)
Outdated(p) == \E r \in RoundIds : Shown(p)[r].status # rounds[r].status

(* Deleting a round asks only that it exists: no button but Discard,       *)
(* Regenerate and, on the newest round of a page without a draft, Delete   *)
(* sends it.  One that another request has deleted meanwhile stays deleted. *)
DeleteRound(p, r, again) ==
    /\ request[p] = Idle
    /\ r \in Existing(rounds)
    /\ Free(r, rounds[r].matches)
    /\ Send(p, Written([Asking("delete", r, {}) EXCEPT !.again = again, !.stale = Outdated(p)]))

Discard(p) == \E r \in ShownDraft(p) : DeleteRound(p, r, FALSE)

Regenerate(p) == \E r \in ShownDraft(p) : DeleteRound(p, r, TRUE)

(* Mutant of DeleteLatest: every published round can be deleted. *)
DeleteAnyPublished(p) ==
    /\ Drafts(Shown(p)) = {}
    /\ \E r \in Published(Shown(p)) : DeleteRound(p, r, FALSE)

DeleteLatest(p) ==
    /\ Drafts(Shown(p)) = {}
    /\ \E r \in Newest(Published(Shown(p))) : DeleteRound(p, r, FALSE)

(* Only published rounds have score forms.  A match gets its first score,  *)
(* or is set back to 0-0.                                                  *)
EnterScore(p) ==
    \E r \in Published(Shown(p)) : \E m \in rounds[r].matches :
        /\ request[p] = Idle
        /\ Free(r, {m})
        /\ Send(p, Written([Asking("score", r, {m}) EXCEPT !.scored = m \notin rounds[r].scored]))

(* One statement that checks nothing.  The route also makes a published    *)
(* round a draft again, which no page sends.                               *)
Publish(p) ==
    \E r \in ShownDraft(p) :
        /\ request[p] = Idle
        /\ Shown(p)[r].matches # {}
        /\ r \in Existing(rounds)
        /\ Free(r, {})
        /\ rounds' = [rounds EXCEPT ![r].status = "published"]
        /\ UNCHANGED <<counted, seen, request>>

----------------------------------------------------------------------------
(* The end of a request. *)

CommitGenerate(p) ==
    LET q == request[p] IN
    /\ q # Idle
    /\ q.op = "generate" /\ q.at = "checked"
    /\ RoundLeft
    /\ \E n \in {q.number, Numbered(rounds)} : rounds' = Inserted(rounds, q.pairs, n)
    /\ request' = Overtaken(p, Idle)
    /\ UNCHANGED <<counted, seen>>

(* A match cannot be inserted into a round that is gone.  Bound: a round   *)
(* has at most MaxMatches.                                                 *)
CommitAdd(p) ==
    LET q == request[p] IN
    /\ q # Idle
    /\ q.op = "add"
    /\ q.round \in Existing(rounds)
    /\ Cardinality(rounds[q.round].matches) < MaxMatches
    /\ q.pairs \cap rounds[q.round].matches = {}
    /\ \E pair \in q.pairs : rounds' = WithMatch(rounds, q.round, pair)
    /\ request' = Overtaken(p, Idle)
    /\ UNCHANGED <<counted, seen>>

(* Regenerating is two requests: the draft is deleted, then a new round is *)
(* created.                                                                *)
CommitChange(p) ==
    LET q == request[p] IN
    /\ q # Idle
    /\ q.at = "written"
    /\ rounds' = Changed(q, rounds)
    /\ counted' = q.points
    /\ request' = Overtaken(p, IF q.again THEN [Asking("generate", 0, {}) EXCEPT !.at = "sent"]
                                          ELSE Idle)
    /\ UNCHANGED seen

GenerateAgain(p) ==
    /\ request[p] # Idle
    /\ request[p].at = "sent"
    /\ CanCreateRound
    /\ \E pairs \in Pairings(rounds) : Send(p, Creating(pairs))

(* A lost connection or an error; what is committed stays. *)
Fail(p) ==
    /\ request[p] # Idle
    /\ Send(p, Idle)

(* After a request, or when its window is focused, a page loads the rounds *)
(* again; until then, and if that fails, it shows what it showed.          *)
Reload(p) ==
    /\ p \in SlowPages
    /\ seen[p] # Visible(rounds)
    /\ seen' = [seen EXCEPT ![p] = Visible(rounds)]
    /\ UNCHANGED <<rounds, counted, request>>

----------------------------------------------------------------------------

Init ==
    /\ rounds = [r \in RoundIds |-> NewRound]
    /\ counted = {}
    /\ seen = [p \in SlowPages |-> Visible(rounds)]
    /\ request = [p \in Pages |-> Idle]

Click(p) ==
    \/ Generate(p)
    \/ AddPairing(p)
    \/ RemovePairing(p)
    \/ Discard(p)
    \/ Regenerate(p)
    \/ DeleteLatest(p)
    \/ EnterScore(p)
    \/ Publish(p)

Serve(p) ==
    \/ WriteRemoval(p)
    \/ CommitGenerate(p)
    \/ CommitAdd(p)
    \/ CommitChange(p)
    \/ GenerateAgain(p)

Next == \E p \in Pages : Click(p) \/ Serve(p) \/ Fail(p) \/ Reload(p)

Spec == Init /\ [][Next]_vars

----------------------------------------------------------------------------

(* A second draft appears only when two requests to create a round         *)
(* overlapped: a page that does not show the draft yet, and a regeneration *)
(* that deletes one first, are both stopped by the check in create_round.  *)
SecondDraftOnlyByOverlap ==
    [][(Cardinality(Drafts(rounds)) <= 1 /\ Cardinality(Drafts(rounds')) > 1)
          => \E p \in Pages : CommitGenerate(p) /\ "generate" \in request[p].overtaken]_vars

EachOncePerRound(rs) ==
    \A r \in Existing(rs) : \A m, n \in rs[r].matches :
        m # n => m \cap n = {}

(* An input is in two matches of a round only when two requests to add a   *)
(* pairing overlapped, however old the pages are they came from (the check *)
(* in create_match).                                                       *)
PairedTwiceOnlyByOverlap ==
    [][(EachOncePerRound(rounds) /\ ~EachOncePerRound(rounds'))
          => \E p \in Pages : CommitAdd(p) /\ "add" \in request[p].overtaken]_vars

(* The stored points, which the next pairing is based on, count the        *)
(* results of the published rounds.  Publishing, creating and adding do    *)
(* not recalculate them and do not have to, since no draft has results;    *)
(* only a recalculation that another one overtook makes them wrong         *)
(* (update_round_by_id, recalculate_ranking_for_stage_item).               *)
PointsStayCurrent ==
    [][counted = Results(rounds) =>
          \/ counted' = Results(rounds')
          \/ \E p \in Pages : CommitChange(p) /\ "change" \in request[p].overtaken]_vars

InOrder(rs) ==
    \A r \in Existing(rs) : rs[r].number = Cardinality({s \in Existing(rs) : s <= r})

(* Rounds are numbered by counting them (get_next_round_name), and stay    *)
(* numbered in order as long as requests to create one do not overlap and  *)
(* a page deletes what it shows as the newest round while it is the newest *)
(* (canDelete).                                                            *)
NumberedInOrder ==
    [][(InOrder(rounds) /\ ~InOrder(rounds')) =>
          \E p \in Pages :
             \/ CommitGenerate(p) /\ request[p].overtaken # {}
             \/ CommitChange(p) /\ (request[p].stale \/ request[p].overtaken # {})
             \/ Cardinality(Drafts(rounds)) > 1]_vars

(* Discarding or regenerating a draft deletes a draft (the question the    *)
(* page asks, "Discard the draft ...?").                                   *)
DiscardsDraftsOnly ==
    [][\A p \in Pages : (CommitChange(p) /\ request[p].op = "delete"
                            /\ ShownDraft(p) = {request[p].round})
          => rounds[request[p].round].status = "draft"]_vars
=============================================================================
