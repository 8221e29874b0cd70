--------------------------- MODULE SessionLifecycle ----------------------------
(***************************************************************************)
(* The lifecycle of one session around its draft: the state machine and    *)
(* its backward edges, ranked-choice configuration and deadline, meeting   *)
(* dates, and the edits that look at the session state before they write.  *)
(*                                                                         *)
(* TransitionSession runs an unconfirmed request in two transactions, a    *)
(* preview and, when that calls the request a forward one, the change.     *)
(* Catalog and meeting-date edits read the session without locking it and  *)
(* write later.  Both are split here where other transactions come in.     *)
(***************************************************************************)
EXTENDS SolveRuns

CONSTANTS
    Dates,       \* calendar dates a session may meet on
    RankDepths,  \* rank depths a ballot may have
    MaxTime,     \* bound on the clock
    Requests,    \* unconfirmed transition requests in progress at a time
    Editors      \* catalog and meeting-date edits in progress at a time

ASSUME LifecycleAssumption ==
    /\ IsFiniteSet(Dates)
    /\ RankDepths \subseteq Nat \ {0}
    /\ MaxTime \in Nat

VARIABLES
    state,       \* sessions.state
    stale,       \* sessions.draft_assignments_stale
    ranked,      \* ranked-choice depth and deadline, or NotConfigured
    dates,       \* the meeting_dates rows
    now,         \* the clock deadlines are compared with
    request,     \* unconfirmed requests whose preview said forward
    editing,     \* edits that have passed their checks
    outdated     \* history: the draft's stage was reopened after the draft was last solved

lifecycleVars == <<state, stale, ranked, dates, now, request, editing, outdated>>
sessionVars == <<solveVars, lifecycleVars>>

States == {"planning", "catalog_published", "voting_open", "voting_closed",
           "assigning", "published", "complete"}

NotConfigured == [depth |-> 0, deadline |-> 0]
Configurations == [depth : RankDepths, deadline : 1..MaxTime + 1]
Deadlines == 0..MaxTime + 1    \* 0 stands for a request that names none

Transition == [to : States, reasoned : BOOLEAN, deadline : Deadlines]
NoRequest == [to |-> "planning", reasoned |-> FALSE, deadline |-> 0]

\* An edit of the catalog, or of the meeting dates from one date to another:
\* creating a date has no row to leave, deleting one has no date to go to.
Edits ==
    [kind : {"catalog"}, from : {{}}, to : {{}}]
        \cup {e \in [kind : {"dates"}, from : SUBSET Dates, to : SUBSET Dates] :
                 Cardinality(e.from) <= 1 /\ Cardinality(e.to) <= 1 /\ e.from # e.to}
NoEdit == [kind |-> "none", from |-> {}, to |-> {}]

--------------------------------------------------------------------------------
(* The state machine.                                                      *)

LegalSessionTransitions ==
    {<<"planning", "catalog_published">>,
     <<"catalog_published", "voting_open">>, <<"catalog_published", "assigning">>,
     <<"voting_open", "voting_closed">>,
     <<"voting_closed", "assigning">>, <<"voting_closed", "voting_open">>,
     <<"assigning", "published">>, <<"assigning", "voting_closed">>,
     <<"published", "complete">>, <<"published", "assigning">>}

IsBackward(from, to) ==
    <<from, to>> \in {<<"voting_closed", "voting_open">>, <<"assigning", "voting_closed">>,
                      <<"published", "assigning">>}

\* Mutant of Permitted: voting reopens in a session that never had a ballot.
PermittedWithoutBallot(to) ==
    /\ <<state, to>> \in LegalSessionTransitions
    /\ <<state, to>> = <<"catalog_published", "voting_open">> =>
           DOMAIN catalog # {} /\ ranked # NotConfigured /\ ranked.deadline > now
    /\ <<state, to>> = <<"assigning", "published">> => ~stale

\* PlanSessionTransition with the gates sessionTransitionPlan adds.
Permitted(to) ==
    /\ <<state, to>> \in LegalSessionTransitions
    /\ <<state, to>> = <<"catalog_published", "voting_open">> =>
           DOMAIN catalog # {} /\ ranked # NotConfigured /\ ranked.deadline > now
    /\ <<state, to>> = <<"voting_closed", "voting_open">> => ranked # NotConfigured
    /\ <<state, to>> = <<"assigning", "published">> => ~stale

\* Mutant of MarksDraftStale: only a session still being assigned is marked.
MarksAssigningStale(to) == IsBackward(state, to) /\ (state = "assigning" \/ stale)

MarksDraftStale(to) ==
    IsBackward(state, to) /\ (state \in {"assigning", "published"} \/ stale)

\* Mutant of ApplyTransition: reopening takes the deadline as it comes.
ApplyAnyDeadline(t) ==
    /\ Permitted(t.to)
    /\ IsBackward(state, t.to) => t.reasoned
    /\ ranked' = IF <<state, t.to>> = <<"voting_closed", "voting_open">>
                 THEN [ranked EXCEPT !.deadline = t.deadline] ELSE ranked
    /\ state' = t.to
    /\ stale' = (stale \/ MarksDraftStale(t.to))
    /\ outdated' = (outdated \/ (IsBackward(state, t.to) /\ state \in {"assigning", "published"}))
    /\ UNCHANGED <<solveVars, dates, now, editing>>

\* The transaction that locks the session row, plans again and applies.
ApplyTransition(t) ==
    /\ Permitted(t.to)
    /\ IsBackward(state, t.to) => t.reasoned
    /\ IF <<state, t.to>> = <<"voting_closed", "voting_open">>
       THEN t.deadline > now /\ ranked' = [ranked EXCEPT !.deadline = t.deadline]
       ELSE ranked' = ranked
    /\ state' = t.to
    /\ stale' = (stale \/ MarksDraftStale(t.to))
    /\ outdated' = (outdated \/ (IsBackward(state, t.to) /\ state \in {"assigning", "published"}))
    /\ UNCHANGED <<solveVars, dates, now, editing>>

ConfirmedTransition(t) == ApplyTransition(t) /\ UNCHANGED request

\* The preview of a backward request is its answer and changes nothing.
PreviewForward(r, t) ==
    /\ request[r] = NoRequest
    /\ Permitted(t.to)
    /\ ~IsBackward(state, t.to)
    /\ request' = [request EXCEPT ![r] = t]
    /\ UNCHANGED <<solveVars, state, stale, ranked, dates, now, editing, outdated>>

ApplyForward(r) ==
    /\ request[r] # NoRequest
    /\ ApplyTransition(request[r])
    /\ request' = [request EXCEPT ![r] = NoRequest]

\* The second transaction refuses, or never runs.
DropRequest(r) ==
    /\ request[r] # NoRequest
    /\ request' = [request EXCEPT ![r] = NoRequest]
    /\ UNCHANGED <<solveVars, state, stale, ranked, dates, now, editing, outdated>>

--------------------------------------------------------------------------------
(* Session configuration.                                                  *)

\* Mutant of ConfigurationAllowed: an expired deadline may still be extended.
ConfigurationExtensible(config) ==
    /\ config.deadline > now
    /\ state \notin {"planning", "catalog_published"} =>
           state = "voting_open" /\ ranked # NotConfigured /\ ranked.depth = config.depth

\* validateRankedChoiceUpdate: free before voting opens; while it is open only
\* the deadline moves, and not any more once it has passed.
ConfigurationAllowed(config) ==
    /\ config.deadline > now
    /\ state \notin {"planning", "catalog_published"} =>
           /\ state = "voting_open"
           /\ ranked # NotConfigured
           /\ ranked.depth = config.depth
           /\ ranked.deadline > now

\* Changing the dates replaces every row, so that an edit of a row that is
\* gone fails when it comes to write.
UpdateSession(newDates, config) ==
    /\ state # "complete"
    /\ newDates # {}
    /\ config # ranked => ConfigurationAllowed(config)
    /\ <<newDates, config>> # <<dates, ranked>>
    /\ dates' = newDates
    /\ ranked' = config
    /\ editing' = [e \in Editors |->
           IF newDates # dates /\ editing[e].from # {} THEN NoEdit ELSE editing[e]]
    /\ UNCHANGED <<solveVars, state, stale, now, request, outdated>>

--------------------------------------------------------------------------------
(* Edits that check first and write later, without a lock in between.      *)

CheckEdit(e, edit) ==
    /\ editing[e] = NoEdit
    /\ state # "complete"
    /\ edit.from \subseteq dates
    /\ edit.kind = "dates" /\ edit.to = {} => Cardinality(dates) > 1
    /\ editing' = [editing EXCEPT ![e] = edit]
    /\ UNCHANGED <<solveVars, state, stale, ranked, dates, now, request, outdated>>

EndEdit(e, kind) ==
    /\ editing[e].kind = kind
    /\ editing' = [editing EXCEPT ![e] = NoEdit]
    /\ UNCHANGED <<state, stale, ranked, now, request, outdated>>

CatalogEdit(e) == EndEdit(e, "catalog") /\ CatalogOperation /\ UNCHANGED <<dates, solve>>

\* The dates of a session are distinct.
WriteMeetingDate(e) ==
    /\ EndEdit(e, "dates")
    /\ editing[e].from \subseteq dates
    /\ editing[e].to \cap dates = {}
    /\ dates' = (dates \ editing[e].from) \cup editing[e].to
    /\ UNCHANGED solveVars

DropEdit(e) == editing[e] # NoEdit /\ EndEdit(e, editing[e].kind) /\ UNCHANGED <<solveVars, dates>>

--------------------------------------------------------------------------------
(* Everything else that happens to the session.                            *)

\* Manual operations, roster transactions and solves never look at the state.
DraftWork ==
    /\ \/ \E expected \in 0..MaxRevision : ManualOperation(expected) /\ UNCHANGED solve
       \/ RosterOperation /\ UNCHANGED solve
       \/ \E k \in Solves : SolveStep(k)
    /\ outdated' = (outdated /\ ~\E k \in Solves : Applied(k))
    /\ UNCHANGED <<state, stale, ranked, dates, now, request, editing>>

Tick ==
    /\ now < MaxTime
    /\ now' = now + 1
    /\ UNCHANGED <<solveVars, state, stale, ranked, dates, request, editing, outdated>>

SessionInit ==
    /\ SolveInit
    /\ state = "planning"
    /\ stale = FALSE
    /\ ranked = NotConfigured
    /\ dates \in (SUBSET Dates) \ {{}}
    /\ now = 0
    /\ request = [r \in Requests |-> NoRequest]
    /\ editing = [e \in Editors |-> NoEdit]
    /\ outdated = FALSE

TransitionStep ==
    \/ \E t \in Transition : ConfirmedTransition(t)
    \/ \E r \in Requests :
           \/ \E t \in Transition : PreviewForward(r, t)
           \/ ApplyForward(r)
           \/ DropRequest(r)

EditStep ==
    \/ \E d \in SUBSET Dates, config \in Configurations \cup {ranked} : UpdateSession(d, config)
    \/ \E e \in Editors :
           \/ \E edit \in Edits : CheckEdit(e, edit)
           \/ CatalogEdit(e)
           \/ WriteMeetingDate(e)
           \/ DropEdit(e)

SessionNext == TransitionStep \/ EditStep \/ DraftWork \/ Tick

SessionSpec == SessionInit /\ [][SessionNext]_sessionVars

--------------------------------------------------------------------------------
(* Properties.                                                             *)

\* The shape of the session row and of the work in progress on it.
LifecycleTypeOK ==
    /\ state \in States
    /\ stale \in BOOLEAN
    /\ ranked \in Configurations \cup {NotConfigured}
    /\ dates \subseteq Dates
    /\ now \in 0..MaxTime
    /\ request \in [Requests -> Transition]
    /\ editing \in [Editors -> Edits \cup {NoEdit}]
    /\ outdated \in BOOLEAN

\* A draft whose stage was reopened is not published before it is solved
\* again, whatever way the session takes back to Assigning (SPEC 14.5).
PublishedDraftsAreCurrent == state \in {"published", "complete"} => ~outdated

\* Voting is never open without a ballot, not even in a session that skipped
\* voting and was then moved back to VotingClosed.
OpenVotingHasABallot == state = "voting_open" => ranked.depth > 0

Accepting == state = "voting_open" /\ ranked # NotConfigured /\ now < ranked.deadline

\* Once choices have stopped being accepted, by a transition or because the
\* deadline passed, only a transition resumes them, "not a configuration
\* edit" (validateRankedChoiceUpdate); and a ballot in use keeps its depth.
VotingResumesOnlyByTransition ==
    [][/\ ~Accepting /\ Accepting' => state # state'
       /\ Accepting /\ Accepting' => ranked'.depth = ranked.depth]_sessionVars

\* "A backward request without confirmation is a read-only preview"
\* (TransitionSession): no unconfirmed request moves the session backward.
UnconfirmedRequestsMoveForward ==
    [][\A r \in Requests :
          request[r] # NoRequest /\ state # state' /\ request'[r] = NoRequest =>
              ~IsBackward(state, state')]_sessionVars

\* Stale drafts "must be regenerated before publication"
\* (PlanSessionTransition): a draft solved again since is not stale.
RegeneratedDraftsAreNotStale == stale => outdated

\* "The one-or-more meeting-date invariant" (sessions migration).
SessionsKeepAMeetingDate == dates # {}

================================================================================
