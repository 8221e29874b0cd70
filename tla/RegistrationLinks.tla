--------------------------- MODULE RegistrationLinks ---------------------------
(***************************************************************************)
(* The shared registration links of one school year and the onboarding     *)
(* sessions they start (IssueRegistrationEntry, UpdateRegistrationEntry,   *)
(* RevokeRegistrationEntry..., Begin and createOnboardingSession of        *)
(* backend/internal/identity/guardian_onboarding.go).                      *)
(*                                                                         *)
(* Issuing a link and moving its expiry take one advisory lock per year,   *)
(* revoking takes the row's.  Each compares expiries with an instant that  *)
(* was read before the lock: issuing with the server's clock at the call,  *)
(* moving an expiry with the start of its transaction.                     *)
(***************************************************************************)
EXTENDS Naturals, FiniteSets

CONSTANTS
    Links,          \* identifiers of links
    LinkEditors,    \* administrators' transactions in progress at a time
    Visitors,       \* guardians opening the registration page at a time
    Sessions,       \* identifiers of onboarding sessions
    SessionRequests,\* guardianOnboardingSessionRequests
    SessionWindow,  \* guardianOnboardingSessionWindow
    LastInstant,    \* bound on the clock
    NoLink

ASSUME LinksAssumption ==
    /\ SessionRequests \in Nat /\ SessionWindow \in Nat /\ LastInstant \in Nat
    /\ IsFiniteSet(Links) /\ NoLink \notin Links

VARIABLES
    links,      \* link -> its row, or NoLink
    linkEdit,   \* transaction -> what it does and what it has read
    visit,      \* visitor -> the link it looked up, and its two instants
    started,    \* session -> the link and the instant it was created
    accepting,  \* the school year is active
    instant     \* the clock

linkVars == <<links, linkEdit, visit, started, accepting, instant>>

Instants == 0..LastInstant
Expiries == 1..LastInstant + 1

LinkRows ==
    [generation : 1..Cardinality(Links), expires : Expiries, revoked : BOOLEAN,
     revived : BOOLEAN]

NoEdition ==
    [at |-> "none", read |-> 0, link |-> NoLink, expires |-> 1, generation |-> 0,
     replaces |-> {}]
NoVisit == [at |-> "none", link |-> NoLink, read |-> 0, begun |-> 0]
NoStart == [link |-> NoLink, created |-> 0]

Entered == {l \in Links : links[l] # NoLink}

\* guardianRegistrationEntry: neither revoked nor expired.
ActiveAt(l, t) == l \in Entered /\ ~links[l].revoked /\ links[l].expires > t

LinksInit ==
    /\ links = [l \in Links |-> NoLink]
    /\ linkEdit = [a \in LinkEditors |-> NoEdition]
    /\ visit = [v \in Visitors |-> NoVisit]
    /\ started = [s \in Sessions |-> NoStart]
    /\ accepting = TRUE
    /\ instant = 0

-----------------------------------------------------------------------------
(* Administration.                                                         *)

\* The clock is read, the new expiry judged, the year found neither closed nor
\* purged; a year in setup will do, so that accepting says nothing of it.
BeginEdit(a, kind, l) ==
    /\ linkEdit[a] = NoEdition
    /\ \E expires \in Expiries :
         /\ expires > instant
         /\ linkEdit' = [linkEdit EXCEPT ![a] =
              [at |-> kind, read |-> instant, link |-> l, expires |-> expires,
               generation |-> 0, replaces |-> {}]]
    /\ UNCHANGED <<links, visit, started, accepting, instant>>

\* Mutant of YearUnlocked: no advisory lock is taken.
NobodyWaits == TRUE

\* LockGuardianRegistrationEntries, held until the transaction ends.
YearUnlocked == \A a \in LinkEditors : linkEdit[a].at # "inserting"

Generation(l) == IF l \in Entered THEN links[l].generation ELSE 0

\* RevokeActiveGuardianRegistrationEntry is done and the generation chosen.
ReplaceActive(a) ==
    /\ linkEdit[a].at = "issue"
    /\ YearUnlocked
    /\ \E g \in 1..Cardinality(Links) :
         /\ \A l \in Links : Generation(l) < g
         /\ \E l \in Links : Generation(l) + 1 = g
         /\ linkEdit' = [linkEdit EXCEPT
              ![a].at = "inserting", ![a].generation = g,
              ![a].replaces = {l \in Links : ActiveAt(l, linkEdit[a].read)}]
    /\ UNCHANGED <<links, visit, started, accepting, instant>>

\* The transaction that issues commits: the rows it has revoked and its new one.
IssueRegistrationEntry(a) ==
    /\ linkEdit[a].at = "inserting"
    /\ \E new \in Links \ Entered :
         links' = [l \in Links |->
           CASE l = new -> [generation |-> linkEdit[a].generation,
                            expires |-> linkEdit[a].expires,
                            revoked |-> FALSE, revived |-> FALSE]
             [] l \in linkEdit[a].replaces -> [links[l] EXCEPT !.revoked = TRUE]
             [] OTHER -> links[l]]
    /\ linkEdit' = [linkEdit EXCEPT ![a] = NoEdition]
    /\ UNCHANGED <<visit, started, accepting, instant>>

UpdateRegistrationEntry(a) ==
    /\ linkEdit[a].at = "update"
    /\ YearUnlocked
    /\ ActiveAt(linkEdit[a].link, linkEdit[a].read)
    /\ links' = [links EXCEPT
         ![linkEdit[a].link].expires = linkEdit[a].expires,
         ![linkEdit[a].link].revived = @ \/ links[linkEdit[a].link].expires <= instant]
    /\ linkEdit' = [linkEdit EXCEPT ![a] = NoEdition]
    /\ UNCHANGED <<visit, started, accepting, instant>>

EditFails(a) ==
    /\ linkEdit[a] # NoEdition
    /\ linkEdit' = [linkEdit EXCEPT ![a] = NoEdition]
    /\ UNCHANGED <<links, visit, started, accepting, instant>>

\* RevokeRegistrationEntry and ...ByID wait for rows that are being replaced.
RevokeRegistrationEntry(l) ==
    /\ ActiveAt(l, instant)
    /\ \A a \in LinkEditors : l \notin linkEdit[a].replaces
    /\ links' = [links EXCEPT ![l].revoked = TRUE]
    /\ UNCHANGED <<linkEdit, visit, started, accepting, instant>>

-----------------------------------------------------------------------------
(* Visitors.                                                               *)

\* The first transaction of RegistrationLanding and of Begin.  It reads the link
\* alone: the state of its year is left to the tenant's transaction.
LookupRegistrationEntry(v, l) ==
    /\ visit[v] = NoVisit
    /\ ActiveAt(l, instant)
    /\ visit' = [visit EXCEPT ![v] =
         [at |-> "found", link |-> l, read |-> instant, begun |-> 0]]
    /\ UNCHANGED <<links, linkEdit, started, accepting, instant>>

\* The second transaction starts, and finds the year active before any lock.
FindActiveYear(v) ==
    /\ visit[v].at = "found"
    /\ accepting
    /\ visit' = [visit EXCEPT ![v].at = "begun", ![v].begun = instant]
    /\ UNCHANGED <<links, linkEdit, started, accepting, instant>>

\* Mutant of LinkUnlocked: the link's row is not locked before counting.
NoRowIsLocked(l) == TRUE

\* LockGuardianRegistrationEntry: held by a visitor who counted, or an editor.
LinkUnlocked(l) ==
    /\ \A v \in Visitors : ~(visit[v].at = "counted" /\ visit[v].link = l)
    /\ \A a \in LinkEditors : l \notin linkEdit[a].replaces

StartedSince(l, t) == {s \in Sessions : started[s].link = l /\ started[s].created >= t}

Earlier(t) == IF t > SessionWindow THEN t - SessionWindow ELSE 0

\* The window counted ends where the lookup began, not the transaction.
CountRecentSessions(v) ==
    /\ visit[v].at = "begun"
    /\ LinkUnlocked(visit[v].link)
    /\ Cardinality(StartedSince(visit[v].link, Earlier(visit[v].read))) < SessionRequests
    /\ visit' = [visit EXCEPT ![v].at = "counted"]
    /\ UNCHANGED <<links, linkEdit, started, accepting, instant>>

\* created_at is the start of the transaction.
CreateOnboardingSession(v) ==
    /\ visit[v].at = "counted"
    /\ \E s \in Sessions :
         /\ started[s] = NoStart
         /\ started' = [started EXCEPT ![s] =
              [link |-> visit[v].link, created |-> visit[v].begun]]
    /\ visit' = [visit EXCEPT ![v] = NoVisit]
    /\ UNCHANGED <<links, linkEdit, accepting, instant>>

\* The limit is reached, the year not active, or the transaction fails.
VisitFails(v) ==
    /\ visit[v] # NoVisit
    /\ visit' = [visit EXCEPT ![v] = NoVisit]
    /\ UNCHANGED <<links, linkEdit, started, accepting, instant>>

YearChanges ==
    /\ accepting' = ~accepting
    /\ UNCHANGED <<links, linkEdit, visit, started, instant>>

LinkTick ==
    /\ instant < LastInstant
    /\ instant' = instant + 1
    /\ UNCHANGED <<links, linkEdit, visit, started, accepting>>

LinksNext ==
    \/ \E a \in LinkEditors :
         \/ BeginEdit(a, "issue", NoLink)
         \/ \E l \in Entered : BeginEdit(a, "update", l)
         \/ ReplaceActive(a) \/ IssueRegistrationEntry(a)
         \/ UpdateRegistrationEntry(a) \/ EditFails(a)
    \/ \E l \in Links : RevokeRegistrationEntry(l)
    \/ \E v \in Visitors :
         \/ \E l \in Links : LookupRegistrationEntry(v, l)
         \/ FindActiveYear(v) \/ CountRecentSessions(v)
         \/ CreateOnboardingSession(v) \/ VisitFails(v)
    \/ YearChanges
    \/ LinkTick

LinksSpec == LinksInit /\ [][LinksNext]_linkVars

-----------------------------------------------------------------------------
(* Properties.                                                             *)

\* Links, edits, visits and sessions are of their shape, and administrators who
\* issue at the same time issue different generations.
LinksTypeOK ==
    /\ links \in [Links -> LinkRows \cup {NoLink}]
    /\ \A k, l \in Entered : k # l => links[k].generation # links[l].generation
    /\ linkEdit \in [LinkEditors ->
         [at : {"none", "issue", "inserting", "update"}, read : Instants,
          link : Links \cup {NoLink}, expires : Expiries, generation : 0..Cardinality(Links),
          replaces : SUBSET Links]]
    /\ visit \in [Visitors ->
         [at : {"none", "found", "begun", "counted"}, link : Links \cup {NoLink},
          read : Instants, begun : Instants]]
    /\ started \in [Sessions -> [link : Links \cup {NoLink}, created : Instants]]
    /\ accepting \in BOOLEAN
    /\ instant \in Instants

\* "There MUST be at most one active link for a school year" (SPEC 11.3): of
\* two, one was expired and came back to life under an expiry edit that had
\* started before; two issues, or an issue and an edit, never leave two.
OneLinkIsActive ==
    \A k, l \in Links :
        k # l /\ ActiveAt(k, instant) /\ ActiveAt(l, instant) =>
            links[k].revived \/ links[l].revived

\* No window of time holds more sessions of one link than the limit, however
\* many visitors arrive together.
SessionsPerLinkAreLimited ==
    \A l \in Links, t \in Instants :
        Cardinality({s \in StartedSince(l, Earlier(t)) : started[s].created <= t})
            <= SessionRequests
================================================================================
