# A TLA+ model of miniclass

miniclass plans a school's Friday mini-classes. Organizers keep a roster and a
catalog of offerings, collect interests and ranked choices, let a solver place
the students, correct the placements by hand and publish class lists. This
directory holds TLA+ modules for the parts of it where order and overlap matter,
TLC configurations that check them on small instances, and TLAPS proofs of what
holds for instances of any size. `SPEC.md` is quoted by section, source files
by path and line; the definitions follow the source.

- [The system](#the-system)
- [Modules](#modules)
- [Runs](#runs)
- [Findings](#findings) and [Observations](#observations)
- [Proofs](#proofs)
- [What is not modelled](#what-is-not-modelled)
- [Plan](#plan)

Run a check (TLC, with the module and configuration of the table under Runs) with `tlc -config MCSolveRuns.cfg MCSolveRuns.tla`, a
proof with `tlapm AssignmentDraft_proofs.tla`. `PROJECT.json` lists the runs, the
mutation behind each property, the source lines of each definition and the
hazards the properties are aimed at.

## The system

A Go API (`backend/`) holds all logic and all access to PostgreSQL 18. A service
method is one closure passed to `data.DB.InTenant`, one transaction at READ
COMMITTED: each *statement* sees what was committed when it began, and a
transaction that reads a row without locking it may find it changed when it
writes. What protects an invariant is one of a row lock, a comparison in an
UPDATE, a constraint, a foreign key, a trigger, or nothing. A stateless Python
process (`solver/`, OR-Tools CP-SAT) computes assignments over HTTP. A React
application (`frontend/`) shows them and sends edits. Several organizers,
guardians and students work at once; nothing is scheduled in the background, and
surveys and votes end by comparing a timestamp when somebody looks.

| Component | State | Operations | Hard behaviour | Correct when |
|---|---|---|---|---|
| **Assignment draft** `program/assignment_operations.go`, `assignment_exclusions.go` | `sessions.draft_revision`, `assignments` with pins, `assignment_overrides`, `assignment_exclusions` | move, swap, remove, remove unpinned, pin, unpin, add and remove an exclusion | optimistic revision; override rows hang on assignments rows that every edit rewrites; roster and catalog change underneath | overrides are exactly the accepted violations of pinned placements |
| **Non-participation** `program/non_participation.go`, triggers of `20261006100000` | `session_non_participations` | declare, withdraw, edit the reason | two triggers that each look for the other's uncommitted row | a non-participant holds no placement |
| **Offering catalog** `program/offering.go` | `offerings` | create, update, delete | changes the rules placements are judged by without touching the draft | placements and exclusions name listed offerings |
| **Assignment board** `AssignmentBoardPage.tsx`, `assignment_workspace.go` | the page's copy of the draft, a pending warning | load, edit, warn, confirm, dismiss | a load of many statements; confirmations of what was shown earlier | what is shown under the current revision is the draft; no exclusion is accepted unseen |
| **Solve service** `solver/service.go`, `solver/snapshot.go` | `solve_runs`, the snapshot in memory | compile, call, validate, record and apply | reads torn by edits; a call that may take minutes outside of any transaction; overlapping runs | a run behaves as if it were atomic or leaves the draft alone |
| **Solver sidecar** `solver/app/server.py`, `contract.py` | none | diagnose, search level by level, explain | judges a request made of rows another program wrote; five searches in a row, each of which may stop at a limit | hard rules hold except where excepted; an optimum is lexicographic; infeasibility is explained |
| **Session lifecycle** `program/session_lifecycle.go`, `session.go` | state, `draft_assignments_stale`, ranked-choice configuration, `meeting_dates` | preview and confirm transitions, configure, edit dates | unconfirmed requests span two transactions; edits check the state unlocked; deadlines pass by themselves | no vote without a ballot, nothing outdated is published, dates remain |
| **Surveys** `preference/survey.go` | survey row and questions, audience snapshot, submissions | edit, open, close, reopen, delete, submit; joining a program extends open audiences | everything reads the survey unlocked and writes later | answers keep their provenance, opened surveys close, definitions lock |
| **Effective profile** `preference/service.go` | none (derived) | overlay submissions | partial later submissions | omission never clears a rating |
| **Programs and memberships** `program/service.go` | `program_memberships`, automatic-assignment rules, interest areas | join, leave, edit | joining touches surveys, leaving leaves placements | audiences include late members |
| **Ranked-choice voting** `preference/service.go` | `ranked_choice_submissions`, `ranked_choice_responses` | submit | the catalog, the roster and the grade windows change under a submission; only some of that waits for the session row | a ballot fits the session, and what a solve reads fits its catalog |
| **Administrators** `identity/administrators.go`, `data/identity/identity.go` | members and roles, invitation tokens | invite, resend, revoke, change role, remove, claim, regenerate | counts and reads without locks | an organization keeps an owner; claims need a live link |
| **Adult sign-in** `identity/adult_auth.go` | one-time codes with attempts, sessions, second factor with recovery codes | request, verify, select, revoke, enrol, reset | counts and consumption in separate statements; sessions created in later transactions | a code signs in once, limits hold within a known slack, sessions prove the secret in force |
| **Registration links** `identity/guardian_onboarding.go` | links of a school year, the sessions they started | issue, move the expiry, revoke, visit | two kinds of locks and instants read before them | one link is active; a link starts no more sessions than its limit |
| **Guardian onboarding** `identity/guardian_onboarding.go` | invitation contacts and links, onboarding sessions, codes, consents, adults | invite, redeem, verify, consent, complete, exchange | retries, three ways to the end, two sessions of one mailbox | one adult per mailbox, nobody without proof and consent |
| **Guardian records** `guardianrecords/service.go`, `people/` | adults, students, relationships, memberships, placements | select, create, detach, leave, delete, restore, reconcile | counts of others and of data, written on later | the last guardian settles the student, what is kept is kept |
| **School years** `schoolyear/service.go`, `purge_school_year` | year state, all records under it | create, activate, close, reopen, delete, purge | decisions on states read without a lock, writers in progress | the lifecycle is followed; purged years are empty |
| **Roster import** `ingest/` | the previewed document | preview, commit | the roster changes between both | what is committed was previewed |
| **Onboarding rate limiter** `api/onboarding_rate_limit.go` | buckets per client | allow, evict | bounded table under many clients | refill and eviction do not undo a limit |

`PROJECT.json` lists the remaining components (read-only projections, people
edits, middleware, HTTP, configuration, seed, other pages, tests) with the reason
they are left out.

Interactions: the board edits the draft through manual operations; the solve
service reads draft, roster, catalog and ballots, calls the sidecar and replaces the
draft; submissions of ballots wait for, or keep waiting, whoever needs the session
row; the lifecycle gates publication on a flag about the draft and nothing
else about it; joining a program extends the audiences of surveys; leaving it
leaves placements behind. Administrators issue the links and invitations that
guardians come in by; onboarding ends in a guardian session, sign-in in another;
guardians who leave settle what becomes of their students; the state of the
school year gates writes everywhere, by a trigger.

## Modules

```
AssignmentDraft ──┬── AssignmentBoard
                  ├── SolveRuns ──── SessionLifecycle ──── RankedVoting
                  │     │   └ implements AtomicSolve
SolverSidecar ────┴─────┘
      └── SolverSearch ──── SolverDiagnostics

Surveys   Administrators   AdultSignIn   AdminSessions
RegistrationLinks   GuardianOnboarding   GuardianRecords   SchoolYears

AssignmentDraft_proofs ──┬── AssignmentBoard_proofs
                         └── SolveRuns_proofs ──── RankedVoting_proofs (and SessionLifecycle)
AdminSessions_proofs (and AdultSignIn, Administrators)
GuardianOnboarding_proofs (and RegistrationLinks, GuardianRecords)
SchoolYears_proofs (and Surveys)      SolverSearch_proofs
```

The modules of the second group meet in the database, but in none of the state a
property is about; each stands alone and an MC module runs several of them, one
at a time.

**AssignmentDraft** is one session's draft: placements, pins, override rows
*counted* per rule (nothing in the table forbids two of a rule), exclusions, the
revision, the roster and the catalog. A manual operation is one action. That is
sound because its first write locks the session row: `AdvanceDraftRevision` is
`UPDATE ... WHERE draft_revision = expected`, and `removeAssignments` selects the
row for update. What an operation read before that is re-validated by the
comparison. `Carried` is `ReplaceDraftAssignments` (`data/assignment.go`): a row
survives a rewrite only when its student stays in the same offering, and its
override rows with it. Roster and catalog transactions take no such lock.
Declaring a non-participation is split at the point where its trigger has looked
and its row is uncommitted, the one overlap that shows. A refused request changes
nothing, so a refusal is the absence of a step.

**AssignmentBoard** adds boards. A board's load is four statements with any
committed change in between: session, assignments, exclusions, overrides. Each
edit carries the revision that was loaded. `ReceiveWarning` is the 409 answer
naming the broken rules of the final state, `ConfirmOverride` the same request
again with the confirmation.

**SolverSidecar** has no state: `Diagnosed` is `_constraint_diagnostics`,
`Eligible`, `Seats` and `Feasible` are the hard constraints of the CP-SAT model,
and `Answers` is every answer these admit. The objective only chooses among
them, so the properties of solves hold for whichever it prefers.

**SolverSearch** is how the sidecar chooses. `Minimize` is one call of the
search, for one quality, worst first, and `Fix` the equality that is added to the
model afterwards; `Retain` is the last level, stability; `StopAtLimit` is a call
that reaches its deterministic limit, with an assignment or without. The
constraints accumulated so far are kept as the set of assignments they admit.
`Explain` answers with the constant operator `Explanation`: the search depends on
nothing in it.

**SolverDiagnostics** is the value the configurations give to `Explanation`,
`_infeasibility_diagnostics` with its augmenting-path matching (`Assign`, `Matched`,
slot by slot in the order of the code) and the alternating reachability behind each
reported shortage. Its operators are recursive like the code's, so nothing is proved
about them and no module with a theorem reaches them.

**SolveRuns** composes both. A solve walks through `ReadSession`, ...,
`ReadExclusions` (`CompileSnapshot`, one statement each), `Answer`, and
`RecordRun`, the transaction that locks the session row, compares the revision
and replaces the draft. `Fail` ends it anywhere: database error, refused
connection, timeout, nonsense from the sidecar, a process that stops. The request
is only held in memory, so a crash loses it and nothing else.

**AtomicSolve** is what people editing rely on: a run reads the whole draft in one
instant, and either replaces that very draft, keeping pins with their overrides,
or leaves it alone. `SolveRuns` implements it with `basis` mapped to `none` while
the snapshot is being read and, afterwards, to whether its revision is still the
session's.

**SessionLifecycle** adds the state machine to `SolveRuns`. A confirmed
transition is one action; an unconfirmed one is `PreviewForward` and
`ApplyForward`, two transactions. Catalog and meeting-date edits are `CheckEdit`
and a write. The history variable `outdated` says that the draft's stage was
reopened after the draft was last solved; it constrains nothing and is compared
with the `stale` flag the code keeps.

**RankedVoting** adds the ballots of a session. `LockSession` is
`GetSessionForUpdate`, with the checks of state and deadline behind it; the answers
are judged by the roster and the catalog of a later statement and inserted by one
later still. `NeedsTheSessionRow` names who waits meanwhile: transitions,
configuration, and, through the foreign key of their rows, new offerings and
declarations. Others go on, and `BallotsRestrict` is what the foreign keys of
submissions and responses then forbid them. Answers without a rank are one value,
0. A solve reads the answers (`choices`) before the catalog.

**Surveys** is one survey of one program. Every organizer's transaction is a read
and a write with the work held in `pending` in between; opening has a third
statement, the audience query. Only what the tables check is checked at the
write: the window constraints, uniqueness in the snapshot, foreign keys.
`answers` is in the order in which transactions *began*, because
`submitted_at` defaults to the transaction's start, and each goes through
`begun`, `checked` and `recorded`. Two updates of the survey row serialise on it;
the model lets the second write over the first, as an UPDATE without a
condition does.

**Administrators** is one organization's members and invitation tokens. A request
is authorized, opens its transaction, reads, and writes with the conditions its
statements carry; `Read...` and the action named for the service method are these
two. The history variable `overlapped` says whether two requests were ever under
way at once. Claiming reads the token in one transaction and consumes it in
another. The operator's regeneration takes no part in authorization.

**AdultSignIn** is one mailbox. Requests count the codes of the window and then
insert one; attempts look a code up, consume it with a condition or count a miss,
and the sessions it buys are created afterwards, per context. Time is the age of
each code; one that is older than validity and window is forgotten, which changes
no count the code makes.

**AdminSessions** is the second factor of one administrator: a secret named by its
generation, its recovery codes, verifications that read secret and generation,
prove one and then create a session, and resets by an owner. `ResolveSession`
lets a session in when its generation is the user's.

**RegistrationLinks** is the links of one year and the sessions they start.
Issuing and editing take one advisory lock per year, visiting and revoking the
row's, and each compares with an instant it read before it had the lock
(`YearUnlocked`, `LinkUnlocked`, `ActiveAt`). A visit is two transactions: the first
finds the link and says nothing of its year (`LookupRegistrationEntry`), the second
finds the year active (`FindActiveYear`), locks the link and counts. The count reaches
back from the first instant, and the session is dated with the start of the second.

**GuardianOnboarding** follows mailboxes from invitation to roster. A client's
request is a chain of transactions and `work` what it carries from one to the
next. The three exchanges of an onboarding session for a guardian session
(verification and consent of a guardian already known, and completion) are actions
of their own. `LockGuardianOnboardingEmail` is the advisory lock of completion.
The contact import that issues invitations, their revocation and expiry, and the
office's edits run in between.

**SchoolYears** is one year and the kinds of records under it. A lifecycle request
reads the year and writes by key, and `TriggerAllows` is what
`prevent_closed_school_year_mutation` lets through. Writers pass the trigger at
their statement and commit later; the purge locks the row (`LockYear`) and deletes
kind by kind, foreign keys permitting.

**GuardianRecords** is guardians, students and their relationships. `Detach` and
`DeleteSelf` count the other guardians and then the student's data, and write. The
office places, enrols, restores, deletes and reconciles in between. `contested`
remembers who was written while somebody counted; `leftBehind` and `destroyed`
what the departures did.

## Runs

All bounds are CONSTANTS. `MaxRevision` bounds the edits of a behaviour,
`MaxTime` the clock, `MaxAnswers` the submissions. Model values stand for
identities. Times are those of a run with a few workers.

| Run | Asks | Bounds, and why they are enough |
|---|---|---|
| `organization` `MCOrganization` | What may an organization's office and its guardians do to each other? | One behaviour follows one part, its `focus`. *draft*: a board against any number of other editors, two students of different grades, two offerings of capacity 1, windows {1,2} and {2}, revisions up to 3: place, exclude and withdraw, with a torn load in between. *administrators*: two owners and one more account, four member rows, two tokens, at most two people acting (`TwoBusy`): every race here is between two. *year*: two requests, two writers, three kinds of records of which one needs another. *links*: two links, two administrators, three instants, nobody visiting (`LinksAlone`); *visits*: one link, one administrator, two visitors, one session allowed per window (`LinksVisited`). *onboarding*: two sessions and clients of one mailbox (`OneMailbox`); *mailboxes*: one of each and two mailboxes, so that a session can prove another (`OneSession`). *student*: two guardians leave one student (`OneStudent`); *students*: one leaves two (`OneDeparture`). Symmetric in the pairs a, b, c. 0.9 million states, two to three minutes. |
| `solve` `MCSolveRuns` | Does a solve behave atomically, and is the sidecar's answer what it claims? | *single*: one solve against every edit, two students, two offerings of capacity 1, two revisions; the only window is {2}, so that the student of grade 1 can be placed only with an override and the snapshot's handling of exceptions is exercised. *pair*: two solves and one student: both read, one applies, the other must notice. *search*: one request with three students and two classes and every mix of ballots and profiles (`ReceivedPreferences`), or three classes with 0 to 2 seats, any exclusions, one class of another grade and a pin or not, with its exceptions or without (`ReceivedConstraints`): enough for an augmenting path that moves two students and a shortage of each size. 1.5 million states, two minutes. |
| `lifecycle` `MCRankedVoting` | Are ballots, deadlines and staleness consistent along every path through the state machine? | One unconfirmed request, one edit in progress, one clock tick (a deadline is ahead, then reached). *lifecycle*: nobody votes, one solve of an empty roster, which still regenerates the draft (`LifecycleAlone`). *dates*: two meeting dates (`DatesAlone`). *voting*: two ballots of one student, two offerings with windows {1} and {2}, depths 1 and 2 (`VotingAlone`): a ballot before and one after a change. *reading*: one ballot and a solve that reads it (`ReadingAlone`). Symmetric in offerings and dates. 0.6 million states. |
| `accounts` `MCAccounts` | Do codes, second factors and surveys hold under overlapping requests? | *requests*: three codes, two requests, limit 1, window and validity of two ticks: the limit, the slack of one and the code that lapses. *attempts*: one code, two attempts, two misses allowed, two contexts. *second factor*: two enrolments, verifications and sessions, three generations, two recovery codes. *survey*: two organizers' transactions, one student, two areas, two submissions, two instants; students meet only in the audience set. 2.0 million states, two to three minutes. No symmetry, for it checks liveness. |

Deadlock is checked in `solve`. It is not in the others: a completed session, a
purged year or an office whose identifiers are used up may rest.

The properties, each with a mutation in `PROJECT.json` that breaks it:

- `OverridesSitOnPins`, `ExclusionOverridesStand`, `DraftNamesListedOfferings`,
  `NewPlacementsAreAccountedFor` (draft): an override is permission for one pinned
  placement, never outlives what it permits, is never missing and never inherited.
- `CurrentRevisionShowsTheDraft`, `ConfirmedExclusionsWereShown` (board): the
  first depends on the order of the statements in the load and on every edit
  counting; the second on exclusions counting as edits.
- `SolvesAreAtomic` (the refinement of `AtomicSolve`), `AppliedRunsHonourExclusions`
  (solves); `OptimaAreLexicographic`, judged against all assignments the hard rules
  admit, and `InfeasibilityIsExplained`, judged by a definition of seating that
  knows no matching (sidecar).
- `PublishedDraftsAreCurrent`, `OpenVotingHasABallot`,
  `VotingResumesOnlyByTransition` (lifecycle); `BallotsFitTheSession`,
  `BallotsStayWithinTheDepth`, `ChoicesNameListedOfferings` (voting).
- `OpenedSurveysClose`, `AnswersHaveProvenance`, `RatingsAreKept` (surveys).
- `SerialAdministrationKeepsAnOwner`, `ClaimsNeedALiveLink` (administrators): the
  code keeps an owner as long as requests do not overlap; that they may is a
  finding.
- `RequestLimitSlack`, `GuessesStayBounded`, `CodesSignInOnce`, `RefusalsLapse`
  (codes): limits that are a count and a later write can be passed by those who
  overlap, by that many and no more.
- `SessionsProveTheSecretInForce`, `CodesBelongToTheSecretInForce`,
  `RecoveryCodesAreAcceptedOnce` (second factor).
- `OneLinkIsActive`, `SessionsPerLinkAreLimited` (links), `TokensAreSpentOnce`,
  `OneAdultIsEntered`, `RosterFollowsConsent` (onboarding).
- `YearsFollowTheLifecycle`, `PurgedYearsHoldNothing` (years);
  `LastGuardianSettlesTheStudent`, `MembershipsAreRetained` (records).
- type invariants: `OfficeTypeOK`, `VotingTypeOK` and `AccountsTypeOK`, the
  conjunctions of those of the modules a run composes.

Fairness and liveness: time passes, so `MCFairness` is weak fairness of
`SignInTick`, the clock of the sign-in module, while a behaviour follows it, and
of nothing else. It suffices for `RefusalsLapse`: a mailbox that was refused a code
is served again, though nobody asks. Every other step is a person's request, or
follows one in the same HTTP call; the code schedules nothing, retries nothing and
may fail at every step, so no other fairness is assumed.

## Findings

Eight runs check a statement of the repository that the code does not keep; TLC
finds the violation.

| Run | Statement | What happens |
|---|---|---|
| `absent_but_placed` `NonParticipantsHoldNoPlacement` | "a non-participant cannot gain a placement, and an assigned student cannot subsequently become a non-participant" (migration `20261006100000`, line 82) | Declaring a non-participation inserts its row after its trigger found no placement; a move places the student, whose trigger does not see the uncommitted row; both commit. |
| `stale_catalog_solve` `AppliedRunsObeyHardRules` | hard rules are "Binding on the solver" (SPEC.md:2209) | The catalog is changed while the solver works. Offering edits do not advance the revision, so the run applies and breaks the new capacity or window, without an override. |
| `unconfirmed_backward` `UnconfirmedRequestsMoveForward` | "A backward request without confirmation is a read-only preview" (`session_lifecycle.go:158`) | A request for VotingClosed is previewed in VotingOpen, where it is forward. The session moves on to Assigning. The second transaction plans again, finds the backward edge, and applies it. |
| `stale_forever` `RegeneratedDraftsAreNotStale` | "stale draft assignments must be regenerated before the session can be published" (`session_lifecycle.go:116`) | Nothing clears `draft_assignments_stale`: after one reopening from Assigning or Published the session cannot be published again, whatever is regenerated. |
| `survey_definition` `DefinitionsLockWhenOpened` | "interest profile survey definition is locked after opening" (`survey.go:25`) | An edit reads a draft, the opening commits, the edit's UPDATE names no state and replaces filter, window and questions of the open survey. |
| `last_date_deleted` `SessionsKeepAMeetingDate` | the deferred check keeps "the one-or-more meeting-date invariant true for direct database writers" (migration `20260831130000`, line 53) | Two deletions each count two dates and each deferred trigger sees the other's date still there. |
| `last_owner` `NeverWithoutOwner` | "the last owner cannot be removed or demoted" (`administrators.go:23`) | Two owners each demote or remove the other. `hasAnotherOwner` is a count without a lock (line 262), so each still sees the other; both commit. |
| `purge_with_placements` `AuthorizedPurgesSucceed` | "Purging a year MUST remove all year-scoped personal and operational data" (SPEC.md:3085), assignments among it | `purge_school_year` deletes offerings before the assignments that reference them, and that foreign key restricts (migration `20261004083514`, line 88): a closed year that holds a placement cannot be purged. |

## Observations

Things met while modelling that have no run of their own.

- **Capacity overrides, twice and uncounted.** Go judges capacity over all
  occupants of a class (`assignment_operations.go`), the sidecar over pins alone
  (`server.py:237-257`) and wants exactly one exception row per pin beyond
  capacity. A pinned student confirmed into a class that is full of unpinned ones
  has a row the sidecar calls unnecessary, and a placement confirmed into the
  same offering again has two rows of a rule, which it calls a duplicate. Either makes
  every later solve infeasible until someone unpins. SPEC.md:2563 has a pin keep
  "only that named exception". `SolverSidecar!OverflowIsMisjudged` and
  `ExceptionIsDuplicated` are these checks.
- **Confirmed rules are recomputed.** `assignment_operations.go:204` accepts
  whatever the final state breaks now. Exclusions cannot appear unseen
  (`ConfirmedExclusionsWereShown`); an offering edit, which does not advance the
  revision, can make a capacity or window violation that the warning did not name
  part of the confirmation. It is recorded as an override.
- **Complete sessions.** SPEC.md:2051 calls them read-only. Manual operations and
  solves do not look at the state (`assignment_operations.go:171`), and
  meeting-date edits check it unlocked (`session.go:333`; the error is
  `session_lifecycle.go:21`), so both change a complete session.
- **Publishing with unplaced students.** SPEC.md:2198, 2646, 2677 and 2695 forbid
  it and PLAN.md:830 plans it; `session_lifecycle.go` does not look at placements
  at all. It is a missing gate rather than a step of the model gone wrong.
- **Shortages without a class.** The classes a shortage names are those with a
  seat left (`server.py:370`), so students whose classes are all full of pins are
  reported short of seats in no class at all; SPEC.md:2584 wants the constraints
  responsible identified.
- **A limit reached late** answers `unknown` when the search that hits it finds
  nothing itself, and drops the assignment of the level before it; SPEC.md:2361
  speaks of "a time limit that returns the best solution found so far".
- **Runs that cannot be rerun.** The placements before a solve are part of its request
  (`snapshot.go:173`) and of its fingerprint, and applying the run replaces them: a
  rerun of an applied run is refused (`solver/service.go:229`) unless the run changed no
  placement. The first solve of a session, made from an empty draft, is never
  reproduced by `RerunAuthoritative`.
- **Quality of manual placements** is computed from ballots only
  (`assignment_operations.go:253`): a student with an interest profile alone is
  recorded as neutral by a move where the sidecar records the rating.
- **Order of ballots.** `submitted_at` is the start of a transaction: a ballot that
  waited for the session row can commit after one that began later, and never
  count (SPEC.md:1942). The deadline is checked when the row is locked and may pass
  before the commit.
- **Named in a ballot.** An offering that a ballot names cannot be deleted, and a
  member who has a ballot or a survey answer cannot leave the program: the
  foreign keys restrict.
- **Administrators.** A pending owner counts as another owner. Two Resends at once
  leave the token of one alive and attached to nothing.
- **Sign-in.** `SelectGuardianContext` ignores a revocation and may be repeated
  until the code expires. `RevokeGuardianSessionsAndOTPs` is called by `DeleteSelf`
  alone, in a second transaction; if that one fails and the adult is restored, old
  sessions work again. `TouchSession` does not ask whether the session was idle too
  long. A code is spent before the session it buys is created, in a transaction of
  its own: when that one fails the code, or the recovery code, bought nothing.
- **Links.** An expiry edit whose transaction began before the old expiry revives a
  link that has expired meanwhile, beside a new one (SPEC.md:1322 wants at most
  one); `OneLinkIsActive` excepts exactly these. The default validity is 7 days in the
  code and 30 in SPEC.md:1325.
- **Onboarding.** Two contact imports at once leave a token attached to no contact.
  `VerifyOTP` goes on when the consumption of the invitation fails. An
  invitation can be accepted by consent for another address that the session has
  proved. Clearing the signup notice resets its version.
- **Years.** A write that passed the trigger while the year was active may
  commit after the closing (SPEC.md:1256); access tokens have no such trigger.
  Closing a year and editing its label in one update is always refused. Two
  identical transitions at once are audited twice.
- **Leaving guardians.** Two who leave at the same time each see the other, and the
  student stays active without one. Placements do not count as data to keep
  (SPEC.md:1504). `RestoreStudent` can restore a student that was de-identified.
- **Placeholder students.** Reconciling moves memberships and declarations but not
  assignments (SPEC.md:1553), and a conflict is recognised by an error text that the
  data layer does not produce (`student_corrections.go:244`).
- **Late members.** A member whose join overlaps an opening sees a draft, and the
  opening's audience query does not see the member; one who joins after the
  opening and before a later `opens_at` is skipped too (`survey.go:460`).
  SPEC.md:1852 and 1911-1913 have every late member added.
- **Joining again.** An invited member who left and joins again during the survey
  is inserted into the snapshot a second time; uniqueness fails the whole join
  (`survey.go:477`). In the model `AddMembership` is not enabled then.
- **Leaving withdraws access.** `ensureSurveyStudent` (`forms.go:394`) requires a
  current membership, SPEC.md:790 says leaving must not withdraw access to a form
  whose audience the student is in. `CheckAnswer` follows the code.

## Proofs

`AssignmentDraft_proofs` proves, from `DraftAssumption` alone (finitely many
students, natural-number grades and capacities, no offering called `Unplaced`;
any number of everything, any bound on the revision):

| Theorem | Statement |
|---|---|
| `TypeCorrect` | `Spec => []TypeOK` |
| `DraftConsistent` | `Spec => []Consistent`, the inductive invariant |
| `OverridesStayOnPins` | `Spec => []OverridesSitOnPins` |
| `ExclusionOverridesStandAlways` | `Spec => []ExclusionOverridesStand` |
| `DraftStaysInCatalog` | `Spec => []DraftNamesListedOfferings` |
| `NewPlacementsAccounted` | `Spec => NewPlacementsAreAccountedFor` |
| `OverridesAreCounted` | `Spec => []OverridesWithinRevision` |
| `OnlyOpenDeclarationsAreOvertaken` | `Spec /\ PlacementsWaitForDeclarations => []NonParticipantsHoldNoPlacement` |

`Consistent` is the conjunction of the type invariant and the three safety
invariants, because they hold each other up. Deleting an offering cascades to
its exclusions, and `ExclusionOverridesStand` survives that only because nobody
with an override is placed there (`DraftNamesListedOfferings` with the restricting
foreign key). A removal keeps overrides of rows it does not touch, which is
harmless only because an unplaced student has none (`OverridesSitOnPins`).
There is one lemma per group of operations; `ChangeAssignmentsConsistent` carries
the weight, since a move or swap rewrites placements, pins and overrides at once.
`OverridesWithinRevision` bounds what no constraint of the table bounds: a placement has
at most as many override rows of a rule as the draft has had edits.

`AssignmentBoard_proofs` and `SolveRuns_proofs` build on it, with the same assumption
(any number of boards and solves, editing and solving at once):

| Theorem | Statement |
|---|---|
| `BoardsAreSound` | `BoardSpec => []BoardInv`, the inductive invariant |
| `CurrentBoardsShowTheDraft` | `BoardSpec => []CurrentRevisionShowsTheDraft` |
| `ConfirmationsWereShown` | `BoardSpec => ConfirmedExclusionsWereShown` |
| `BoardsImplementTheDraft` | `BoardSpec => Spec` |
| `BoardPlacementsAccounted` | `BoardSpec => NewPlacementsAreAccountedFor` |
| `BoardsTypeCorrect` | `BoardSpec => []BoardTypeOK`, with the bound of `OverridesAreCounted` |
| `SolvesAreSound` | `SolveSpec => []SolveInv`, the inductive invariant |
| `SolvesKeepTheDraftConsistent` | `SolveSpec => []Consistent` |
| `RunsHonourExclusions` | `SolveSpec => AppliedRunsHonourExclusions` |
| `SolvesImplementAtomicSolve` | `SolveSpec => SolvesAreAtomic` |
| `RunsObeyHardRules` | `SolveSpec => RunsObeyTheCatalogTheyRead` |
| `RunsOvertakeOnlyOpenDeclarations` | `SolveSpec /\ PlacementsWaitForDeclarations => []NonParticipantsHoldNoPlacement` |

Both invariants say the same of a reader that takes several statements: *as long as
the revision it read first is still the session's, what each later statement
returned is the draft's* (`LoadIsCurrent`, `SnapshotIsCurrent`). They are kept for
two reasons, each a lemma: an operation that edits the draft takes a new number, so
the reader's is not current any more (`ManualOperationsAreNumbered`), and a
transaction that takes none leaves the draft alone (`OtherTransactionsKeepTheDraft`).
A board must in addition remember that a warning named every rule its own edit
breaks in that draft (`WarningIsComplete`). What a board saves is then a manual
operation of the draft, so that `BoardSpec` implements `Spec` and inherits its
theorems. A run's answer is feasible for the request it was compiled from
(`AnswerIsFeasible`), so an applied run keeps the pins and respects the exclusions
of the draft it is applied to. The refinement maps a run to `none`, `current` or
`stale` by whether it has read the draft and whether the revision is still its own:
reading is `Read`, applying is `Apply`, every failure `Discard`, every numbered edit
makes all of them `stale`. Each kind of step is a lemma (`SnapshotIsRead`,
`ReadingIsUnseen`, `RunIsApplied`, `EndIsDiscarded`, `EditIsEdit`).

`RunsObeyHardRules` is what remains of "binding on the solver" once the catalog edits of
the `stale_catalog_solve` run are granted: a student the run was free to place breaks no
capacity, window or exclusion in an offering that is still as the run read it. It
rests on the roster (a request's grades are the students' own, `HoldsRoster` and
`RosterIsGraded`), on `AnswerIsFeasible`, and on a count: pins beyond the capacity raise
the limit by themselves alone, so that an offering with more occupants than places holds
nothing but pins (`OthersSitWithinCapacity`, `FeasiblePlacementsObey`).

`SolverSearch_proofs` takes the set of requests as a parameter and assumes of each
that it has finitely many participants; `Explanation` may be anything:

| Theorem | Statement |
|---|---|
| `SearchInvariant` | `SearchSpec(requests) => []SearchInv`, the inductive invariant |
| `OptimaAreBest` | `SearchSpec(requests) => []OptimaAreLexicographic` |
| `SearchImplementsAnswers` | `SearchSpec(requests) => []ResponsesAreAnswers` |

`SearchInv` says of the assignments the constraints still admit before a level that
each is, against every other assignment the hard rules admit, its equal at all levels
before and then the other is admitted too, or the winner at one of them (`Unbeaten`).
That is more than being minimal so far: an assignment that ties must not have been
lost. `ResponsesAreAnswers` joins the two models of the sidecar: what the search
answers is in `Answers` of `SolverSidecar`, from which `SolveRuns` takes the answers
of its runs.

`SchoolYears_proofs` proves `Surveys`, from `SurveyAssumption` (question sets are sets of areas,
audiences sets of students; any number of areas, students, submissions and
overlapping transactions):

| Theorem | Statement |
|---|---|
| `SurveyTypeCorrect` | `SurveySpec => []SurveyTypeOK` |
| `SurveyConsistent` | `SurveySpec => []SurveyInv`, the inductive invariant |
| `OpenedSurveysCloseAlways` | `SurveySpec => []OpenedSurveysClose` |
| `ProvenanceKept` | `SurveySpec => []AnswersHaveProvenance` |
| `RatingsAlwaysKept` | `SurveySpec => RatingsAreKept` |
| `UndisturbedOpeningsLock` | `SurveySpec /\ OpeningsFindNoUpdate => DefinitionsLockWhenOpened` |

Provenance is not inductive: membership and invitation are checked two statements
before a submission is recorded. `SurveyInv` adds that a checked answer's student
stays invited as long as the survey exists (the snapshot only grows), that no
transaction in progress can write a deleted survey back, and that a deleted survey
invites nobody. Ratings need no induction over submissions: a step records at
most one, and the maximum of what was there and that one is found by cases.

`AdminSessions_proofs`, from `SecondFactorAssumption` (`MaxGeneration` is a natural
number; any sets of enrolments, verifications, sessions and code numbers):

| Theorem | Statement |
|---|---|
| `SecondFactorInvariant` | `AdminSpec => []SecondFactorInv`, the inductive invariant |
| `SessionsAreProved` | `AdminSpec => []SessionsProveTheSecretInForce` |
| `CodesBelong` | `AdminSpec => []CodesBelongToTheSecretInForce` |
| `CodesAreAcceptedOnce` | `AdminSpec => []RecoveryCodesAreAcceptedOnce` |

That sessions prove the secret in force says nothing about a verification that has
proved one and not yet created its session, nor about a session of an earlier
generation, revoked or not. `SecondFactorInv` adds both, the generations never
exceeding the user's, and that a code which can still be used, or belongs to a
generation to come, has bought nothing.

The same module proves `AdultSignIn`, from `SignInAssumption` (finitely many codes,
requesters and attempters, positive limits) and `CodesAssumption` (`NoCode` is no
code and no row), and `Administrators`, from `FoundersAssumption` and
`RowsAssumption` (the two markers differ and are no rows):

| Theorem | Statement |
|---|---|
| `SignInInvariant` | `SignInSpec => []SignInInv`, the inductive invariant |
| `RequestsAreLimited` | `SignInSpec => []RequestLimitSlack` |
| `GuessesAreBounded` | `SignInSpec => []GuessesStayBounded` |
| `OneSignInPerCode` | `SignInSpec => []CodesSignInOnce` |
| `AdministratorsInvariant` | `AdministratorsSpec => []AdministratorsInv`, the inductive invariant |
| `AnOwnerIsKept` | `AdministratorsSpec => []SerialAdministrationKeepsAnOwner` |
| `ClaimsConsumeALiveLink` | `AdministratorsSpec => ClaimsNeedALiveLink` |

Limits that are counted in one statement and written in another are balances.
`SignInInv` counts what is written together with what is on its way: recent codes
and requests that have counted leave the slack (`RequestsLeaveSlack`); as long as a
code can be spent, its comparisons are at most its counted misses and the attempts
that have missed and not yet counted; a code's direct sessions and the attempts that
have verified it and not yet created one are at most its verifications
(`CodeIsSound`). Consuming a code is a comparison too: the attempt that consumes is
not among those that missed (`NotAllMissed`), which is where the bound of one less
than the attempters comes from.

That an owner is kept is inductive only with what a request in a serial history has
read: it is the only one, the one who made it is still a member, and a demotion or
removal leaves an owner besides its target (`SerialRequests`). Claims need no
history, only that a claim in progress is of a membership of the one who claims or of
one that was deleted since (`AdministrationShaped`).

`SchoolYears_proofs` proves `SchoolYears` as well, without an assumption (any requests
and writers):

| Theorem | Statement |
|---|---|
| `YearInvariant` | `YearSpec => []YearInv`, the inductive invariant |
| `PurgeIsComplete` | `YearSpec => []PurgedYearsHoldNothing` |
| `LifecycleIsFollowed` | `YearSpec => YearsFollowTheLifecycle` |

A purged year holds nothing only because nobody is still writing to it
(`PurgedYearsRest`), and a stale request stays on the lifecycle only because what
it read was a state it may leave (`RequestsWereValid`) and the trigger stops the
rest.

`RankedVoting_proofs`, from the assumptions of the modules below it and
`VotingAssumption` (any roster, catalog, depths, solves and number of ballots):

| Theorem | Statement |
|---|---|
| `VotingInvariant` | `VotingSpec => []VotingInv`, the inductive invariant |
| `BallotsFit` | `VotingSpec => BallotsFitTheSession` |
| `DepthIsPinned` | `VotingSpec => []BallotsStayWithinTheDepth` |
| `ChoicesAreListed` | `VotingSpec => []ChoicesNameListedOfferings` |

`VotingInv` says what is still true of a submission when it commits: the session is
open and no declaration is in progress as long as it holds the row
(`LockedInTheOpen`), what it has judged stays judged (`ComposedForTheSession`), and
its ranks are within the depth (`BallotsPinTheDepth`), which no transition or
configuration changes outside of the early states (`SessionKeepsDepth`). Every step
of `SessionNext` is taken apart once in `SolveMoves` for what it does to the
catalog a solve is reading.

The lifecycle and the composition are proved there as well:

| Theorem | Statement |
|---|---|
| `SessionInvariant` | `SessionSpec => []SessionInv`, the inductive invariant |
| `SessionsImplementSolves` | `SessionSpec => SolveSpec` |
| `VotingImplementsSessions` | `VotingSpec => SessionSpec` |
| `PublishedAreCurrent` | `VotingSpec => []PublishedDraftsAreCurrent` |
| `OpenVotingHasBallot` | `VotingSpec => []OpenVotingHasABallot` |
| `VotingResumes` | `VotingSpec => VotingResumesOnlyByTransition` |
| `VotingSolvesAreAtomic` | `VotingSpec => SolvesAreAtomic` |
| `VotingTypeCorrect` | `VotingSpec => []VotingTypeOK` |
| `SerialDeletionsKeepADate` | `SessionSpec /\ []DeletionsAreSerial => []SessionsKeepAMeetingDate` |
| `UndisturbedRequestsMoveForward` | `SessionSpec /\ PreviewsAreNotOvertaken => UnconfirmedRequestsMoveForward` |
| `VotingKeepsTheDraft` | `VotingSpec => []Consistent /\ AppliedRunsHonourExclusions /\ RunsObeyTheCatalogTheyRead` |
| `VotingRacesAreTheOnlyOnes` | the three conditional results on races, for `VotingSpec` |

`SessionInv` adds to the two invariants that a reopened draft is marked stale
(`ReopenedDraftsAreMarked`): the code asks only the mark. The chain
`VotingSpec => SessionSpec => SolveSpec => SolvesAreAtomic` carries the atomicity of
solves and everything the lifecycle promises to the composition of all four modules,
of which the `lifecycle` run explores small instances; `VotingKeepsTheDraft` carries the
invariants of the draft and what runs owe the exclusions and the catalog.
The meeting dates need that the set is finite (`LifecycleAssumption`): the code counts
the rows.

`GuardianOnboarding_proofs`, from `OnboardingAssumption` (the markers are no mailbox,
session or token, and `NoOnboarding` is no row; any sets of mailboxes, sessions, links
and concurrent requests):

| Theorem | Statement |
|---|---|
| `OnboardingInvariant` | `OnboardingSpec => []OnboardingInv`, the inductive invariant |
| `OnboardingTypeCorrect` | `OnboardingSpec => []OnboardingTypeOK` |
| `LinksAndSessionsAreSpentOnce` | `OnboardingSpec => []TokensAreSpentOnce` |
| `OneAdultPerMailbox` | `OnboardingSpec => []OneAdultIsEntered` |
| `EntriesFollowConsent` | `OnboardingSpec => []RosterFollowsConsent` |

A bound of one on what a link or session has bought is inductive only with the
statement that what is not spent has bought nothing (`SpentOnce`). That one adult is
entered per mailbox needs what holds between the lookup and the insert: at most one
request is there for a mailbox, and the sessions' entries it found absent still are
(`OneEntryAtATime`). That entries follow proof and consent needs it of the consents
that are on their way, also when the session proves another mailbox meanwhile
(`ProofPrecedesConsent`).

The same module proves `RegistrationLinks`, from `LinksAssumption` (finitely many
links of which `NoLink` is none, and limits that are natural numbers), and
`GuardianRecords`, from no assumption:

| Theorem | Statement |
|---|---|
| `LinksInvariant` | `LinksSpec => []LinksInv`, the inductive invariant |
| `LinksTypeCorrect` | `LinksSpec => []LinksTypeOK` |
| `OneActiveLink` | `LinksSpec => []OneLinkIsActive` |
| `SessionsAreLimited` | `LinksSpec => []SessionsPerLinkAreLimited` |
| `RecordsInvariant` | `RecordsSpec => []RecordsInv`, the inductive invariant |
| `LastGuardianSettles` | `RecordsSpec => []LastGuardianSettlesTheStudent` |
| `MembershipsRetained` | `RecordsSpec => []MembershipsAreRetained` |

One active link needs what a replacement knows while it holds the year's lock: it is
the only one, and every link that it does not revoke was revoked already, or had
expired by the instant it read (`ReplacementsStand`). An expiry edit needs no such
lock, which is why the property excepts a link that such an edit revived. The
limit of sessions needs that one visitor at a time has counted for a link, that its
count is below the limit until it inserts (`CountsStand`), and that the instant the
count reaches back from is no later than the one the session is dated with
(`VisitsLookBack`). For records, what a departure
has counted is true of every student that nobody has written since
(`CountsAreCurrent`).

### What the races cost

A finding says that a statement of the repository can be broken. Five theorems say by what
alone: with the one overlap excluded, and every other interleaving allowed, the
statement holds for instances of any size.

| Finding | Holds as long as | Theorem |
|---|---|---|
| `absent_but_placed` | no step leaves a placement on a student whose declaration has passed its trigger and is not committed (`PlacementsWaitForDeclarations`) | `OnlyOpenDeclarationsAreOvertaken`, `RunsOvertakeOnlyOpenDeclarations` |
| `last_date_deleted` | no two deletions of dates are under way (`DeletionsAreSerial`) | `SerialDeletionsKeepADate` |
| `unconfirmed_backward` | no transition leaves a request previewed in the state it ended (`PreviewsAreNotOvertaken`) | `UndisturbedRequestsMoveForward` |
| `survey_definition` | no survey is opened while an update of it is under way (`OpeningsFindNoUpdate`) | `UndisturbedOpeningsLock` |
| `last_owner` | no two administrative requests overlapped (`overlapped`) | `AnOwnerIsKept` |

Each condition is about the order of steps, none is part of the statement, and the code
guarantees none of them: they name what a lock would have to exclude. Their inductive
invariants say what a step in progress may rely on: a declaration begun is
respected as one committed (`DeclaredHoldNoPlacement`), a checked deletion still leaves a
date (`DeletionsLeaveADate`), a preview is still forward (`PreviewsAreForward`), nothing
can rewrite what has been opened (`OpenedDefinitionsAreSettled`). Of the other three
findings, `RunsObeyHardRules` restricts `stale_catalog_solve` to the offerings that
changed; `stale_forever` and `purge_with_placements` need no overlap.

### What is only checked

Where a model was changed for a proof it says no less about the code: the
assumptions on markers above state what the configurations gave them anyway,
`UpdateRegistrationEntry` is written as one `EXCEPT` per field, and the explanation of
infeasibility is a module of its own so that the search can be reasoned about.

Only model-checked: `InfeasibilityIsExplained` (`SolverDiagnostics` is built from
recursive operators, and what a matching computes is an induction over data), the
liveness property `RefusalsLapse`, and `OfficeTypeOK` and `AccountsTypeOK`, which are conjunctions over
modules that share no state: each conjunct is a theorem or part of an inductive invariant
above. ENABLED is out of the prover's reach as well; no theorem is about it.

## What is not modelled

- The documents stored with a run (a rerun is a solve of `SolveRuns` that either fails
  after the snapshot, at the fingerprint, or goes on); deletion of sessions
  (decided on a state read without a lock); the reason of a
  non-participation; texts, names, recorded qualities, audit rows, row-level
  security.
- In the sidecar, the seeded decision order that breaks ties, HTTP, and the
  parsing of a malformed request.
- Roster import. It is a development tool that the specification calls
  non-normative (SPEC.md:1576). The rate limiter: buckets in memory under one
  mutex, which nothing else reads (it takes the clock before the mutex, so two
  requests may refill in the wrong order by that much).
- Interplay between surveys: an audience filter on the responses to another
  survey is represented by the sets of students it may admit.
- Channel and guardian scope of ballots and submissions, and duplicating a survey.
- Codes of one onboarding session for one mailbox are one code, and the office holds
  one record of an address at a time. The reads by which `ResolveSession` lets a
  session in are one moment: the generation, on which the answer turns, is read last.
- The adult code limit is kept per context the mailbox is anchored in; one context's
  limit is modelled.
- A statement is atomic in these modules. PostgreSQL's are not in one respect that
  shows here: a trigger or a foreign key looks at rows a little earlier than the
  statement ends. Where that decides something (`CommitNonParticipation`,
  `LastDateDeleted`), the statement is taken apart.
- Everything marked `not_modelled` in `PROJECT.json`, with its reason there. Read-only
  projections and single-row edits have nothing to interleave; HTTP translation, configuration, seed and the other pages are of that kind.

## Plan

What is left to model: the recorded runs and their fingerprints, `DeleteSession`
against solves and ballots, and the guardian scope of submissions.

Proofs still worth having: what boards promise while solves and the lifecycle go on (the
modules meet in `AssignmentDraft` only), and that a purge succeeds in a year without
placements once its order of deletions is stated for any kinds of records.
