------------------------------- MODULE SolveRuns -------------------------------
(***************************************************************************)
(* Solve runs over the session draft.  StartAuthoritative compiles a       *)
(* request with one read transaction of several statements, each of which  *)
(* sees what was committed when it ran, calls the sidecar outside of any   *)
(* transaction, and records the answer in a second transaction.  That one  *)
(* locks the session row and replaces the draft only when the draft        *)
(* revision is still the one the snapshot began with.                      *)
(*                                                                         *)
(* Manual operations, roster and catalog transactions and other solves run *)
(* between any two of these steps.  A solve may also end at any point with *)
(* an error: a read that fails, a sidecar that is down, times out or       *)
(* answers nonsense, a transaction that aborts, a process that stops.      *)
(***************************************************************************)
EXTENDS AssignmentDraft, SolverSidecar

CONSTANTS Solves    \* the solve requests that may be in progress at a time

VARIABLES solve     \* what each of them has read and been answered

solveVars == <<vars, solve>>

Idle == [phase |-> "idle", basis |-> 0, member |-> {},
         request |-> [participants |-> <<>>, offerings |-> <<>>, pins |-> <<>>,
                      exceptions |-> <<>>, exclusions |-> {}],
         answer |-> [status |-> "none", assignments |-> NoAssignments]]

ReadingAt(k, phase) == solve[k].phase = phase /\ UNCHANGED vars

--------------------------------------------------------------------------------
(* CompileSnapshot, statement by statement.                                *)

ReadSession(k) ==
    /\ ReadingAt(k, "idle")
    /\ solve' = [solve EXCEPT ![k].phase = "session", ![k].basis = revision]

ReadMemberships(k) ==
    /\ ReadingAt(k, "session")
    /\ solve' = [solve EXCEPT ![k].phase = "members", ![k].member = member]

ReadNonParticipations(k) ==
    /\ ReadingAt(k, "members")
    /\ solve' = [solve EXCEPT ![k].phase = "roster", ![k].member = {},
                  ![k].request.participants = [s \in solve[k].member \ absent |-> Grade[s]]]

\* A request needs at least one offering.
ReadOfferings(k) ==
    /\ ReadingAt(k, "roster")
    /\ DOMAIN catalog # {}
    /\ solve' = [solve EXCEPT ![k].phase = "offerings", ![k].request.offerings = catalog]

ReadAssignments(k) ==
    /\ ReadingAt(k, "offerings")
    /\ solve' = [solve EXCEPT ![k].phase = "assignments",
                  ![k].request.pins = [s \in pinned |-> placement[s]]]

\* Override rows are matched with the assignments rows read before by id: a
\* row whose student has moved in the meantime finds none.  (One that has moved
\* back is matched here and not in the code; its run is superseded either way.)
ReadOverrides(k) ==
    LET pins == solve[k].request.pins
    IN  /\ ReadingAt(k, "assignments")
        /\ solve' = [solve EXCEPT ![k].phase = "overrides",
                      ![k].request.exceptions = [s \in DOMAIN pins |->
                          IF placement[s] = pins[s] THEN override[s] ELSE NoOverrides]]

\* Mutant of ReadExclusions: the draft revision is taken after the draft.
ReadRevisionLast(k) ==
    /\ ReadingAt(k, "overrides")
    /\ solve' = [solve EXCEPT ![k].phase = "compiled", ![k].request.exclusions = exclusion,
                              ![k].basis = revision]

ReadExclusions(k) ==
    /\ ReadingAt(k, "overrides")
    /\ solve' = [solve EXCEPT ![k].phase = "compiled", ![k].request.exclusions = exclusion]

--------------------------------------------------------------------------------
Answer(k) ==
    /\ ReadingAt(k, "compiled")
    /\ \E answer \in Answers(solve[k].request) :
           solve' = [solve EXCEPT ![k].phase = "answered", ![k].answer = answer]

\* validateSuccessfulResponse distrusts the sidecar about the participants,
\* the offerings and the pins.
Validated(request, a) ==
    /\ DOMAIN a = Participants(request)
    /\ \A s \in DOMAIN a : a[s] \in DOMAIN request.offerings
    /\ \A s \in DOMAIN request.pins : s \in DOMAIN a /\ a[s] = request.pins[s]

\* Mutant of ApplicationStatus: the last answer wins.
AlwaysApplied(k) == IF solve[k].answer.status # "solved" THEN "not_applicable" ELSE "applied"

ApplicationStatus(k) ==
    IF solve[k].answer.status # "solved" THEN "not_applicable"
    ELSE IF solve[k].basis # revision THEN "superseded"
    ELSE "applied"

\* The transaction that records the run, with its application to the draft.
\* The rows it writes are pinned when the request pinned them; the foreign key
\* on offerings and the non-participation trigger may abort it.
ApplyRun(k) ==
    LET a == solve[k].answer.assignments
        p == [s \in Students |-> IF s \in DOMAIN a THEN a[s] ELSE Unplaced]
    IN  /\ ApplicationStatus(k) = "applied"
        /\ \A s \in DOMAIN a : a[s] \in DOMAIN catalog
        /\ ReplaceDraft(p)
        /\ AdvanceDraftRevision(revision)
        /\ pinned' = {s \in DOMAIN solve[k].request.pins : p[s] = solve[k].request.pins[s]}
        /\ override' = [s \in Students |-> Carried(p, s)]
        /\ UNCHANGED <<exclusion, catalogVars, rosterVars>>

\* The recorded run is not looked at again here; the request is done.
RecordRun(k) ==
    /\ solve[k].phase = "answered"
    /\ solve[k].answer.status = "solved" => Validated(solve[k].request, solve[k].answer.assignments)
    /\ ApplyRun(k) \/ (ApplicationStatus(k) # "applied" /\ UNCHANGED vars)
    /\ solve' = [solve EXCEPT ![k] = Idle]

Fail(k) ==
    /\ solve[k].phase # "idle"
    /\ solve' = [solve EXCEPT ![k] = Idle]
    /\ UNCHANGED vars

--------------------------------------------------------------------------------
SolveInit == Init /\ solve = [k \in Solves |-> Idle]

SolveStep(k) ==
    \/ ReadSession(k)
    \/ ReadMemberships(k)
    \/ ReadNonParticipations(k)
    \/ ReadOfferings(k)
    \/ ReadAssignments(k)
    \/ ReadOverrides(k)
    \/ ReadExclusions(k)
    \/ Answer(k)
    \/ RecordRun(k)
    \/ Fail(k)

SolveNext ==
    \/ \E k \in Solves : SolveStep(k)
    \/ Next /\ UNCHANGED solve

SolveSpec == SolveInit /\ [][SolveNext]_solveVars

--------------------------------------------------------------------------------
(* Properties.                                                             *)

\* A torn snapshot is harmless, an overtaken run never overwrites an edit,
\* and pinned rows survive a re-solve with their overrides (SPEC 17.9): runs
\* behave as if they read the draft atomically and applied to that draft.
Atomic ==
    INSTANCE AtomicSolve WITH
        Counts <- Nat,
        basis <- [k \in Solves |->
            IF solve[k].phase \notin {"compiled", "answered"} THEN "none"
            ELSE IF solve[k].basis = revision THEN "current" ELSE "stale"]

SolvesAreAtomic == Atomic!AtomicSpec

\* k's answer becomes the draft in this step.
Applied(k) ==
    /\ solve[k].phase = "answered"
    /\ solve'[k].phase = "idle"
    /\ revision' # revision

\* No run places an unpinned student where an exclusion committed before the
\* run was applied forbids it, however late the exclusion was added.
AppliedRunsHonourExclusions ==
    [][\A k \in Solves : Applied(k) =>
          \A s \in Students \ pinned : <<s, placement'[s]>> \notin exclusion]_solveVars

\* The hard rules bind the solver (SPEC 16.3): an applied run leaves every
\* student it was free to place without a broken rule.
AppliedRunsObeyHardRules ==
    [][\A k \in Solves : Applied(k) =>
          \A s \in Students \ pinned :
              placement'[s] # Unplaced => Broken(placement, s)' = {}]_solveVars

================================================================================
