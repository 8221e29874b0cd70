---------------------------- MODULE SolveRuns_proofs ----------------------------
(***************************************************************************)
(* Solve runs for every number of solves, students and offerings: what was *)
(* read statement by statement is the draft if its revision is still       *)
(* current, so that an applied run is one atomic step on the draft that    *)
(* keeps its pins and respects every exclusion, and an overtaken one has   *)
(* no effect.                                                              *)
(***************************************************************************)
EXTENDS SolveRuns, AssignmentDraft_proofs, FiniteSetTheorems

--------------------------------------------------------------------------------
(* The inductive invariant.                                                *)

SolveFields == {"phase", "basis", "member", "request", "answer"}
RequestFields == {"participants", "offerings", "pins", "exceptions", "exclusions"}

Shaped(run) == DOMAIN run = SolveFields /\ DOMAIN run.request = RequestFields

RunsAreShaped == DOMAIN solve = Solves /\ \A k \in Solves : Shaped(solve[k])

\* The phases in which a run holds the rows named.
HoldsPins == {"assignments", "overrides", "compiled", "answered"}
HoldsExclusions == {"compiled", "answered"}

\* What the statements of a snapshot have read is the draft's for as long as the
\* revision read by the first one is; an exclusion may have gone since, with its
\* offering.
SnapshotIsCurrent(run) ==
    run.basis = revision =>
        /\ run.phase \in HoldsPins => run.request.pins = [s \in pinned |-> placement[s]]
        /\ run.phase \in HoldsExclusions => exclusion \subseteq run.request.exclusions

\* A solved answer satisfies the constraints of the request it answers.
AnswerIsFeasible(run) ==
    run.phase = "answered" /\ run.answer.status = "solved" =>
        run.answer.assignments \in Feasible(run.request)

RunIsSound(run) ==
    run.basis \in 0..revision /\ SnapshotIsCurrent(run) /\ AnswerIsFeasible(run)

SolveInv ==
    /\ Consistent
    /\ RunsAreShaped
    /\ \A k \in Solves : RunIsSound(solve[k])

--------------------------------------------------------------------------------
(* Edits of the draft as the runs see them.                                *)

\* A run that has not begun is of its shape.
LEMMA IdleIsShaped == Shaped(Idle) /\ Idle.phase = "idle" /\ Idle.basis = 0
BY DEF Shaped, Idle, SolveFields, RequestFields

\* A run that is idle holds nothing.
LEMMA IdleIsSound ==
    ASSUME revision \in Nat
    PROVE  RunIsSound(Idle)
BY IdleIsShaped DEF RunIsSound, SnapshotIsCurrent, AnswerIsFeasible, HoldsPins, HoldsExclusions

\* When a revision is taken, no snapshot is current any more.
LEMMA NumberedStepSound ==
    ASSUME revision \in Nat, revision' = revision + 1, NEW run, RunIsSound(run)
    PROVE  /\ run.basis \in 0..revision' /\ run.basis # revision'
           /\ AnswerIsFeasible(run)
BY DEF RunIsSound

\* A step that takes a revision and sends runs back to idle, if it touches them.
LEMMA NumberedStepKeepsInv ==
    ASSUME SolveInv, Consistent', revision' = revision + 1, DOMAIN solve' = Solves,
           \A k \in Solves : solve'[k] = solve[k] \/ solve'[k] = Idle
    PROVE  SolveInv'
<1>1. revision \in Nat /\ revision' \in Nat
  BY DraftAssumption DEF SolveInv, Consistent, TypeOK, DraftAssumption
<1>2. RunsAreShaped'
  BY IdleIsShaped DEF SolveInv, RunsAreShaped
<1> SUFFICES ASSUME NEW k \in Solves
             PROVE  RunIsSound(solve[k])'
  BY <1>2 DEF SolveInv
<1>3. PICK run : run = solve'[k] /\ RunIsSound(run)
  BY <1>1, IdleIsSound DEF SolveInv
<1>4. /\ run.basis \in 0..revision' /\ run.basis # revision'
      /\ AnswerIsFeasible(run)
  BY <1>1, <1>3, NumberedStepSound
<1>5. QED
  BY <1>3, <1>4 DEF RunIsSound, SnapshotIsCurrent, AnswerIsFeasible

\* A roster or catalog transaction leaves every snapshot as right as it was.
LEMMA OtherTransactionKeepsInv ==
    ASSUME SolveInv, RosterOperation \/ CatalogOperation, solve' = solve
    PROVE  SolveInv'
<1>1. Consistent' /\ RunsAreShaped'
  BY RosterOperationConsistent, CatalogOperationConsistent DEF SolveInv, RunsAreShaped
<1>2. UNCHANGED <<revision, placement, pinned>> /\ exclusion' \subseteq exclusion
  BY OtherTransactionsKeepTheDraft DEF SolveInv
<1>3. QED
  BY <1>1, <1>2 DEF SolveInv, RunIsSound, SnapshotIsCurrent, AnswerIsFeasible

\* Any edit by other callers.
LEMMA EditKeepsInv ==
    ASSUME SolveInv, Next, solve' = solve
    PROVE  SolveInv'
<1>1. CASE RosterOperation \/ CatalogOperation
  BY <1>1, OtherTransactionKeepsInv
<1>2. ASSUME NEW expected \in 0..MaxRevision, ManualOperation(expected)
      PROVE  SolveInv'
  <2>1. revision' = revision + 1
    BY <1>2, ManualOperationsAreNumbered
  <2>2. Consistent'
    BY ConsistentStep DEF SolveInv
  <2>3. QED
    BY <2>1, <2>2, NumberedStepKeepsInv DEF SolveInv, RunsAreShaped
<1>3. QED
  BY <1>1, <1>2 DEF Next

--------------------------------------------------------------------------------
(* Steps of one run.                                                       *)

\* A step that leaves vars alone leaves each part of the draft alone.
LEMMA DraftIsKept ==
    ASSUME UNCHANGED vars
    PROVE  UNCHANGED <<revision, placement, pinned, override, exclusion, catalog, member, absent>>
BY DEF vars, draftVars, catalogVars, rosterVars

\* Of the steps of a solve, only recording a run that is applied writes the draft.
LEMMA OnlyApplyingWrites ==
    ASSUME NEW k, SolveStep(k)
    PROVE  UNCHANGED vars \/ (RecordRun(k) /\ ApplyRun(k))
<1>1. CASE ReadSession(k) \/ ReadMemberships(k) \/ ReadNonParticipations(k) \/ ReadOfferings(k)
  BY <1>1 DEF ReadSession, ReadMemberships, ReadNonParticipations, ReadOfferings, ReadingAt
<1>2. CASE ReadAssignments(k) \/ ReadOverrides(k) \/ ReadExclusions(k) \/ Answer(k)
  BY <1>2 DEF ReadAssignments, ReadOverrides, ReadExclusions, Answer, ReadingAt
<1>3. CASE Fail(k)
  BY <1>3 DEF Fail
<1>4. CASE RecordRun(k)
  BY <1>4 DEF RecordRun
<1>5. QED
  BY <1>1, <1>2, <1>3, <1>4 DEF SolveStep

\* When one run moves and the draft does not, the others stay sound.
LEMMA OneRunMoves ==
    ASSUME SolveInv, NEW k \in Solves, UNCHANGED vars, NEW run,
           solve' = [solve EXCEPT ![k] = run], Shaped(run), RunIsSound(run)
    PROVE  SolveInv'
<1>1. UNCHANGED <<revision, placement, pinned, exclusion>>
  BY DraftIsKept
<1>2. Consistent'
  BY ConsistentStep DEF SolveInv
<1>3. DOMAIN solve' = Solves /\ \A j \in Solves : solve'[j] = run \/ solve'[j] = solve[j]
  BY DEF SolveInv, RunsAreShaped
<1>4. RunsAreShaped'
  BY <1>3 DEF SolveInv, RunsAreShaped
<1>5. ASSUME NEW j \in Solves
      PROVE  RunIsSound(solve[j])'
  <2>1. RunIsSound(solve'[j])
    BY <1>3 DEF SolveInv
  <2>2. QED
    BY <1>1, <2>1 DEF RunIsSound, SnapshotIsCurrent, AnswerIsFeasible
<1>6. QED
  BY <1>2, <1>4, <1>5 DEF SolveInv

\* The reads before the pins add to the request what no property below needs.
LEMMA EarlyReadKeepsInv ==
    ASSUME SolveInv, NEW k \in Solves, UNCHANGED vars, NEW run,
           solve' = [solve EXCEPT ![k] = run], Shaped(run),
           run.basis = revision \/ run.basis = solve[k].basis,
           run.phase \notin HoldsPins
    PROVE  SolveInv'
<1>1. revision \in Nat
  BY DraftAssumption DEF SolveInv, Consistent, TypeOK, DraftAssumption
<1>2. RunIsSound(run)
  BY <1>1 DEF SolveInv, RunIsSound, SnapshotIsCurrent, AnswerIsFeasible, HoldsPins, HoldsExclusions
<1>3. QED
  BY <1>2, OneRunMoves

\* Each read takes the draft as it is at that statement.
LEMMA ReadKeepsInv ==
    ASSUME SolveInv, NEW k \in Solves,
           ReadSession(k) \/ ReadMemberships(k) \/ ReadNonParticipations(k) \/ ReadOfferings(k)
    PROVE  SolveInv'
<1>1. DOMAIN solve = Solves /\ Shaped(solve[k]) /\ UNCHANGED vars
  BY DEF SolveInv, RunsAreShaped, ReadSession, ReadMemberships, ReadNonParticipations,
         ReadOfferings, ReadingAt
<1>2. CASE ReadSession(k)
  <2> DEFINE run == [solve[k] EXCEPT !.phase = "session", !.basis = revision]
  <2>1. solve' = [solve EXCEPT ![k] = run]
    BY <1>2 DEF ReadSession
  <2>2. Shaped(run) /\ run.phase = "session" /\ run.basis = revision
    BY <1>1 DEF Shaped, SolveFields
  <2> HIDE DEF run
  <2>3. QED
    BY <1>1, <2>1, <2>2, EarlyReadKeepsInv DEF HoldsPins
<1>3. CASE ReadMemberships(k)
  <2> DEFINE run == [solve[k] EXCEPT !.phase = "members", !.member = member]
  <2>1. solve' = [solve EXCEPT ![k] = run]
    BY <1>3 DEF ReadMemberships
  <2>2. Shaped(run) /\ run.phase = "members" /\ run.basis = solve[k].basis
    BY <1>1 DEF Shaped, SolveFields
  <2> HIDE DEF run
  <2>3. QED
    BY <1>1, <2>1, <2>2, EarlyReadKeepsInv DEF HoldsPins
<1>4. CASE ReadNonParticipations(k)
  <2> DEFINE participants == [s \in solve[k].member \ absent |-> Grade[s]]
             run == [solve[k] EXCEPT !.phase = "roster", !.member = {},
                                     !.request.participants = participants]
  <2>1. solve' = [solve EXCEPT ![k] = run]
    BY <1>4 DEF ReadNonParticipations
  <2> HIDE DEF participants
  <2>2. Shaped(run) /\ run.phase = "roster" /\ run.basis = solve[k].basis
    BY <1>1 DEF Shaped, SolveFields, RequestFields
  <2> HIDE DEF run
  <2>3. QED
    BY <1>1, <2>1, <2>2, EarlyReadKeepsInv DEF HoldsPins
<1>5. CASE ReadOfferings(k)
  <2> DEFINE run == [solve[k] EXCEPT !.phase = "offerings", !.request.offerings = catalog]
  <2>1. solve' = [solve EXCEPT ![k] = run]
    BY <1>5 DEF ReadOfferings
  <2>2. Shaped(run) /\ run.phase = "offerings" /\ run.basis = solve[k].basis
    BY <1>1 DEF Shaped, SolveFields, RequestFields
  <2> HIDE DEF run
  <2>3. QED
    BY <1>1, <2>1, <2>2, EarlyReadKeepsInv DEF HoldsPins
<1>6. QED
  BY <1>2, <1>3, <1>4, <1>5

\* The pins a run reads are the draft's, whose revision is the run's or a later one.
LEMMA ReadAssignmentsKeepsInv ==
    ASSUME SolveInv, NEW k \in Solves, ReadAssignments(k)
    PROVE  SolveInv'
<1> DEFINE pins == [s \in pinned |-> placement[s]]
           run == [solve[k] EXCEPT !.phase = "assignments", !.request.pins = pins]
<1>1. Shaped(solve[k]) /\ RunIsSound(solve[k]) /\ UNCHANGED vars
  BY DEF SolveInv, RunsAreShaped, ReadAssignments, ReadingAt
<1>2. solve' = [solve EXCEPT ![k] = run]
  BY DEF ReadAssignments
<1>3. /\ Shaped(run) /\ run.phase = "assignments" /\ run.basis = solve[k].basis
      /\ run.request.pins = pins
  <2> HIDE DEF pins
  <2>1. QED
    BY <1>1 DEF Shaped, SolveFields, RequestFields
<1> HIDE DEF run
<1>4. RunIsSound(run)
  BY <1>1, <1>3 DEF RunIsSound, SnapshotIsCurrent, AnswerIsFeasible, HoldsPins, HoldsExclusions
<1>5. QED
  BY <1>1, <1>2, <1>3, <1>4, OneRunMoves

\* Reading the overrides keeps the pins read before.
LEMMA ReadOverridesKeepsInv ==
    ASSUME SolveInv, NEW k \in Solves, ReadOverrides(k)
    PROVE  SolveInv'
<1> DEFINE exceptions == [s \in DOMAIN solve[k].request.pins |->
                             IF placement[s] = solve[k].request.pins[s] THEN override[s]
                             ELSE NoOverrides]
           run == [solve[k] EXCEPT !.phase = "overrides", !.request.exceptions = exceptions]
<1>1. /\ Shaped(solve[k]) /\ RunIsSound(solve[k]) /\ UNCHANGED vars
      /\ solve[k].phase = "assignments"
  BY DEF SolveInv, RunsAreShaped, ReadOverrides, ReadingAt
<1>2. solve' = [solve EXCEPT ![k] = run]
  BY DEF ReadOverrides
<1>3. /\ Shaped(run) /\ run.phase = "overrides" /\ run.basis = solve[k].basis
      /\ run.request.pins = solve[k].request.pins
  <2> HIDE DEF exceptions
  <2>1. QED
    BY <1>1 DEF Shaped, SolveFields, RequestFields
<1> HIDE DEF run
<1>4. RunIsSound(run)
  BY <1>1, <1>3 DEF RunIsSound, SnapshotIsCurrent, AnswerIsFeasible, HoldsPins, HoldsExclusions
<1>5. QED
  BY <1>1, <1>2, <1>3, <1>4, OneRunMoves

\* Reading the exclusions completes the snapshot.
LEMMA ReadExclusionsKeepsInv ==
    ASSUME SolveInv, NEW k \in Solves, ReadExclusions(k)
    PROVE  SolveInv'
<1> DEFINE run == [solve[k] EXCEPT !.phase = "compiled", !.request.exclusions = exclusion]
<1>1. /\ Shaped(solve[k]) /\ RunIsSound(solve[k]) /\ UNCHANGED vars
      /\ solve[k].phase = "overrides"
  BY DEF SolveInv, RunsAreShaped, ReadExclusions, ReadingAt
<1>2. solve' = [solve EXCEPT ![k] = run]
  BY DEF ReadExclusions
<1>3. /\ Shaped(run) /\ run.phase = "compiled" /\ run.basis = solve[k].basis
      /\ run.request.pins = solve[k].request.pins /\ run.request.exclusions = exclusion
  BY <1>1 DEF Shaped, SolveFields, RequestFields
<1> HIDE DEF run
<1>4. RunIsSound(run)
  BY <1>1, <1>3 DEF RunIsSound, SnapshotIsCurrent, AnswerIsFeasible, HoldsPins, HoldsExclusions
<1>5. QED
  BY <1>1, <1>2, <1>3, <1>4, OneRunMoves

\* A solved answer is one of the feasible ones, whatever else the sidecar may say.
LEMMA SolvedAnswersAreFeasible ==
    ASSUME NEW req, NEW answer \in Answers(req), answer.status = "solved"
    PROVE  answer.assignments \in Feasible(req)
BY DEF Answers

\* The solver answers for the request it was sent.
LEMMA AnswerKeepsInv ==
    ASSUME SolveInv, NEW k \in Solves, Answer(k)
    PROVE  SolveInv'
<1>1. /\ Shaped(solve[k]) /\ RunIsSound(solve[k]) /\ UNCHANGED vars
      /\ solve[k].phase = "compiled"
  BY DEF SolveInv, RunsAreShaped, Answer, ReadingAt
<1>2. PICK answer \in Answers(solve[k].request) :
          solve' = [solve EXCEPT ![k].phase = "answered", ![k].answer = answer]
  BY DEF Answer
<1> DEFINE run == [solve[k] EXCEPT !.phase = "answered", !.answer = answer]
<1>3. solve' = [solve EXCEPT ![k] = run]
  BY <1>2
<1>4. /\ Shaped(run) /\ run.phase = "answered" /\ run.basis = solve[k].basis
      /\ run.request = solve[k].request /\ run.answer = answer
  BY <1>1 DEF Shaped, SolveFields
<1> HIDE DEF run
<1>5. AnswerIsFeasible(run)
  BY <1>4, SolvedAnswersAreFeasible DEF AnswerIsFeasible
<1>6. RunIsSound(run)
  BY <1>1, <1>4, <1>5 DEF RunIsSound, SnapshotIsCurrent, HoldsPins, HoldsExclusions
<1>7. QED
  BY <1>1, <1>3, <1>4, <1>6, OneRunMoves

\* A run that ends leaves the draft alone, unless it is applied.
LEMMA EndKeepsInv ==
    ASSUME SolveInv, NEW k \in Solves, UNCHANGED vars, solve' = [solve EXCEPT ![k] = Idle]
    PROVE  SolveInv'
<1>1. revision \in Nat
  BY DraftAssumption DEF SolveInv, Consistent, TypeOK, DraftAssumption
<1>2. QED
  BY <1>1, IdleIsShaped, IdleIsSound, OneRunMoves

--------------------------------------------------------------------------------
(* A run that is applied.                                                  *)

\* Placements outside of the pins carry no override rows.
LEMMA UnpinnedHaveNoOverrides ==
    ASSUME Consistent, NEW s \in Students, s \notin pinned
    PROVE  override[s] = NoOverrides
<1>1. override[s] \in [Rules -> Nat]
  BY DEF Consistent, TypeOK
<1>2. \A r \in Rules : ~(override[s][r] > 0)
  BY DEF Consistent, OverridesSitOnPins, Recorded
<1>3. \A r \in Rules : override[s][r] = 0
  BY <1>1, <1>2
<1>4. QED
  BY <1>1, <1>3 DEF NoOverrides

\* What the application of a run does to the draft: pinned placements keep their
\* pins and overrides, the others have none, and nobody is placed outside of the
\* catalog or, unless pinned, against an exclusion.
AppliedTo(p) ==
    /\ placement' = p
    /\ p \in [Students -> Offerings \cup {Unplaced}]
    /\ \A s \in Students : p[s] # Unplaced => p[s] \in DOMAIN catalog
    /\ \A s \in pinned : p[s] = placement[s]
    /\ \A s \in Students \ pinned : <<s, p[s]>> \notin exclusion
    /\ pinned' = pinned /\ override' = override
    /\ revision < MaxRevision /\ revision' = revision + 1
    /\ UNCHANGED <<exclusion, catalogVars, rosterVars>>

\* A run that passes the check of its revision is applied to the draft it has
\* read.
LEMMA ApplyRunApplies ==
    ASSUME SolveInv, NEW k \in Solves, solve[k].phase = "answered", ApplyRun(k),
           Validated(solve[k].request, solve[k].answer.assignments)
    PROVE  \E p : AppliedTo(p)
<1> DEFINE a == solve[k].answer.assignments
           req == solve[k].request
           p == [s \in Students |-> IF s \in DOMAIN a THEN a[s] ELSE Unplaced]
<1>1. /\ solve[k].answer.status = "solved" /\ solve[k].basis = revision
      /\ \A s \in DOMAIN a : a[s] \in DOMAIN catalog
      /\ placement' = p
      /\ revision < MaxRevision /\ revision' = revision + 1
      /\ pinned' = {s \in DOMAIN req.pins : p[s] = req.pins[s]}
      /\ override' = [s \in Students |-> Carried(p, s)]
      /\ UNCHANGED <<exclusion, catalogVars, rosterVars>>
  BY DEF ApplyRun, ApplicationStatus, ReplaceDraft, AdvanceDraftRevision
<1>2. RunIsSound(solve[k]) /\ Consistent /\ TypeOK
  BY DEF SolveInv, Consistent
<1>3. /\ req.pins = [s \in pinned |-> placement[s]]
      /\ exclusion \subseteq req.exclusions
      /\ a \in Feasible(req)
  BY <1>1, <1>2 DEF RunIsSound, SnapshotIsCurrent, AnswerIsFeasible, HoldsPins, HoldsExclusions
<1>4. \A s \in pinned : s \in DOMAIN a /\ a[s] = placement[s] /\ s \in Students
  BY <1>2, <1>3 DEF Validated, TypeOK
<1>5. \A s \in Students : p[s] = IF s \in DOMAIN a THEN a[s] ELSE Unplaced
  OBVIOUS
<1>6. DOMAIN catalog \subseteq Offerings
  BY <1>2, ListedAreOfferings
<1>7. p \in [Students -> Offerings \cup {Unplaced}]
  BY <1>1, <1>6
<1>8. \A s \in pinned : p[s] = placement[s]
  BY <1>4
<1>9. \A s \in Students : p[s] # Unplaced => p[s] \in DOMAIN catalog
  BY <1>1
<1>10. ASSUME NEW s \in Students \ pinned
       PROVE  <<s, p[s]>> \notin exclusion
  <2>1. CASE s \notin DOMAIN a
    <3>1. p[s] = Unplaced /\ Unplaced \notin Offerings
      BY <2>1, DraftAssumption DEF DraftAssumption
    <3>2. exclusion \subseteq Students \X Offerings
      BY <1>2 DEF TypeOK
    <3>3. QED
      BY <3>1, <3>2
  <2>2. CASE s \in DOMAIN a
    <3>1. s \in Participants(req) /\ a[s] \in Eligible(req, s) /\ s \notin DOMAIN req.pins
      BY <1>3, <2>2 DEF Feasible
    <3>2. <<s, a[s]>> \notin req.exclusions
      BY <3>1 DEF Eligible, Excluded
    <3>3. QED
      BY <1>3, <2>2, <3>2
  <2>3. QED
    BY <2>1, <2>2
<1>11. pinned' = pinned
  BY <1>1, <1>3, <1>4, <1>8
<1>12. override' = override
  <2>1. ASSUME NEW s \in Students
        PROVE  Carried(p, s) = override[s]
    <3>1. CASE s \in pinned
      BY <1>8, <3>1 DEF Carried
    <3>2. CASE s \notin pinned
      BY <1>2, <3>2, UnpinnedHaveNoOverrides DEF Carried
    <3>3. QED
      BY <3>1, <3>2
  <2>2. override = [s \in Students |-> override[s]]
    BY <1>2 DEF TypeOK
  <2>3. QED
    BY <1>1, <2>1, <2>2
<1> HIDE DEF p
<1>13. QED
  BY <1>1, <1>7, <1>8, <1>9, <1>10, <1>11, <1>12 DEF AppliedTo

\* An applied run keeps the draft consistent.
LEMMA AppliedKeepsConsistent ==
    ASSUME Consistent, NEW p, AppliedTo(p)
    PROVE  Consistent'
<1>1. TypeOK /\ placement' = p /\ pinned' = pinned /\ override' = override /\ exclusion' = exclusion
      /\ catalog' = catalog /\ UNCHANGED <<retired, member, absent, declaring>>
  BY DEF Consistent, AppliedTo, catalogVars, rosterVars
<1>2. revision' \in 0..MaxRevision
  BY <1>1, DraftAssumption DEF AppliedTo, TypeOK, DraftAssumption
<1>3. TypeOK'
  BY <1>1, <1>2 DEF AppliedTo, TypeOK
<1>4. \A s \in Students : Recorded(s)' = Recorded(s)
  BY <1>1 DEF Recorded
<1>5. \A s \in pinned : p[s] = placement[s]
  BY DEF AppliedTo
<1>6. OverridesSitOnPins'
  BY <1>1, <1>4, <1>5 DEF Consistent, OverridesSitOnPins
<1>7. ExclusionOverridesStand'
  <2> SUFFICES ASSUME NEW s \in Students, "exclusion" \in Recorded(s)
               PROVE  <<s, p[s]>> \in exclusion
    BY <1>1, <1>4 DEF ExclusionOverridesStand
  <2>1. s \in pinned /\ <<s, placement[s]>> \in exclusion
    BY DEF Consistent, OverridesSitOnPins, ExclusionOverridesStand
  <2>2. QED
    BY <1>5, <2>1
<1>8. DraftNamesListedOfferings'
  BY <1>1 DEF AppliedTo, Consistent, DraftNamesListedOfferings, Placed
<1>9. QED
  BY <1>3, <1>6, <1>7, <1>8 DEF Consistent

\* Recording a run, applied or not, keeps the invariant.
LEMMA RecordRunKeepsInv ==
    ASSUME SolveInv, NEW k \in Solves, RecordRun(k)
    PROVE  SolveInv'
<1>1. solve' = [solve EXCEPT ![k] = Idle]
  BY DEF RecordRun
<1>2. CASE UNCHANGED vars
  BY <1>1, <1>2, EndKeepsInv
<1>3. CASE ApplyRun(k)
  <2>1. Validated(solve[k].request, solve[k].answer.assignments) /\ solve[k].phase = "answered"
    BY <1>3 DEF RecordRun, ApplyRun, ApplicationStatus
  <2>2. PICK p : AppliedTo(p)
    BY <1>3, <2>1, ApplyRunApplies
  <2>3. Consistent'
    BY <2>2, AppliedKeepsConsistent DEF SolveInv
  <2>4. revision' = revision + 1
    BY <2>2 DEF AppliedTo
  <2>5. DOMAIN solve' = Solves /\ \A j \in Solves : solve'[j] = solve[j] \/ solve'[j] = Idle
    BY <1>1 DEF SolveInv, RunsAreShaped
  <2>6. QED
    BY <2>3, <2>4, <2>5, NumberedStepKeepsInv
<1>4. QED
  BY <1>2, <1>3 DEF RecordRun

\* Every step of a solve, and every edit between its steps, preserves the invariant.
LEMMA SolveInvStep == SolveInv /\ [SolveNext]_solveVars => SolveInv'
<1> SUFFICES ASSUME SolveInv, [SolveNext]_solveVars
             PROVE  SolveInv'
  OBVIOUS
<1>1. ASSUME NEW k \in Solves, SolveStep(k)
      PROVE  SolveInv'
  <2>1. CASE Fail(k)
    BY <2>1, EndKeepsInv DEF Fail
  <2>2. QED
    BY <1>1, <2>1, ReadKeepsInv, ReadAssignmentsKeepsInv, ReadOverridesKeepsInv,
       ReadExclusionsKeepsInv, AnswerKeepsInv, RecordRunKeepsInv DEF SolveStep
<1>2. CASE Next /\ UNCHANGED solve
  BY <1>2, EditKeepsInv
<1>3. CASE UNCHANGED solveVars
  <2>1. UNCHANGED vars /\ solve' = solve
    BY <1>3 DEF solveVars
  <2>2. UNCHANGED <<revision, placement, pinned, exclusion>>
    BY <2>1, DraftIsKept
  <2>3. Consistent' /\ RunsAreShaped'
    BY <2>1, ConsistentStep DEF SolveInv, RunsAreShaped
  <2>4. QED
    BY <2>1, <2>2, <2>3 DEF SolveInv, RunIsSound, SnapshotIsCurrent, AnswerIsFeasible
<1>4. QED
  BY <1>1, <1>2, <1>3 DEF SolveNext

\* At the start no solve is under way.
LEMMA SolveInvInit == SolveInit => SolveInv
<1> SUFFICES ASSUME SolveInit
             PROVE  SolveInv
  OBVIOUS
<1>1. Consistent /\ revision \in Nat
  BY InitConsistent DEF SolveInit, Init
<1>2. RunsAreShaped /\ \A k \in Solves : solve[k] = Idle
  BY IdleIsShaped DEF SolveInit, RunsAreShaped
<1>3. QED
  BY <1>1, <1>2, IdleIsSound DEF SolveInv

--------------------------------------------------------------------------------
(* What holds of solves.                                                   *)

\* However many solves and edits interleave, a run whose revision is current holds
\* the pins of the draft and every exclusion, and its answer is feasible for them.
THEOREM SolvesAreSound == SolveSpec => []SolveInv
BY SolveInvInit, SolveInvStep, PTL DEF SolveSpec

\* Solves keep overrides on their pins and exclusions, and offerings listed, just
\* as the edits do (replaceDraft carries pinned rows over with their overrides).
THEOREM SolvesKeepTheDraftConsistent == SolveSpec => []Consistent
<1>1. SolveInv => Consistent
  BY DEF SolveInv
<1>2. QED
  BY <1>1, SolvesAreSound, PTL

\* The step that applies a run is the application of its answer.
LEMMA ApplicationIsRecorded ==
    ASSUME SolveInv, [SolveNext]_solveVars, NEW k \in Solves, Applied(k)
    PROVE  \E p : AppliedTo(p)
<1>1. solve' # solve /\ revision' # revision
  BY DEF Applied
<1>2. PICK j \in Solves : SolveStep(j)
  BY <1>1 DEF SolveNext, solveVars
<1>3. RecordRun(j) /\ ApplyRun(j)
  <2>1. ~UNCHANGED vars
    BY <1>1, DraftIsKept
  <2>2. QED
    BY <1>2, <2>1, OnlyApplyingWrites
<1>4. Validated(solve[j].request, solve[j].answer.assignments) /\ solve[j].phase = "answered"
  BY <1>3 DEF RecordRun, ApplyRun, ApplicationStatus
<1>5. QED
  BY <1>3, <1>4, ApplyRunApplies

\* No applied run places an unpinned student where an exclusion forbids it, however
\* late the exclusion was added: it would have taken the run's revision.
THEOREM RunsHonourExclusions == SolveSpec => AppliedRunsHonourExclusions
<1> DEFINE Honoured == \A k \in Solves : Applied(k) =>
               \A s \in Students \ pinned : <<s, placement'[s]>> \notin exclusion
<1>1. SolveInv /\ [SolveNext]_solveVars => [Honoured]_solveVars
  BY ApplicationIsRecorded DEF AppliedTo
<1>2. QED
  BY <1>1, SolvesAreSound, PTL DEF SolveSpec, AppliedRunsHonourExclusions

--------------------------------------------------------------------------------
(* Applied runs and the hard rules.  A run whose snapshot is of another    *)
(* catalog may break them (AppliedRunsObeyHardRules is not a theorem); the *)
(* catalog is all that can be to blame.                                    *)

\* The phases in which a run holds its roster.
HoldsRoster == {"roster", "offerings", "assignments", "overrides", "compiled", "answered"}

\* The roster of a request gives each participant the grade of the student.
RosterIsGraded(run) ==
    /\ run.phase = "members" => run.member \subseteq Students
    /\ run.phase \in HoldsRoster =>
           /\ DOMAIN run.request.participants \subseteq Students
           /\ \A s \in DOMAIN run.request.participants :
                  run.request.participants[s] = Grade[s]

RostersAreGraded == \A k \in Solves : RosterIsGraded(solve[k])

\* When one run moves the rosters of the others stay.
LEMMA OneRosterMoves ==
    ASSUME SolveInv, RostersAreGraded, NEW k \in Solves, NEW run,
           solve' = [solve EXCEPT ![k] = run], RosterIsGraded(run)
    PROVE  RostersAreGraded'
<1>1. \A j \in Solves : solve'[j] = run \/ solve'[j] = solve[j]
  BY DEF SolveInv, RunsAreShaped
<1>2. \A j \in Solves : RosterIsGraded(solve'[j])
  BY <1>1 DEF RostersAreGraded
<1>3. QED
  BY <1>2 DEF RostersAreGraded, RosterIsGraded

\* A run that has read its roster sends the one it has read.
LEMMA RosterIsSent ==
    ASSUME SolveInv, RostersAreGraded, NEW k \in Solves, NEW run,
           solve' = [solve EXCEPT ![k] = run],
           solve[k].phase \in HoldsRoster, run.phase \in HoldsRoster,
           run.request.participants = solve[k].request.participants
    PROVE  RostersAreGraded'
<1>1. RosterIsGraded(run)
  BY DEF RostersAreGraded, RosterIsGraded, HoldsRoster
<1>2. QED
  BY <1>1, OneRosterMoves

\* The reads up to the roster.
LEMMA EarlyReadGrades ==
    ASSUME SolveInv, RostersAreGraded, NEW k \in Solves,
           ReadSession(k) \/ ReadMemberships(k) \/ ReadNonParticipations(k)
    PROVE  RostersAreGraded'
<1>1. Shaped(solve[k]) /\ RosterIsGraded(solve[k]) /\ member \subseteq Students
  BY DEF SolveInv, RunsAreShaped, RostersAreGraded, Consistent, TypeOK
<1>2. CASE ReadSession(k)
  <2> DEFINE run == [solve[k] EXCEPT !.phase = "session", !.basis = revision]
  <2>1. solve' = [solve EXCEPT ![k] = run]
    BY <1>2 DEF ReadSession
  <2>2. run.phase = "session"
    BY <1>1 DEF Shaped, SolveFields
  <2> HIDE DEF run
  <2>3. RosterIsGraded(run)
    BY <2>2 DEF RosterIsGraded, HoldsRoster
  <2>4. QED
    BY <2>1, <2>3, OneRosterMoves
<1>3. CASE ReadMemberships(k)
  <2> DEFINE run == [solve[k] EXCEPT !.phase = "members", !.member = member]
  <2>1. solve' = [solve EXCEPT ![k] = run]
    BY <1>3 DEF ReadMemberships
  <2>2. run.phase = "members" /\ run.member = member
    BY <1>1 DEF Shaped, SolveFields
  <2> HIDE DEF run
  <2>3. RosterIsGraded(run)
    BY <1>1, <2>2 DEF RosterIsGraded, HoldsRoster
  <2>4. QED
    BY <2>1, <2>3, OneRosterMoves
<1>4. CASE ReadNonParticipations(k)
  <2> DEFINE present == solve[k].member \ absent
             participants == [s \in present |-> Grade[s]]
             run == [solve[k] EXCEPT !.phase = "roster", !.member = {},
                                     !.request.participants = participants]
  <2>1. solve' = [solve EXCEPT ![k] = run]
    BY <1>4 DEF ReadNonParticipations
  <2>2. solve[k].phase = "members" /\ present \subseteq Students
    BY <1>1, <1>4 DEF ReadNonParticipations, ReadingAt, RosterIsGraded
  <2> HIDE DEF present
  <2>3. DOMAIN participants \subseteq Students /\ \A s \in DOMAIN participants : participants[s] = Grade[s]
    BY <2>2
  <2> HIDE DEF participants
  <2>4. run.phase = "roster" /\ run.request.participants = participants
    BY <1>1 DEF Shaped, SolveFields, RequestFields
  <2> HIDE DEF run
  <2>5. RosterIsGraded(run)
    BY <2>3, <2>4 DEF RosterIsGraded
  <2>6. QED
    BY <2>1, <2>5, OneRosterMoves
<1>5. QED
  BY <1>2, <1>3, <1>4

\* The reads that follow, and the answer, leave the roster alone.
LEMMA LateReadGrades ==
    ASSUME SolveInv, RostersAreGraded, NEW k \in Solves,
           \/ ReadOfferings(k) \/ ReadAssignments(k) \/ ReadOverrides(k) \/ ReadExclusions(k)
           \/ Answer(k)
    PROVE  RostersAreGraded'
<1>1. Shaped(solve[k])
  BY DEF SolveInv, RunsAreShaped
<1>2. CASE ReadOfferings(k)
  <2> DEFINE run == [solve[k] EXCEPT !.phase = "offerings", !.request.offerings = catalog]
  <2>1. solve' = [solve EXCEPT ![k] = run] /\ solve[k].phase = "roster"
    BY <1>2 DEF ReadOfferings, ReadingAt
  <2>2. run.phase = "offerings" /\ run.request.participants = solve[k].request.participants
    BY <1>1 DEF Shaped, SolveFields, RequestFields
  <2> HIDE DEF run
  <2>3. QED
    BY <2>1, <2>2, RosterIsSent DEF HoldsRoster
<1>3. CASE ReadAssignments(k)
  <2> DEFINE pins == [s \in pinned |-> placement[s]]
             run == [solve[k] EXCEPT !.phase = "assignments", !.request.pins = pins]
  <2>1. solve' = [solve EXCEPT ![k] = run] /\ solve[k].phase = "offerings"
    BY <1>3 DEF ReadAssignments, ReadingAt
  <2> HIDE DEF pins
  <2>2. run.phase = "assignments" /\ run.request.participants = solve[k].request.participants
    BY <1>1 DEF Shaped, SolveFields, RequestFields
  <2> HIDE DEF run
  <2>3. QED
    BY <2>1, <2>2, RosterIsSent DEF HoldsRoster
<1>4. CASE ReadOverrides(k)
  <2> DEFINE exceptions == [s \in DOMAIN solve[k].request.pins |->
                               IF placement[s] = solve[k].request.pins[s] THEN override[s]
                               ELSE NoOverrides]
             run == [solve[k] EXCEPT !.phase = "overrides", !.request.exceptions = exceptions]
  <2>1. solve' = [solve EXCEPT ![k] = run] /\ solve[k].phase = "assignments"
    BY <1>4 DEF ReadOverrides, ReadingAt
  <2> HIDE DEF exceptions
  <2>2. run.phase = "overrides" /\ run.request.participants = solve[k].request.participants
    BY <1>1 DEF Shaped, SolveFields, RequestFields
  <2> HIDE DEF run
  <2>3. QED
    BY <2>1, <2>2, RosterIsSent DEF HoldsRoster
<1>5. CASE ReadExclusions(k)
  <2> DEFINE run == [solve[k] EXCEPT !.phase = "compiled", !.request.exclusions = exclusion]
  <2>1. solve' = [solve EXCEPT ![k] = run] /\ solve[k].phase = "overrides"
    BY <1>5 DEF ReadExclusions, ReadingAt
  <2>2. run.phase = "compiled" /\ run.request.participants = solve[k].request.participants
    BY <1>1 DEF Shaped, SolveFields, RequestFields
  <2> HIDE DEF run
  <2>3. QED
    BY <2>1, <2>2, RosterIsSent DEF HoldsRoster
<1>6. CASE Answer(k)
  <2>1. PICK answer :
            solve' = [solve EXCEPT ![k].phase = "answered", ![k].answer = answer]
    BY <1>6 DEF Answer
  <2> DEFINE run == [solve[k] EXCEPT !.phase = "answered", !.answer = answer]
  <2>2. solve' = [solve EXCEPT ![k] = run] /\ solve[k].phase = "compiled"
    BY <1>6, <2>1 DEF Answer, ReadingAt
  <2>3. run.phase = "answered" /\ run.request = solve[k].request
    BY <1>1 DEF Shaped, SolveFields
  <2> HIDE DEF run
  <2>4. QED
    BY <2>2, <2>3, RosterIsSent DEF HoldsRoster
<1>7. QED
  BY <1>2, <1>3, <1>4, <1>5, <1>6

\* Whoever moves, rosters keep the grades of the students.
LEMMA RosterStep == SolveInv /\ RostersAreGraded /\ [SolveNext]_solveVars => RostersAreGraded'
<1> SUFFICES ASSUME SolveInv, RostersAreGraded, [SolveNext]_solveVars
             PROVE  RostersAreGraded'
  OBVIOUS
<1>1. ASSUME NEW k \in Solves, SolveStep(k)
      PROVE  RostersAreGraded'
  <2>1. RosterIsGraded(Idle)
    BY DEF RosterIsGraded, HoldsRoster, Idle
  <2>2. CASE RecordRun(k) \/ Fail(k)
    <3>1. solve' = [solve EXCEPT ![k] = Idle]
      BY <2>2 DEF RecordRun, Fail
    <3>2. QED
      BY <2>1, <3>1, OneRosterMoves
  <2>3. QED
    BY <1>1, <2>2, EarlyReadGrades, LateReadGrades DEF SolveStep
<1>2. CASE solve' = solve
  BY <1>2 DEF RostersAreGraded, RosterIsGraded
<1>3. QED
  BY <1>1, <1>2 DEF SolveNext, solveVars

\* A listed offering has a number of seats.
LEMMA CapacitiesAreNumbers ==
    ASSUME TypeOK, NEW o \in DOMAIN catalog
    PROVE  catalog[o].capacity \in Nat
<1>1. PICK listed \in SUBSET Offerings : catalog \in [listed -> Entry]
  BY DEF TypeOK
<1>2. catalog[o] \in Entry
  BY <1>1
<1>3. QED
  BY <1>2, DraftAssumption DEF Entry, DraftAssumption

\* Pins beyond the capacity raise the limit by themselves only: an occupant who
\* is not among them has a seat within the capacity.
LEMMA OthersSitWithinCapacity ==
    ASSUME NEW occupants, IsFiniteSet(occupants), NEW pins \in SUBSET occupants,
           NEW s \in occupants, s \notin pins, NEW capacity \in Nat,
           Cardinality(occupants) <=
               IF Cardinality(pins) > capacity THEN Cardinality(pins) ELSE capacity
    PROVE  Cardinality(occupants) <= capacity
<1>1. IsFiniteSet(pins) /\ Cardinality(pins) <= Cardinality(occupants)
      /\ (Cardinality(occupants) = Cardinality(pins) => occupants = pins)
  BY FS_Subset, Zenon
<1>2. Cardinality(occupants) # Cardinality(pins)
  BY <1>1
<1>3. Cardinality(occupants) \in Nat /\ Cardinality(pins) \in Nat
  BY <1>1, FS_CardinalityType
<1>4. QED
  BY <1>1, <1>2, <1>3

\* What the sidecar answers for a student without a pin: a placement in the grade
\* window, not excluded, and within the capacity, whatever the pins overfill.
LEMMA FeasiblePlacementsObey ==
    ASSUME NEW req, IsFiniteSet(Participants(req)), DOMAIN req.pins \subseteq Participants(req),
           NEW a \in Feasible(req), NEW s \in Participants(req), s \notin DOMAIN req.pins,
           req.offerings[a[s]].capacity \in Nat
    PROVE  /\ InWindow(req, s, a[s]) /\ ~Excluded(req, s, a[s])
           /\ ~(Cardinality({t \in Participants(req) : a[t] = a[s]})
                   > req.offerings[a[s]].capacity)
<1> DEFINE o == a[s]
           occupants == {t \in Participants(req) : a[t] = o}
           capacity == req.offerings[o].capacity
<1>1. /\ o \in Eligible(req, s)
      /\ \A p \in DOMAIN req.offerings :
             Cardinality({t \in Participants(req) : a[t] = p}) <= Seats(req, p)
      /\ \A t \in DOMAIN req.pins : a[t] = req.pins[t]
  BY DEF Feasible
<1>2. o \in DOMAIN req.offerings /\ InWindow(req, s, o) /\ ~Excluded(req, s, o)
  BY <1>1 DEF Eligible
<1>3. Cardinality(occupants) <= Seats(req, o)
  BY <1>1, <1>2
<1>4. PinnedTo(req, o) \subseteq occupants
  BY <1>1 DEF PinnedTo
<1>5. s \in occupants /\ s \notin PinnedTo(req, o) /\ occupants \subseteq Participants(req)
  BY DEF PinnedTo
<1>6. Cardinality(occupants) <= IF Cardinality(PinnedTo(req, o)) > capacity
                                THEN Cardinality(PinnedTo(req, o)) ELSE capacity
  BY <1>3 DEF Seats
<1>7. capacity \in Nat
  OBVIOUS
<1> HIDE DEF occupants, capacity
<1>8. IsFiniteSet(occupants)
  BY <1>5, FS_Subset, Zenon
<1>9. Cardinality(occupants) \in Nat
  BY <1>8, FS_CardinalityType
<1>10. Cardinality(occupants) <= capacity
  BY <1>4, <1>5, <1>6, <1>7, <1>8, OthersSitWithinCapacity
<1>11. ~(Cardinality(occupants) > capacity)
  BY <1>7, <1>9, <1>10
<1>12. QED
  BY <1>2, <1>11 DEF occupants, capacity

\* The step that ends an answered run and takes a revision is its application.
LEMMA ThisRunIsApplied ==
    ASSUME SolveInv, [SolveNext]_solveVars, NEW k \in Solves, Applied(k)
    PROVE  RecordRun(k) /\ ApplyRun(k)
<1>1. solve'[k] # solve[k] /\ revision' # revision
  BY DEF Applied
<1>2. PICK j \in Solves : SolveStep(j)
  BY <1>1 DEF SolveNext, solveVars
<1>3. RecordRun(j) /\ ApplyRun(j)
  <2>1. ~UNCHANGED vars
    BY <1>1, DraftIsKept
  <2>2. QED
    BY <1>2, <2>1, OnlyApplyingWrites
<1>4. solve' = [solve EXCEPT ![j] = Idle]
  BY <1>3 DEF RecordRun
<1>5. j = k
  BY <1>1, <1>4 DEF SolveInv, RunsAreShaped
<1>6. QED
  BY <1>3, <1>5

\* Where the offering is still what the run read, an unpinned student it places
\* there is in the grade window, not excluded, and within the capacity.
LEMMA AppliedRunObeys ==
    ASSUME SolveInv, RostersAreGraded, NEW k \in Solves, RecordRun(k), ApplyRun(k),
           NEW s \in Students, s \notin pinned, placement'[s] # Unplaced,
           catalog[placement'[s]] = solve[k].request.offerings[placement'[s]]
    PROVE  Broken(placement, s)' = {}
<1> DEFINE a == solve[k].answer.assignments
           req == solve[k].request
           o == a[s]
           occupants == {t \in Participants(req) : a[t] = o}
<1>1. /\ solve[k].phase = "answered" /\ solve[k].answer.status = "solved"
      /\ solve[k].basis = revision
      /\ \A t \in DOMAIN a : a[t] \in DOMAIN catalog
      /\ UNCHANGED <<exclusion, catalog>>
  <2>1. solve[k].phase = "answered"
    BY ONLY RecordRun(k) DEF RecordRun
  <2>2. ApplicationStatus(k) = "applied" /\ UNCHANGED <<exclusion, catalog>>
        /\ \A t \in DOMAIN a : a[t] \in DOMAIN catalog
    BY ONLY ApplyRun(k) DEF ApplyRun, catalogVars
  <2>3. QED
    BY ONLY <2>1, <2>2 DEF ApplicationStatus
<1>2. placement' = [t \in Students |-> IF t \in DOMAIN a THEN a[t] ELSE Unplaced]
  BY ONLY ApplyRun(k) DEF ApplyRun, ReplaceDraft
<1>3. Validated(req, a)
  BY <1>1 DEF RecordRun
<1>4. RunIsSound(solve[k]) /\ RosterIsGraded(solve[k]) /\ TypeOK
  BY DEF SolveInv, Consistent, RostersAreGraded
<1>5. DOMAIN req.pins = pinned /\ exclusion \subseteq req.exclusions /\ a \in Feasible(req)
  BY <1>1, <1>4 DEF RunIsSound, SnapshotIsCurrent, AnswerIsFeasible, HoldsPins, HoldsExclusions
<1>6. /\ Participants(req) = DOMAIN a /\ DOMAIN a \subseteq Students
      /\ DOMAIN req.pins \subseteq DOMAIN a
      /\ \A t \in DOMAIN a : req.participants[t] = Grade[t]
  BY <1>1, <1>3, <1>4 DEF Validated, Participants, RosterIsGraded, HoldsRoster
<1> HIDE DEF a, req
<1>7. \A t \in Students : placement'[t] = IF t \in DOMAIN a THEN a[t] ELSE Unplaced
  BY ONLY <1>2
<1>8. s \in DOMAIN a /\ placement'[s] = o
  BY <1>7
<1>9. o \in DOMAIN catalog /\ catalog[o] = req.offerings[o]
  BY <1>1, <1>8 DEF a, req
<1>10. req.offerings[o].capacity \in Nat
  BY <1>4, <1>9, CapacitiesAreNumbers
<1>11. IsFiniteSet(Participants(req))
  <2>1. Participants(req) \subseteq Students
    BY <1>6
  <2>2. QED
    BY <2>1, DraftAssumption, FS_Subset, Zenon DEF DraftAssumption
<1>12. Occupants(placement, placement[s])' = occupants
  <2>1. \A t \in Students : placement'[t] = o <=> t \in DOMAIN a /\ a[t] = o
    <3>1. o # Unplaced
      BY <1>8
    <3>2. QED
      BY ONLY <1>7, <3>1
  <2>2. QED
    BY <1>6, <1>8, <2>1 DEF Occupants
<1>13. /\ InWindow(req, s, o) /\ ~Excluded(req, s, o)
       /\ ~(Cardinality(occupants) > req.offerings[o].capacity)
  <2>1. s \in Participants(req) /\ s \notin DOMAIN req.pins
        /\ DOMAIN req.pins \subseteq Participants(req) /\ a \in Feasible(req)
    BY <1>5, <1>6, <1>8
  <2>2. QED
    BY ONLY <2>1, <1>10, <1>11, FeasiblePlacementsObey
<1> HIDE DEF o, occupants
<1>14. Grade[s] \in catalog[o].window /\ <<s, o>> \notin exclusion
  BY <1>5, <1>6, <1>8, <1>9, <1>13 DEF InWindow, Excluded
<1>15. QED
  BY <1>1, <1>8, <1>9, <1>12, <1>13, <1>14 DEF Broken

\* An applied run leaves every student it was free to place without a broken rule
\* (SPEC 16.3), in each offering that is still what the run has read: what a
\* CatalogOperation changed since is all that can break a rule.
RunsObeyTheCatalogTheyRead ==
    [][\A k \in Solves : Applied(k) =>
          \A s \in Students \ pinned :
              /\ placement'[s] # Unplaced
              /\ catalog[placement'[s]] = solve[k].request.offerings[placement'[s]]
              => Broken(placement, s)' = {}]_solveVars

\* However reads, edits and other runs interleave, an applied run obeys the hard
\* rules on every offering that has not changed since it was read, pins beyond
\* the capacity included (solve in server.py, applyAuthoritativeRun).
THEOREM RunsObeyHardRules == SolveSpec => RunsObeyTheCatalogTheyRead
<1> DEFINE Obeyed == \A k \in Solves : Applied(k) =>
               \A s \in Students \ pinned :
                   /\ placement'[s] # Unplaced
                   /\ catalog[placement'[s]] = solve[k].request.offerings[placement'[s]]
                   => Broken(placement, s)' = {}
<1>1. SolveInit => RostersAreGraded
  BY DEF SolveInit, RostersAreGraded, RosterIsGraded, HoldsRoster, Idle
<1>2. SolveInv /\ RostersAreGraded /\ [SolveNext]_solveVars => [Obeyed]_solveVars
  <2> SUFFICES ASSUME SolveInv, RostersAreGraded, [SolveNext]_solveVars
               PROVE  Obeyed
    OBVIOUS
  <2>1. \A k \in Solves : Applied(k) => RecordRun(k) /\ ApplyRun(k)
    BY ThisRunIsApplied
  <2>2. QED
    BY <2>1, AppliedRunObeys
<1>3. QED
  BY <1>1, <1>2, SolvesAreSound, RosterStep, PTL DEF SolveSpec, RunsObeyTheCatalogTheyRead

\* Runs are checked by the same trigger as edits are.
LEMMA AppliedRunsAreGuarded ==
    ASSUME NEW k, ApplyRun(k)
    PROVE  UNCHANGED rosterVars /\ NonParticipantGuard(placement')
BY DEF ApplyRun, ReplaceDraft

\* With solves as without, a non-participant is placed only while the declaration
\* is being committed: no roster that a run has read before, however old, puts one
\* into the draft (prevent_assignment_for_non_participant aborts the run).
THEOREM RunsOvertakeOnlyOpenDeclarations ==
    SolveSpec /\ PlacementsWaitForDeclarations => []NonParticipantsHoldNoPlacement
<1>1. DeclaredHoldNoPlacement /\ [SolveNext]_solveVars
      /\ [Placed(placement') \cap declaring = {}]_vars => DeclaredHoldNoPlacement'
  <2> SUFFICES ASSUME DeclaredHoldNoPlacement, [SolveNext]_solveVars,
                      [Placed(placement') \cap declaring = {}]_vars
               PROVE  DeclaredHoldNoPlacement'
    OBVIOUS
  <2>1. CASE UNCHANGED vars
    BY <2>1 DEF vars, draftVars, rosterVars, DeclaredHoldNoPlacement, Placed
  <2>2. ASSUME NEW k \in Solves, SolveStep(k), ~UNCHANGED vars
        PROVE  DeclaredHoldNoPlacement'
    <3>1. ApplyRun(k)
      BY <2>2, OnlyApplyingWrites
    <3>2. UNCHANGED rosterVars /\ NonParticipantGuard(placement')
      BY <3>1, AppliedRunsAreGuarded
    <3>3. QED
      BY <2>2, <3>2, GuardedPlacementsKeepDeclared
  <2>3. ASSUME Next, ~UNCHANGED vars
        PROVE  DeclaredHoldNoPlacement'
    BY <2>3, DeclaredStep
  <2>4. QED
    BY <2>1, <2>2, <2>3 DEF SolveNext, solveVars
<1>2. SolveInit => DeclaredHoldNoPlacement
  BY DeclaredInitially DEF SolveInit
<1>3. DeclaredHoldNoPlacement => NonParticipantsHoldNoPlacement
  BY DEF DeclaredHoldNoPlacement, NonParticipantsHoldNoPlacement
<1>4. QED
  BY <1>1, <1>2, <1>3, PTL DEF SolveSpec, PlacementsWaitForDeclarations

--------------------------------------------------------------------------------
(* Solves are atomic: SolveRuns implements AtomicSolve.                    *)

\* How the draft run k has read relates to the draft, as the refinement sees it.
BasisOf(k) ==
    IF solve[k].phase \notin {"compiled", "answered"} THEN "none"
    ELSE IF solve[k].basis = revision THEN "current" ELSE "stale"

Basis == [k \in Solves |-> BasisOf(k)]

\* The draft is well formed in the abstract specification's sense.
LEMMA DraftIsWellFormed ==
    ASSUME Consistent
    PROVE  Atomic!Draft
BY DEF Consistent, TypeOK, Atomic!Draft

\* When a revision is taken, the runs that go on are out of date.
LEMMA NumberedStepOutdates ==
    ASSUME SolveInv, revision' = revision + 1, NEW k \in Solves, solve'[k] = solve[k]
    PROVE  BasisOf(k)' = IF BasisOf(k) = "current" THEN "stale" ELSE BasisOf(k)
<1>1. solve[k].basis # revision'
  BY DraftAssumption DEF SolveInv, Consistent, TypeOK, RunIsSound, DraftAssumption
<1>2. QED
  BY <1>1 DEF BasisOf

\* A step that leaves the draft alone changes one run's basis at most.
LEMMA OneBasisMoves ==
    ASSUME SolveInv, NEW k \in Solves, UNCHANGED vars, NEW run, solve' = [solve EXCEPT ![k] = run]
    PROVE  /\ UNCHANGED <<placement, pinned, override>>
           /\ Basis' = [Basis EXCEPT ![k] = BasisOf(k)']
<1>1. revision' = revision /\ UNCHANGED <<placement, pinned, override>>
  BY DraftIsKept
<1>2. \A j \in Solves : j # k => BasisOf(j)' = BasisOf(j)
  BY <1>1 DEF BasisOf
<1>3. QED
  BY <1>1, <1>2 DEF Basis

\* Reading the last statement is the instant in which the abstract run reads.
LEMMA SnapshotIsRead ==
    ASSUME SolveInv, NEW k \in Solves, ReadExclusions(k)
    PROVE  Atomic!Read(k)
<1> DEFINE run == [solve[k] EXCEPT !.phase = "compiled", !.request.exclusions = exclusion]
<1>1. /\ UNCHANGED vars /\ solve[k].phase = "overrides"
      /\ solve' = [solve EXCEPT ![k] = run] /\ Shaped(solve[k])
  BY DEF ReadExclusions, ReadingAt, SolveInv, RunsAreShaped
<1>2. run.phase = "compiled"
  BY <1>1 DEF Shaped, SolveFields
<1>3. solve'[k] = run
  BY <1>1 DEF SolveInv, RunsAreShaped
<1> HIDE DEF run
<1>4. /\ UNCHANGED <<placement, pinned, override>>
      /\ Basis' = [Basis EXCEPT ![k] = BasisOf(k)']
  BY <1>1, OneBasisMoves
<1>5. BasisOf(k) = "none" /\ BasisOf(k)' \in {"current", "stale"}
  BY <1>1, <1>2, <1>3 DEF BasisOf
<1>6. QED
  BY <1>4, <1>5 DEF Atomic!Read, Basis, BasisOf

\* The statements before it, and the sidecar's answer, are not seen.
LEMMA ReadingIsUnseen ==
    ASSUME SolveInv, NEW k \in Solves,
           \/ ReadSession(k) \/ ReadMemberships(k) \/ ReadNonParticipations(k)
           \/ ReadOfferings(k) \/ ReadAssignments(k) \/ ReadOverrides(k) \/ Answer(k)
    PROVE  UNCHANGED <<placement, pinned, override, Basis>>
<1>1. UNCHANGED vars /\ Shaped(solve[k]) /\ DOMAIN solve = Solves
  BY DEF ReadSession, ReadMemberships, ReadNonParticipations, ReadOfferings, ReadAssignments,
         ReadOverrides, Answer, ReadingAt, SolveInv, RunsAreShaped
<1>2. /\ \A j \in Solves : j # k => solve'[j] = solve[j]
      /\ \/ /\ solve'[k].phase \notin {"compiled", "answered"}
            /\ solve[k].phase \notin {"compiled", "answered"}
         \/ /\ solve'[k].phase = "answered" /\ solve[k].phase = "compiled"
            /\ solve'[k].basis = solve[k].basis
  <2>1. CASE ReadSession(k)
    BY <1>1, <2>1 DEF ReadSession, ReadingAt, Shaped, SolveFields
  <2>2. CASE ReadMemberships(k)
    BY <1>1, <2>2 DEF ReadMemberships, ReadingAt, Shaped, SolveFields
  <2>3. CASE ReadNonParticipations(k)
    BY <1>1, <2>3 DEF ReadNonParticipations, ReadingAt, Shaped, SolveFields
  <2>4. CASE ReadOfferings(k)
    BY <1>1, <2>4 DEF ReadOfferings, ReadingAt, Shaped, SolveFields
  <2>5. CASE ReadAssignments(k)
    BY <1>1, <2>5 DEF ReadAssignments, ReadingAt, Shaped, SolveFields
  <2>6. CASE ReadOverrides(k)
    BY <1>1, <2>6 DEF ReadOverrides, ReadingAt, Shaped, SolveFields
  <2>7. CASE Answer(k)
    <3>1. PICK answer : solve' = [solve EXCEPT ![k].phase = "answered", ![k].answer = answer]
      BY <2>7 DEF Answer
    <3>2. solve[k].phase = "compiled"
      BY <2>7 DEF Answer, ReadingAt
    <3>3. solve'[k].phase = "answered" /\ solve'[k].basis = solve[k].basis
      BY <1>1, <3>1 DEF Shaped, SolveFields
    <3>4. \A j \in Solves : j # k => solve'[j] = solve[j]
      BY <1>1, <3>1
    <3>5. QED
      BY <3>2, <3>3, <3>4
  <2>8. QED
    BY <2>1, <2>2, <2>3, <2>4, <2>5, <2>6, <2>7
<1>3. revision' = revision /\ UNCHANGED <<placement, pinned, override>>
  BY <1>1, DraftIsKept
<1>4. \A j \in Solves : BasisOf(j)' = BasisOf(j)
  BY <1>2, <1>3 DEF BasisOf
<1>5. QED
  BY <1>3, <1>4 DEF Basis

\* A run that ends without being applied is discarded, or had read nothing yet.
LEMMA EndIsDiscarded ==
    ASSUME SolveInv, NEW k \in Solves, UNCHANGED vars, solve' = [solve EXCEPT ![k] = Idle]
    PROVE  Atomic!Discard(k) \/ UNCHANGED <<placement, pinned, override, Basis>>
<1>1. /\ UNCHANGED <<placement, pinned, override>>
      /\ Basis' = [Basis EXCEPT ![k] = BasisOf(k)']
  BY OneBasisMoves
<1>2. solve'[k] = Idle
  BY DEF SolveInv, RunsAreShaped
<1>3. BasisOf(k)' = "none"
  BY <1>2, IdleIsShaped DEF BasisOf
<1>4. CASE BasisOf(k) = "none"
  BY <1>1, <1>3, <1>4 DEF Basis
<1>5. CASE BasisOf(k) # "none"
  BY <1>1, <1>3, <1>5 DEF Atomic!Discard, Basis, BasisOf
<1>6. QED
  BY <1>4, <1>5

\* An applied run replaces the very draft it has read, and no other run that has
\* read it may be applied any more.
LEMMA RunIsApplied ==
    ASSUME SolveInv, NEW k \in Solves, RecordRun(k), ApplyRun(k)
    PROVE  Atomic!Apply(k)
<1>1. /\ solve[k].phase = "answered" /\ solve[k].basis = revision
      /\ Validated(solve[k].request, solve[k].answer.assignments)
      /\ solve' = [solve EXCEPT ![k] = Idle]
  BY DEF RecordRun, ApplyRun, ApplicationStatus
<1>2. PICK p : AppliedTo(p)
  BY <1>1, ApplyRunApplies
<1>3. /\ placement' \in [Students -> Offerings \cup {Unplaced}]
      /\ \A s \in pinned : placement'[s] = placement[s]
      /\ UNCHANGED <<pinned, override>> /\ revision' = revision + 1
  BY <1>2 DEF AppliedTo
<1>4. solve'[k] = Idle /\ \A j \in Solves : j # k => solve'[j] = solve[j]
  BY <1>1 DEF SolveInv, RunsAreShaped
<1>5. BasisOf(k) = "current" /\ BasisOf(k)' = "none"
  BY <1>1, <1>4, IdleIsShaped DEF BasisOf
<1>6. \A j \in Solves : j # k =>
          BasisOf(j)' = IF BasisOf(j) = "current" THEN "stale" ELSE BasisOf(j)
  BY <1>3, <1>4, NumberedStepOutdates
<1>7. Basis' = [[j \in Solves |-> IF Basis[j] = "current" THEN "stale" ELSE Basis[j]]
                   EXCEPT ![k] = "none"]
  BY <1>5, <1>6 DEF Basis
<1>8. QED
  BY <1>3, <1>5, <1>7 DEF Atomic!Apply, Atomic!Outdated, Basis, BasisOf

\* An edit by anybody else outdates every run that has read the draft, or is not seen.
LEMMA EditIsEdit ==
    ASSUME SolveInv, Next, solve' = solve
    PROVE  Atomic!Edit \/ UNCHANGED <<placement, pinned, override, Basis>>
<1>1. CASE RosterOperation \/ CatalogOperation
  <2>1. UNCHANGED <<revision, placement, pinned, override>>
    BY <1>1, OtherTransactionsKeepTheDraft DEF SolveInv
  <2>2. QED
    BY <2>1 DEF Basis, BasisOf
<1>2. ASSUME NEW expected \in 0..MaxRevision, ManualOperation(expected)
      PROVE  Atomic!Edit
  <2>1. revision' = revision + 1
    BY <1>2, ManualOperationsAreNumbered
  <2>2. Consistent'
    BY ConsistentStep DEF SolveInv
  <2>3. Atomic!Draft'
    BY <2>2 DEF Consistent, TypeOK, Atomic!Draft
  <2>4. \A k \in Solves :
            BasisOf(k)' = IF BasisOf(k) = "current" THEN "stale" ELSE BasisOf(k)
    BY <2>1, NumberedStepOutdates
  <2>5. Basis' = [k \in Solves |-> IF Basis[k] = "current" THEN "stale" ELSE Basis[k]]
    BY <2>4 DEF Basis
  <2>6. QED
    BY <2>3, <2>5 DEF Atomic!Edit, Atomic!Outdated, Basis, BasisOf
<1>3. QED
  BY <1>1, <1>2 DEF Next

\* Every step of the detailed specification is one of the abstract one or unseen.
LEMMA StepIsAtomic ==
    ASSUME SolveInv, [SolveNext]_solveVars
    PROVE  Atomic!AtomicNext \/ UNCHANGED <<placement, pinned, override, Basis>>
<1>1. ASSUME NEW k \in Solves, RecordRun(k)
      PROVE  Atomic!AtomicNext \/ UNCHANGED <<placement, pinned, override, Basis>>
  <2>1. CASE ApplyRun(k)
    BY <1>1, <2>1, RunIsApplied DEF Atomic!AtomicNext
  <2>2. CASE UNCHANGED vars
    BY <1>1, <2>2, EndIsDiscarded DEF RecordRun, Atomic!AtomicNext
  <2>3. QED
    BY <1>1, <2>1, <2>2 DEF RecordRun
<1>2. ASSUME NEW k \in Solves, SolveStep(k)
      PROVE  Atomic!AtomicNext \/ UNCHANGED <<placement, pinned, override, Basis>>
  <2>1. CASE ReadExclusions(k)
    BY <2>1, SnapshotIsRead DEF Atomic!AtomicNext
  <2>2. CASE Fail(k)
    BY <2>2, EndIsDiscarded DEF Fail, Atomic!AtomicNext
  <2>3. QED
    BY <1>1, <1>2, <2>1, <2>2, ReadingIsUnseen DEF SolveStep
<1>3. CASE Next /\ UNCHANGED solve
  BY <1>3, EditIsEdit DEF Atomic!AtomicNext
<1>4. CASE UNCHANGED solveVars
  <2>1. UNCHANGED <<revision, placement, pinned, override>> /\ solve' = solve
    BY <1>4, DraftIsKept DEF solveVars
  <2>2. QED
    BY <2>1 DEF Basis, BasisOf
<1>5. QED
  BY <1>2, <1>3, <1>4 DEF SolveNext

\* With any number of solves and editors, runs behave as if each read the draft in
\* one instant and was then applied to that very draft, pins and overrides kept,
\* or not at all.
THEOREM SolvesImplementAtomicSolve == SolveSpec => SolvesAreAtomic
<1>1. SolveInit => Atomic!AtomicInit
  <2> SUFFICES ASSUME SolveInit
               PROVE  Atomic!AtomicInit
    OBVIOUS
  <2>1. Atomic!Draft
    BY SolveInvInit, DraftIsWellFormed DEF SolveInv
  <2>2. \A k \in Solves : solve[k].phase = "idle"
    BY IdleIsShaped DEF SolveInit
  <2>3. QED
    BY <2>1, <2>2 DEF Atomic!AtomicInit
<1>2. SolveInv /\ [SolveNext]_solveVars => [Atomic!AtomicNext]_(Atomic!atomicVars)
  BY StepIsAtomic DEF Atomic!atomicVars, Basis, BasisOf
<1>3. QED
  BY <1>1, <1>2, SolvesAreSound, PTL DEF SolveSpec, SolvesAreAtomic, Atomic!AtomicSpec

================================================================================
