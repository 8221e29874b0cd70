--------------------------- MODULE RankedVoting_proofs ---------------------------
(***************************************************************************)
(* Ranked choices for every roster, catalog, depth and number of ballots:  *)
(* what the lock on the session row protects is still true when a ballot   *)
(* commits, and no later configuration disagrees with the ballots cast.    *)
(* Then the lifecycle of the session those ballots are cast in, and the    *)
(* solves that read them: nothing published is stale, voting opens by a    *)
(* transition alone, and each module implements the one it extends.        *)
(***************************************************************************)
EXTENDS RankedVoting, SolveRuns_proofs

\* States in which the depth of the ballot is still free to change.
Early == {"planning", "catalog_published"}

Fields == {"phase", "voter", "ranks"}

RowsAreShaped ==
    /\ DOMAIN ballots = Ballots
    /\ \A b \in Ballots : DOMAIN ballots[b] = Fields
    /\ DOMAIN ranked = {"depth", "deadline"}

WithinDepth(ranks) ==
    \A o \in RankedIn(ranks) :
        /\ ranks[o] <= ranked.depth
        /\ \A p \in RankedIn(ranks) \ {o} : ranks[p] # ranks[o]

\* What the lock holds still from the moment a submission has it.
LockedInTheOpen ==
    \A b \in Ballots : ballots[b].phase \in {"locked", "composed"} =>
        state = "voting_open" /\ declaring = {}

\* What was judged stays judged: nobody opts out and no class is added.
ComposedForTheSession ==
    \A b \in Ballots : ballots[b].phase = "composed" =>
        /\ ballots[b].voter \cap absent = {}
        /\ DOMAIN catalog \subseteq DOMAIN ballots[b].ranks

\* A ballot pins the depth, since the session never returns to its catalog.
BallotsPinTheDepth ==
    \A b \in Ballots : ballots[b].phase \in {"composed", "cast"} =>
        state \notin Early /\ WithinDepth(ballots[b].ranks)

VotingInv ==
    /\ RowsAreShaped
    /\ LockedInTheOpen
    /\ ComposedForTheSession
    /\ BallotsPinTheDepth

-----------------------------------------------------------------------------
(* What any step of the session keeps.                                     *)

\* A transition leaves the depth alone and never leads back to the catalog.
LEMMA TransitionKeepsDepth ==
    ASSUME DOMAIN ranked = {"depth", "deadline"}, NEW t, ApplyTransition(t)
    PROVE  /\ DOMAIN ranked' = {"depth", "deadline"}
           /\ ranked'.depth = ranked.depth
           /\ state \notin Early => state' \notin Early
<1>1. ranked' = ranked \/ ranked' = [ranked EXCEPT !.deadline = t.deadline]
  BY DEF ApplyTransition
<1>2. DOMAIN ranked' = {"depth", "deadline"} /\ ranked'.depth = ranked.depth
  BY <1>1
<1>3. state \notin Early => state' \notin Early
  BY DEF ApplyTransition, Permitted, LegalSessionTransitions, Early
<1> QED BY <1>2, <1>3

\* Once voting has been opened the configuration keeps its depth.
LEMMA UpdateKeepsDepth ==
    ASSUME DOMAIN ranked = {"depth", "deadline"}, NEW d,
           NEW config \in Configurations \cup {ranked}, UpdateSession(d, config)
    PROVE  /\ DOMAIN ranked' = {"depth", "deadline"}
           /\ state \notin Early => ranked'.depth = ranked.depth
           /\ state' = state
<1>1. DOMAIN config = {"depth", "deadline"}
  BY DEF Configurations
<1>2. state \notin Early => config.depth = ranked.depth
  BY DEF UpdateSession, ConfigurationAllowed, Early
<1> QED BY <1>1, <1>2 DEF UpdateSession

\* The depth changes in the early states alone, and no session returns to them.
LEMMA SessionKeepsDepth ==
    ASSUME DOMAIN ranked = {"depth", "deadline"}, SessionNext
    PROVE  /\ DOMAIN ranked' = {"depth", "deadline"}
           /\ state \notin Early => ranked'.depth = ranked.depth /\ state' \notin Early
<1>1. CASE TransitionStep
  <2>1. CASE \E t \in Transition : ConfirmedTransition(t)
    BY <2>1, TransitionKeepsDepth DEF ConfirmedTransition
  <2>2. CASE \E r \in Requests : \E t \in Transition : PreviewForward(r, t)
    BY <2>2 DEF PreviewForward
  <2>3. CASE \E r \in Requests : ApplyForward(r)
    BY <2>3, TransitionKeepsDepth DEF ApplyForward
  <2>4. CASE \E r \in Requests : DropRequest(r)
    BY <2>4 DEF DropRequest
  <2> QED BY <1>1, <2>1, <2>2, <2>3, <2>4 DEF TransitionStep
<1>2. CASE EditStep
  <2>1. CASE \E d \in SUBSET Dates, config \in Configurations \cup {ranked} : UpdateSession(d, config)
    BY <2>1, UpdateKeepsDepth
  <2>2. CASE \E e \in Editors :
                \/ \E edit \in Edits : CheckEdit(e, edit)
                \/ CatalogEdit(e)
                \/ WriteMeetingDate(e)
                \/ DropEdit(e)
    BY <2>2 DEF CheckEdit, CatalogEdit, WriteMeetingDate, DropEdit, EndEdit
  <2> QED BY <1>2, <2>1, <2>2 DEF EditStep
<1>3. CASE DraftWork
  BY <1>3 DEF DraftWork
<1>4. CASE Tick
  BY <1>4 DEF Tick
<1> QED BY <1>1, <1>2, <1>3, <1>4 DEF SessionNext

\* Manual operations and runs leave the roster alone.
LEMMA OperationsKeepTheRoster ==
    ASSUME (\E expected \in 0..MaxRevision : ManualOperation(expected))
           \/ CatalogOperation \/ \E k \in Solves : SolveStep(k)
    PROVE  absent' = absent
<1>1. CASE \E expected \in 0..MaxRevision : ManualOperation(expected)
  BY <1>1, ManualOperationsAreNumbered DEF rosterVars
<1>2. CASE CatalogOperation
  BY <1>2 DEF CatalogOperation, CreateOffering, UpdateOffering, DeleteOffering, rosterVars
<1>3. CASE \E k \in Solves : SolveStep(k)
  <2>1. PICK k \in Solves : SolveStep(k)
    BY <1>3
  <2>2. CASE ApplyRun(k)
    BY <2>2 DEF ApplyRun, rosterVars
  <2>3. CASE UNCHANGED vars
    BY <2>3, DraftIsKept
  <2> QED BY <2>1, <2>2, <2>3, OnlyApplyingWrites
<1> QED BY <1>1, <1>2, <1>3

\* A student is absent only after a declaration that was seen in progress.
LEMMA AbsenceWasDeclared ==
    ASSUME SessionNext
    PROVE  absent' \subseteq absent \cup declaring
<1>1. CASE TransitionStep
  BY <1>1 DEF TransitionStep, ConfirmedTransition, ApplyForward, ApplyTransition,
       PreviewForward, DropRequest, solveVars, vars, rosterVars
<1>2. CASE EditStep
  <2>1. CASE \E e \in Editors : CatalogEdit(e)
    BY <2>1, OperationsKeepTheRoster DEF CatalogEdit
  <2>2. CASE ~\E e \in Editors : CatalogEdit(e)
    BY <1>2, <2>2 DEF EditStep, UpdateSession, CheckEdit, WriteMeetingDate, DropEdit,
         solveVars, vars, rosterVars
  <2> QED BY <2>1, <2>2
<1>3. CASE DraftWork
  <2>1. CASE RosterOperation
    BY <2>1 DEF RosterOperation, InsertNonParticipation, CommitNonParticipation,
         DeleteNonParticipation, AddMembership, DeleteMembership
  <2>2. CASE ~RosterOperation
    BY <1>3, <2>2, OperationsKeepTheRoster DEF DraftWork
  <2> QED BY <2>1, <2>2
<1>4. CASE Tick
  BY <1>4 DEF Tick, solveVars, vars, rosterVars
<1> QED BY <1>1, <1>2, <1>3, <1>4 DEF SessionNext

\* What a step of somebody else can do while a submission holds the session.
LEMMA LockedSession ==
    ASSUME SessionStep, SessionLocked
    PROVE  /\ state' = state
           /\ declaring' \subseteq declaring
           /\ DOMAIN catalog' \subseteq DOMAIN catalog
<1>1. ~NeedsTheSessionRow
  BY DEF SessionStep
<1>2. <<state, stale, ranked, revision>>' = <<state, stale, ranked, revision>>
  BY <1>1 DEF NeedsTheSessionRow
<1>3. declaring' \ declaring = {} /\ DOMAIN catalog' \ DOMAIN catalog = {}
  BY <1>1 DEF NeedsTheSessionRow
<1> QED BY <1>2, <1>3
-----------------------------------------------------------------------------
(* The invariant.                                                          *)

\* At the start no ballot was begun.
LEMMA VotingInitially ==
    ASSUME VotingInit
    PROVE  VotingInv
<1>1. ballots = [b \in Ballots |-> NoBallot]
  BY DEF VotingInit
<1>2. DOMAIN ranked = {"depth", "deadline"}
  BY DEF VotingInit, SessionInit, NotConfigured
<1>3. \A b \in Ballots : DOMAIN ballots[b] = Fields /\ ballots[b].phase = "none"
  BY <1>1 DEF NoBallot, Fields
<1> QED BY <1>1, <1>2, <1>3 DEF VotingInv, RowsAreShaped, LockedInTheOpen,
            ComposedForTheSession, BallotsPinTheDepth

\* A step of somebody else takes nothing away from the ballots.
LEMMA SessionStepKeepsInv ==
    ASSUME VotingInv, SessionStep
    PROVE  VotingInv'
<1>1. ballots' = ballots /\ SessionNext /\ DOMAIN ranked = {"depth", "deadline"}
  BY DEF SessionStep, VotingInv, RowsAreShaped
<1>2. RowsAreShaped'
  BY <1>1, SessionKeepsDepth DEF VotingInv, RowsAreShaped
<1>3. ASSUME NEW b \in Ballots, ballots[b].phase \in {"locked", "composed"}
      PROVE  /\ state' = "voting_open" /\ declaring' = {}
             /\ DOMAIN catalog' \subseteq DOMAIN catalog
             /\ absent' \subseteq absent
  <2>1. SessionLocked
    BY <1>3 DEF SessionLocked
  <2>2. state = "voting_open" /\ declaring = {}
    BY <1>3 DEF VotingInv, LockedInTheOpen
  <2> QED BY <1>1, <2>1, <2>2, LockedSession, AbsenceWasDeclared
<1>4. LockedInTheOpen' /\ ComposedForTheSession'
  BY <1>1, <1>3 DEF VotingInv, LockedInTheOpen, ComposedForTheSession
<1>5. BallotsPinTheDepth'
  <2> SUFFICES ASSUME NEW b \in Ballots, ballots[b].phase \in {"composed", "cast"}
               PROVE  state' \notin Early /\ WithinDepth(ballots[b].ranks)'
    BY <1>1 DEF BallotsPinTheDepth
  <2>1. state \notin Early /\ WithinDepth(ballots[b].ranks)
    BY DEF VotingInv, BallotsPinTheDepth
  <2>2. ranked'.depth = ranked.depth /\ state' \notin Early
    BY <1>1, <2>1, SessionKeepsDepth
  <2> QED BY <1>1, <2>1, <2>2 DEF WithinDepth, RankedIn
<1> QED BY <1>2, <1>4, <1>5 DEF VotingInv

\* What a submission does leaves the session and the other ballots alone.
LEMMA BallotStepKeepsOthers ==
    ASSUME VotingInv, NEW b \in Ballots, UNCHANGED sessionVars,
           NEW row, DOMAIN row = Fields,
           ballots' = [ballots EXCEPT ![b] = row],
           row.phase \in {"locked", "composed"} => state = "voting_open" /\ declaring = {},
           row.phase = "composed" =>
               row.voter \cap absent = {} /\ DOMAIN catalog \subseteq DOMAIN row.ranks,
           row.phase \in {"composed", "cast"} => state \notin Early /\ WithinDepth(row.ranks)
    PROVE  VotingInv'
<1>1. /\ DOMAIN ballots' = Ballots
      /\ \A c \in Ballots : ballots'[c] = IF c = b THEN row ELSE ballots[c]
  BY DEF VotingInv, RowsAreShaped
<1>2. /\ state' = state /\ declaring' = declaring /\ absent' = absent
      /\ catalog' = catalog /\ ranked' = ranked
  BY DEF sessionVars, lifecycleVars, solveVars, vars, rosterVars, catalogVars
<1>3. RowsAreShaped'
  BY <1>1, <1>2 DEF VotingInv, RowsAreShaped
<1>4. LockedInTheOpen' /\ ComposedForTheSession'
  BY <1>1, <1>2 DEF VotingInv, LockedInTheOpen, ComposedForTheSession
<1>5. BallotsPinTheDepth'
  BY <1>1, <1>2 DEF VotingInv, BallotsPinTheDepth, WithinDepth, RankedIn
<1> QED BY <1>3, <1>4, <1>5 DEF VotingInv

\* A submission that changes its phase alone keeps what it holds.
LEMMA PhaseChange ==
    ASSUME VotingInv, NEW b \in Ballots, NEW to
    PROVE  /\ DOMAIN [ballots[b] EXCEPT !.phase = to] = Fields
           /\ [ballots[b] EXCEPT !.phase = to].phase = to
           /\ [ballots[b] EXCEPT !.phase = to].voter = ballots[b].voter
           /\ [ballots[b] EXCEPT !.phase = to].ranks = ballots[b].ranks
<1>1. DOMAIN ballots[b] = Fields
  BY DEF VotingInv, RowsAreShaped
<1> QED BY <1>1 DEF Fields

\* Every statement of a submission keeps the invariant.
LEMMA SubmissionKeepsInv ==
    ASSUME VotingInv, NEW b \in Ballots, SubmissionStep(b)
    PROVE  VotingInv'
<1>1. ASSUME NEW s \in Students, BeginSubmission(b, s)
      PROVE  VotingInv'
  <2> DEFINE row == [phase |-> "begun", voter |-> {s}, ranks |-> <<>>]
  <2>1. /\ DOMAIN row = Fields /\ row.phase = "begun"
        /\ ballots' = [ballots EXCEPT ![b] = row]
        /\ UNCHANGED sessionVars
    BY <1>1 DEF BeginSubmission, Fields
  <2> HIDE DEF row
  <2> QED BY <2>1, BallotStepKeepsOthers
<1>2. CASE LockSession(b)
  <2>1. ballots' = [ballots EXCEPT ![b].phase = "locked"]
    BY <1>2 DEF LockSession, BallotStep
  <2> DEFINE row == [ballots[b] EXCEPT !.phase = "locked"]
  <2>2. ballots' = [ballots EXCEPT ![b] = row] /\ DOMAIN row = Fields /\ row.phase = "locked"
    BY <2>1, PhaseChange
  <2>3. state = "voting_open" /\ declaring = {} /\ UNCHANGED sessionVars
    BY <1>2 DEF LockSession, BallotStep
  <2> HIDE DEF row
  <2> QED BY <2>2, <2>3, BallotStepKeepsOthers
<1>3. ASSUME NEW responses, ComposeResponses(b, responses)
      PROVE  VotingInv'
  <2>1. PICK s \in ballots[b].voter :
            LET ranks == completeHiddenRankedChoiceResponses(s, responses)
            IN  /\ ballots[b].phase = "locked"
                /\ s \in member \ absent
                /\ ValidateRankedChoiceResponseSetWithDepth(ranks)
                /\ ballots' = [ballots EXCEPT ![b] =
                       [phase |-> "composed", voter |-> {s}, ranks |-> ranks]]
                /\ UNCHANGED <<sessionVars, choices>>
    BY <1>3 DEF ComposeResponses
  <2> DEFINE ranks == completeHiddenRankedChoiceResponses(s, responses)
             row == [phase |-> "composed", voter |-> {s}, ranks |-> ranks]
  <2> HIDE DEF ranks
  <2>2. ValidateRankedChoiceResponseSetWithDepth(ranks)
    BY <2>1 DEF ranks
  <2>3. DOMAIN catalog \subseteq DOMAIN ranks /\ WithinDepth(ranks)
    BY <2>2 DEF ValidateRankedChoiceResponseSetWithDepth, WithinDepth
  <2>4. state = "voting_open" /\ declaring = {} /\ state \notin Early
    BY <2>1 DEF VotingInv, LockedInTheOpen, Early
  <2>5. /\ DOMAIN row = Fields /\ row.phase = "composed"
        /\ row.voter = {s} /\ row.ranks = ranks
    BY DEF Fields
  <2>6. ballots' = [ballots EXCEPT ![b] = row] /\ UNCHANGED sessionVars
    BY <2>1 DEF ranks
  <2>7. row.voter \cap absent = {}
    BY <2>1, <2>5
  <2> HIDE DEF row
  <2> QED BY <2>3, <2>4, <2>5, <2>6, <2>7, BallotStepKeepsOthers
<1>4. CASE CreateRankedChoiceSubmission(b)
  <2>1. /\ ballots' = [ballots EXCEPT ![b].phase = "cast"]
        /\ ballots[b].phase = "composed" /\ UNCHANGED sessionVars
    BY <1>4 DEF CreateRankedChoiceSubmission, BallotStep
  <2> DEFINE row == [ballots[b] EXCEPT !.phase = "cast"]
  <2>2. /\ ballots' = [ballots EXCEPT ![b] = row]
        /\ DOMAIN row = Fields /\ row.phase = "cast" /\ row.ranks = ballots[b].ranks
    BY <2>1, PhaseChange
  <2>3. state \notin Early /\ WithinDepth(row.ranks)
    BY <2>1, <2>2 DEF VotingInv, BallotsPinTheDepth
  <2> HIDE DEF row
  <2> QED BY <2>1, <2>2, <2>3, BallotStepKeepsOthers
<1>5. CASE AbandonSubmission(b)
  <2> DEFINE row == [phase |-> "abandoned", voter |-> {}, ranks |-> <<>>]
  <2>1. /\ DOMAIN row = Fields /\ row.phase = "abandoned"
        /\ ballots' = [ballots EXCEPT ![b] = row]
        /\ UNCHANGED sessionVars
    BY <1>5 DEF AbandonSubmission, Fields
  <2> HIDE DEF row
  <2> QED BY <2>1, BallotStepKeepsOthers
<1> QED BY <1>1, <1>2, <1>3, <1>4, <1>5 DEF SubmissionStep
\* Reading the answers changes nothing the invariant speaks of.
LEMMA ReadingKeepsInv ==
    ASSUME VotingInv, UNCHANGED <<sessionVars, ballots>>
    PROVE  VotingInv'
<1>1. /\ state' = state /\ declaring' = declaring /\ absent' = absent
      /\ catalog' = catalog /\ ranked' = ranked /\ ballots' = ballots
  BY DEF sessionVars, lifecycleVars, solveVars, vars, rosterVars, catalogVars
<1> QED BY <1>1 DEF VotingInv, RowsAreShaped, LockedInTheOpen, ComposedForTheSession,
            BallotsPinTheDepth, WithinDepth, RankedIn

\* So does every step of sessions and submissions together.
LEMMA VotingStepKeepsInv ==
    ASSUME VotingInv, [VotingNext]_votingVars
    PROVE  VotingInv'
<1>1. CASE SessionStep
  BY <1>1, SessionStepKeepsInv
<1>2. ASSUME NEW b \in Ballots, SubmissionStep(b)
      PROVE  VotingInv'
  BY <1>2, SubmissionKeepsInv
<1>3. CASE \E k \in Solves : ListCurrentSessionResultAnswers(k)
  BY <1>3, ReadingKeepsInv DEF ListCurrentSessionResultAnswers
<1>4. CASE UNCHANGED votingVars
  BY <1>4, ReadingKeepsInv DEF votingVars
<1> QED BY <1>1, <1>2, <1>3, <1>4 DEF VotingNext

-----------------------------------------------------------------------------
(* The theorems.                                                           *)

\* From the lock to the commit of a submission the session stays open, nobody
\* opts out and no class is added, and the depth is pinned from then on.
THEOREM VotingInvariant == VotingSpec => []VotingInv
<1>1. VotingInit => VotingInv
  BY VotingInitially
<1>2. VotingInv /\ [VotingNext]_votingVars => VotingInv'
  BY VotingStepKeepsInv
<1> QED BY <1>1, <1>2, PTL DEF VotingSpec

\* No configuration edit and no reopening leaves a ballot with a rank beyond the
\* depth of the session (validateRankedChoiceUpdate freezes it with the voting).
THEOREM DepthIsPinned == VotingSpec => []BallotsStayWithinTheDepth
<1>1. VotingInv => BallotsStayWithinTheDepth
  BY DEF VotingInv, BallotsPinTheDepth, BallotsStayWithinTheDepth, WithinDepth, Cast
<1> QED BY <1>1, VotingInvariant, PTL

\* A step that casts a ballot is the insertion of a composed one.
LEMMA CastingIsCreation ==
    ASSUME VotingInv, VotingNext, NEW b \in Ballots, ~Cast(b), Cast(b)'
    PROVE  CreateRankedChoiceSubmission(b)
<1>1. ballots' # ballots
  BY DEF Cast
<1>2. PICK c \in Ballots : SubmissionStep(c)
  BY <1>1 DEF VotingNext, SessionStep, ListCurrentSessionResultAnswers
<1>3. DOMAIN ballots = Ballots /\ DOMAIN ballots[c] = Fields
  BY DEF VotingInv, RowsAreShaped
<1>4. CASE CreateRankedChoiceSubmission(c)
  <2>1. ballots' = [ballots EXCEPT ![c].phase = "cast"]
    BY <1>4 DEF CreateRankedChoiceSubmission, BallotStep
  <2>2. \A d \in Ballots : d # c => ballots'[d] = ballots[d]
    BY <1>3, <2>1
  <2> QED BY <1>4, <2>2 DEF Cast
<1>5. CASE ~CreateRankedChoiceSubmission(c)
  <2>1. \A d \in Ballots : ballots'[d] = ballots[d] \/ ballots'[d].phase # "cast"
    <3>1. ASSUME NEW s \in Students, BeginSubmission(c, s)
          PROVE  \A d \in Ballots : ballots'[d] = ballots[d] \/ ballots'[d].phase # "cast"
      BY <1>3, <3>1 DEF BeginSubmission
    <3>2. CASE LockSession(c)
      <4>1. ballots' = [ballots EXCEPT ![c] = [ballots[c] EXCEPT !.phase = "locked"]]
        BY <3>2 DEF LockSession, BallotStep
      <4>2. [ballots[c] EXCEPT !.phase = "locked"].phase = "locked"
        BY PhaseChange
      <4> QED BY <1>3, <4>1, <4>2
    <3>3. ASSUME NEW responses, ComposeResponses(c, responses)
          PROVE  \A d \in Ballots : ballots'[d] = ballots[d] \/ ballots'[d].phase # "cast"
      BY <1>3, <3>3 DEF ComposeResponses
    <3>4. CASE AbandonSubmission(c)
      BY <1>3, <3>4 DEF AbandonSubmission
    <3> QED BY <1>2, <1>5, <3>1, <3>2, <3>3, <3>4 DEF SubmissionStep
  <2> QED BY <2>1 DEF Cast
<1> QED BY <1>4, <1>5

\* However the office edits catalog, roster and session meanwhile, the ballot that
\* commits fits the session it commits to.
THEOREM BallotsFit == VotingSpec => BallotsFitTheSession
<1> DEFINE Fits == \A b \in Ballots : ~Cast(b) /\ Cast(b)' =>
               /\ state' = "voting_open"
               /\ ballots'[b].voter \subseteq (member \ absent)'
               /\ DOMAIN ballots'[b].ranks = DOMAIN catalog'
<1>1. VotingInv /\ [VotingNext]_votingVars => [Fits]_votingVars
  <2> SUFFICES ASSUME VotingInv, VotingNext, NEW b \in Ballots, ~Cast(b), Cast(b)'
               PROVE  /\ state' = "voting_open"
                      /\ ballots'[b].voter \subseteq (member \ absent)'
                      /\ DOMAIN ballots'[b].ranks = DOMAIN catalog'
    OBVIOUS
  <2>1. /\ ballots[b].phase = "composed"
        /\ ballots[b].voter \subseteq member
        /\ DOMAIN ballots[b].ranks \subseteq DOMAIN catalog
        /\ ballots' = [ballots EXCEPT ![b] = [ballots[b] EXCEPT !.phase = "cast"]]
        /\ UNCHANGED sessionVars
    BY CastingIsCreation DEF CreateRankedChoiceSubmission, BallotStep
  <2>2. /\ state' = state /\ member' = member /\ absent' = absent /\ catalog' = catalog
    BY <2>1 DEF sessionVars, lifecycleVars, solveVars, vars, rosterVars, catalogVars
  <2>3. /\ state = "voting_open"
        /\ ballots[b].voter \cap absent = {}
        /\ DOMAIN catalog \subseteq DOMAIN ballots[b].ranks
    BY <2>1 DEF VotingInv, LockedInTheOpen, ComposedForTheSession
  <2>4. ballots'[b] = [ballots[b] EXCEPT !.phase = "cast"]
    BY <2>1 DEF VotingInv, RowsAreShaped
  <2>5. ballots'[b].voter = ballots[b].voter /\ ballots'[b].ranks = ballots[b].ranks
    BY <2>4, PhaseChange
  <2> QED BY <2>1, <2>2, <2>3, <2>5
<1>2. VotingSpec => [][Fits]_votingVars
  BY <1>1, VotingInvariant, PTL DEF VotingSpec
<1> QED BY <1>2 DEF BallotsFitTheSession
-----------------------------------------------------------------------------
(* What a solve reads.                                                     *)

SolvesAreShaped == RunsAreShaped /\ DOMAIN choices = Solves

\* The classes of a ballot cannot be deleted any more.
BallotsNameTheCatalog ==
    \A b \in Ballots : Cast(b) => DOMAIN ballots[b].ranks \subseteq DOMAIN catalog

AnswersComeFirst ==
    \A k \in Solves : solve[k].phase \in {"idle", "session", "members"} => choices[k] = {Unread}

\* What has been read is in ballots, which stay.
AnswersAreFromBallots ==
    \A k \in Solves : solve[k].phase = "roster" /\ choices[k] # {Unread} =>
        \A o \in choices[k] : \E b \in Ballots : Cast(b) /\ o \in DOMAIN ballots[b].ranks

ReadingInv ==
    /\ SolvesAreShaped
    /\ BallotsNameTheCatalog
    /\ AnswersComeFirst
    /\ AnswersAreFromBallots
    /\ ChoicesNameListedOfferings

\* What a step may do to a solve in or before the reads that matter here.
Moves(k) ==
    \/ solve'[k] = solve[k]
    \/ solve'[k].phase \notin {"session", "members", "roster", "offerings"}
    \/ solve'[k].phase = "session" /\ solve[k].phase = "idle"
    \/ solve'[k].phase = "members" /\ solve[k].phase = "session"
    \/ solve'[k].phase = "roster" /\ solve[k].phase = "members"
    \/ /\ solve'[k].phase = "offerings" /\ solve[k].phase = "roster"
       /\ solve'[k].request.offerings = catalog /\ catalog' = catalog

\* One step of one solve.
LEMMA SolveMoves ==
    ASSUME SolvesAreShaped, NEW k \in Solves, SolveStep(k)
    PROVE  /\ DOMAIN solve' = Solves
           /\ \A j \in Solves : Shaped(solve'[j]) /\ (solve'[j] = solve[j] \/ (j = k /\ Moves(k)))
<1>1. /\ DOMAIN solve = Solves
      /\ \A j \in Solves : Shaped(solve[j])
  BY DEF SolvesAreShaped, RunsAreShaped
<1>2. CASE ReadSession(k)
  BY <1>1, <1>2 DEF ReadSession, ReadingAt, Shaped, Moves, SolveFields, RequestFields, vars, catalogVars
<1>3. CASE ReadMemberships(k)
  BY <1>1, <1>3 DEF ReadMemberships, ReadingAt, Shaped, Moves, SolveFields, RequestFields, vars, catalogVars
<1>4. CASE ReadNonParticipations(k)
  <2> DEFINE seen == [s \in solve[k].member \ absent |-> Grade[s]]
             run == [solve[k] EXCEPT !.phase = "roster", !.member = {},
                                     !.request.participants = seen]
  <2>1. solve' = [solve EXCEPT ![k] = run] /\ solve[k].phase = "members"
    BY <1>4 DEF ReadNonParticipations, ReadingAt
  <2>2. Shaped(run) /\ run.phase = "roster"
    BY <1>1 DEF Shaped, SolveFields, RequestFields
  <2> HIDE DEF run
  <2>3. DOMAIN solve' = Solves /\ solve'[k] = run /\ \A j \in Solves \ {k} : solve'[j] = solve[j]
    BY <1>1, <2>1
  <2>4. Moves(k)
    BY <2>1, <2>2, <2>3 DEF Moves
  <2> QED BY <1>1, <2>2, <2>3, <2>4
<1>5. CASE ReadOfferings(k)
  BY <1>1, <1>5 DEF ReadOfferings, ReadingAt, Shaped, Moves, SolveFields, RequestFields, vars, catalogVars
<1>6. CASE ReadAssignments(k)
  BY <1>1, <1>6 DEF ReadAssignments, ReadingAt, Shaped, Moves, SolveFields, RequestFields, vars, catalogVars
<1>7. CASE ReadOverrides(k)
  BY <1>1, <1>7 DEF ReadOverrides, ReadingAt, Shaped, Moves, SolveFields, RequestFields, vars, catalogVars
<1>8. CASE ReadExclusions(k)
  BY <1>1, <1>8 DEF ReadExclusions, ReadingAt, Shaped, Moves, SolveFields, RequestFields, vars, catalogVars
<1>9. CASE Answer(k)
  BY <1>1, <1>9 DEF Answer, ReadingAt, Shaped, Moves, SolveFields, RequestFields, vars, catalogVars
<1>10. CASE RecordRun(k)
  BY <1>1, <1>10, IdleIsShaped DEF RecordRun, Moves
<1>11. CASE Fail(k)
  BY <1>1, <1>11, IdleIsShaped DEF Fail, Moves
<1> QED BY <1>2, <1>3, <1>4, <1>5, <1>6, <1>7, <1>8, <1>9, <1>10, <1>11 DEF SolveStep
\* The rest of the session does not touch the solves.
LEMMA SessionMoves ==
    ASSUME SolvesAreShaped, SessionNext
    PROVE  /\ DOMAIN solve' = Solves
           /\ \A k \in Solves : Shaped(solve'[k]) /\ Moves(k)
<1>1. \A k \in Solves : Shaped(solve[k])
  BY DEF SolvesAreShaped, RunsAreShaped
<1>2. CASE solve' = solve
  BY <1>1, <1>2 DEF Moves, SolvesAreShaped, RunsAreShaped
<1>3. CASE \E k \in Solves : SolveStep(k)
  <2>1. PICK k \in Solves : SolveStep(k)
    BY <1>3
  <2> QED BY <2>1, SolveMoves DEF Moves
<1>4. solve' = solve \/ \E k \in Solves : SolveStep(k)
  <2>1. CASE TransitionStep
    BY <2>1 DEF TransitionStep, ConfirmedTransition, ApplyForward, ApplyTransition,
         PreviewForward, DropRequest, solveVars
  <2>2. CASE EditStep
    BY <2>2 DEF EditStep, UpdateSession, CheckEdit, CatalogEdit, WriteMeetingDate, DropEdit,
         solveVars
  <2>3. CASE DraftWork
    BY <2>3 DEF DraftWork
  <2>4. CASE Tick
    BY <2>4 DEF Tick, solveVars
  <2> QED BY <2>1, <2>2, <2>3, <2>4 DEF SessionNext
<1> QED BY <1>2, <1>3, <1>4

\* At the start no solve has read any choices.
LEMMA ReadingInitially ==
    ASSUME VotingInit
    PROVE  ReadingInv
<1>1. solve = [k \in Solves |-> Idle] /\ choices = [k \in Solves |-> {Unread}]
  BY DEF VotingInit, SessionInit, SolveInit
<1>2. SolvesAreShaped /\ \A k \in Solves : solve[k].phase = "idle" /\ choices[k] = {Unread}
  BY <1>1, IdleIsShaped DEF SolvesAreShaped, RunsAreShaped
<1>3. \A b \in Ballots : ~Cast(b)
  BY DEF VotingInit, NoBallot, Cast
<1> QED BY <1>2, <1>3 DEF ReadingInv, BallotsNameTheCatalog, AnswersComeFirst,
            AnswersAreFromBallots, ChoicesNameListedOfferings

\* A step of the session or the solver drops the choices of the runs that end.
LEMMA SessionStepKeepsReading ==
    ASSUME ReadingInv, SessionStep
    PROVE  ReadingInv'
<1>1. /\ ballots' = ballots /\ SessionNext /\ BallotsRestrict
      /\ \A k \in Solves : solve'[k].phase = "offerings" => choices[k] # {Unread}
      /\ choices' = [k \in Solves |-> IF solve'[k].phase = "idle" THEN {Unread} ELSE choices[k]]
  BY DEF SessionStep
<1>2. /\ DOMAIN solve' = Solves
      /\ \A k \in Solves : Shaped(solve'[k]) /\ Moves(k)
  BY <1>1, SessionMoves DEF ReadingInv
<1>3. SolvesAreShaped'
  BY <1>1, <1>2 DEF SolvesAreShaped, RunsAreShaped
<1>4. BallotsNameTheCatalog'
  BY <1>1 DEF BallotsRestrict, BallotsNameTheCatalog, Cast
<1>5. AnswersComeFirst'
  BY <1>1, <1>2 DEF ReadingInv, AnswersComeFirst, Moves
<1>6. AnswersAreFromBallots'
  BY <1>1, <1>2 DEF ReadingInv, AnswersComeFirst, AnswersAreFromBallots, Moves, Cast
<1>7. ChoicesNameListedOfferings'
  <2> SUFFICES ASSUME NEW k \in Solves, solve'[k].phase = "offerings"
               PROVE  choices'[k] \subseteq DOMAIN solve'[k].request.offerings
    BY DEF ChoicesNameListedOfferings
  <2>1. choices'[k] = choices[k] /\ choices[k] # {Unread}
    BY <1>1
  <2>2. CASE solve'[k] = solve[k]
    BY <2>1, <2>2 DEF ReadingInv, ChoicesNameListedOfferings
  <2>3. CASE solve'[k] # solve[k]
    <3>1. solve[k].phase = "roster" /\ solve'[k].request.offerings = catalog
      BY <1>2, <2>3 DEF Moves
    <3>2. \A o \in choices[k] : \E b \in Ballots : Cast(b) /\ o \in DOMAIN ballots[b].ranks
      BY <2>1, <3>1 DEF ReadingInv, AnswersAreFromBallots
    <3>3. \A o \in choices[k] : o \in DOMAIN catalog
      BY <3>2 DEF ReadingInv, BallotsNameTheCatalog
    <3> QED BY <2>1, <3>1, <3>3
  <2> QED BY <2>2, <2>3
<1> QED BY <1>3, <1>4, <1>5, <1>6, <1>7 DEF ReadingInv

\* The ballots that are cast stay, and one that joins them names the catalog.
LEMMA SubmissionKeepsReading ==
    ASSUME VotingInv, ReadingInv, NEW b \in Ballots, SubmissionStep(b)
    PROVE  ReadingInv'
<1>1. UNCHANGED sessionVars /\ choices' = choices
  BY DEF SubmissionStep, BeginSubmission, LockSession, ComposeResponses,
     CreateRankedChoiceSubmission, AbandonSubmission, BallotStep
<1>2. solve' = solve /\ catalog' = catalog
  BY <1>1 DEF sessionVars, solveVars, vars, catalogVars
<1>3. \A c \in Ballots : Cast(c) => ballots'[c] = ballots[c]
  <2>1. DOMAIN ballots = Ballots
    BY DEF VotingInv, RowsAreShaped
  <2>2. ballots[b].phase # "cast"
    BY DEF SubmissionStep, BeginSubmission, LockSession, ComposeResponses,
       CreateRankedChoiceSubmission, AbandonSubmission, BallotStep
  <2>3. \A c \in Ballots : c # b => ballots'[c] = ballots[c]
    BY <2>1 DEF SubmissionStep, BeginSubmission, LockSession, ComposeResponses,
       CreateRankedChoiceSubmission, AbandonSubmission, BallotStep
  <2> QED BY <2>2, <2>3 DEF Cast
<1>4. ASSUME NEW c \in Ballots, ~Cast(c), Cast(c)'
      PROVE  DOMAIN ballots'[c].ranks \subseteq DOMAIN catalog
  <2>1. CreateRankedChoiceSubmission(c)
    BY <1>4, CastingIsCreation DEF VotingNext
  <2>2. /\ DOMAIN ballots[c].ranks \subseteq DOMAIN catalog
        /\ ballots' = [ballots EXCEPT ![c] = [ballots[c] EXCEPT !.phase = "cast"]]
    BY <2>1 DEF CreateRankedChoiceSubmission, BallotStep
  <2>3. ballots'[c] = [ballots[c] EXCEPT !.phase = "cast"]
    BY <2>2 DEF VotingInv, RowsAreShaped
  <2> QED BY <2>2, <2>3, PhaseChange
<1>5. BallotsNameTheCatalog'
  BY <1>2, <1>3, <1>4 DEF ReadingInv, BallotsNameTheCatalog, Cast
<1>6. AnswersAreFromBallots'
  BY <1>1, <1>2, <1>3 DEF ReadingInv, AnswersAreFromBallots, Cast
<1> QED BY <1>1, <1>2, <1>5, <1>6 DEF ReadingInv, SolvesAreShaped, RunsAreShaped, AnswersComeFirst,
            ChoicesNameListedOfferings

\* A solve reads the latest ballots of those who take part.
LEMMA AnswersKeepReading ==
    ASSUME ReadingInv, NEW k \in Solves, ListCurrentSessionResultAnswers(k)
    PROVE  ReadingInv'
<1> DEFINE current == {b \in Ballots : Latest(b) /\ ballots[b].voter \subseteq Participants(solve[k].request)}
           read == UNION {RankedIn(ballots[b].ranks) : b \in current}
<1>1. /\ UNCHANGED <<sessionVars, ballots>> /\ solve[k].phase = "roster"
      /\ choices' = [choices EXCEPT ![k] = read]
  BY DEF ListCurrentSessionResultAnswers
<1>2. solve' = solve /\ catalog' = catalog /\ ballots' = ballots
  BY <1>1 DEF sessionVars, solveVars, vars, catalogVars
<1>3. \A o \in read : \E b \in Ballots : Cast(b) /\ o \in DOMAIN ballots[b].ranks
  BY DEF RankedIn, Latest
<1> HIDE DEF read
<1>4. /\ DOMAIN choices' = Solves
      /\ \A j \in Solves : choices'[j] = IF j = k THEN read ELSE choices[j]
  BY <1>1 DEF ReadingInv, SolvesAreShaped
<1>5. AnswersAreFromBallots'
  BY <1>2, <1>3, <1>4 DEF ReadingInv, AnswersAreFromBallots, Cast
<1> QED BY <1>1, <1>2, <1>4, <1>5 DEF ReadingInv, SolvesAreShaped, RunsAreShaped, BallotsNameTheCatalog,
            AnswersComeFirst, ChoicesNameListedOfferings, Cast

\* A solve never sends the sidecar a ranked choice of a class it does not list,
\* although it reads the choices first and the catalog may change in between.
THEOREM ChoicesAreListed == VotingSpec => []ChoicesNameListedOfferings
<1>1. VotingInit => ReadingInv
  BY ReadingInitially
<1>2. VotingInv /\ ReadingInv /\ [VotingNext]_votingVars => ReadingInv'
  <2> SUFFICES ASSUME VotingInv, ReadingInv, [VotingNext]_votingVars
               PROVE  ReadingInv'
    OBVIOUS
  <2>1. CASE SessionStep
    BY <2>1, SessionStepKeepsReading
  <2>2. ASSUME NEW b \in Ballots, SubmissionStep(b)
        PROVE  ReadingInv'
    BY <2>2, SubmissionKeepsReading
  <2>3. ASSUME NEW k \in Solves, ListCurrentSessionResultAnswers(k)
        PROVE  ReadingInv'
    BY <2>3, AnswersKeepReading
  <2>4. CASE UNCHANGED votingVars
    <3>1. solve' = solve /\ catalog' = catalog /\ ballots' = ballots /\ choices' = choices
      BY <2>4 DEF votingVars, sessionVars, solveVars, vars, catalogVars
    <3> QED BY <3>1 DEF ReadingInv, SolvesAreShaped, RunsAreShaped, BallotsNameTheCatalog, AnswersComeFirst,
                AnswersAreFromBallots, ChoicesNameListedOfferings, Cast
  <2> QED BY <2>1, <2>2, <2>3, <2>4 DEF VotingNext
<1>3. ReadingInv => ChoicesNameListedOfferings
  BY DEF ReadingInv
<1> QED BY <1>1, <1>2, <1>3, VotingInvariant, PTL DEF VotingSpec

-----------------------------------------------------------------------------
(* The lifecycle of the session around its draft.                          *)

\* Once reopened, a draft is out of date until it is solved again; it is marked so
\* all that time, and longer.
ReopenedDraftsAreMarked == outdated => stale

SessionInv ==
    /\ LifecycleTypeOK
    /\ ReopenedDraftsAreMarked
    /\ PublishedDraftsAreCurrent
    /\ OpenVotingHasABallot

\* A ballot has at least one rank.
LEMMA DepthsArePositive ==
    ASSUME NEW d \in RankDepths
    PROVE  d > 0
<1>1. RankDepths \subseteq Nat \ {0}
  BY LifecycleAssumption DEF LifecycleAssumption
<1>2. QED
  BY <1>1

\* A configuration is a record with a depth and a deadline, and so is its absence.
LEMMA ConfigurationShape ==
    ASSUME NEW config \in Configurations \cup {NotConfigured}
    PROVE  /\ DOMAIN config = {"depth", "deadline"}
           /\ config # NotConfigured => config.depth \in RankDepths /\ config.depth > 0
           /\ config.depth > 0 => config # NotConfigured
<1>1. CASE config = NotConfigured
  BY <1>1 DEF NotConfigured
<1>2. CASE config \in Configurations
  <2>1. DOMAIN config = {"depth", "deadline"} /\ config.depth \in RankDepths
    BY <1>2 DEF Configurations
  <2>2. config.depth > 0
    BY <2>1, DepthsArePositive
  <2>3. NotConfigured.depth = 0
    BY DEF NotConfigured
  <2>4. QED
    BY <2>1, <2>2, <2>3
<1>3. QED
  BY <1>1, <1>2

\* Reopening sets a deadline after now and leaves the depth alone.
LEMMA ReopenedConfiguration ==
    ASSUME NEW config \in Configurations, NEW deadline \in 1..MaxTime + 1
    PROVE  [config EXCEPT !.deadline = deadline] \in Configurations
BY DEF Configurations

\* A transition leads from one state to another one, and to one of the states.
LEMMA TransitionsMove ==
    ASSUME NEW from, NEW to, <<from, to>> \in LegalSessionTransitions
    PROVE  from # to /\ to \in States /\ from \in States
BY DEF LegalSessionTransitions, States

\* What a transition does to the session row.
LEMMA TransitionEffect ==
    ASSUME SessionInv, NEW t \in Transition, ApplyTransition(t)
    PROVE  /\ state' = t.to /\ state' # state /\ state' \in States
           /\ ranked' \in Configurations \cup {NotConfigured}
           /\ ranked'.depth = ranked.depth
           /\ state' = "voting_open" => ranked'.depth > 0
           /\ stale' = (stale \/ MarksDraftStale(t.to))
           /\ outdated' = (outdated \/ (IsBackward(state, t.to) /\ state \in {"assigning", "published"}))
           /\ UNCHANGED <<solveVars, dates, now, editing>>
<1>1. /\ <<state, t.to>> \in LegalSessionTransitions /\ state' = t.to
      /\ LifecycleTypeOK
  BY DEF ApplyTransition, Permitted, SessionInv
<1>2. state # t.to /\ t.to \in States
  BY <1>1, TransitionsMove
<1>3. ranked \in Configurations \cup {NotConfigured} /\ now \in 0..MaxTime
      /\ DOMAIN ranked = {"depth", "deadline"}
  BY <1>1, ConfigurationShape DEF LifecycleTypeOK
<1>4. CASE <<state, t.to>> = <<"voting_closed", "voting_open">>
  <2>1. /\ ranked # NotConfigured /\ t.deadline > now
        /\ ranked' = [ranked EXCEPT !.deadline = t.deadline]
    BY <1>4 DEF ApplyTransition, Permitted
  <2>2. t.deadline \in 1..MaxTime + 1
    BY <1>3, <2>1, LifecycleAssumption DEF Transition, Deadlines, LifecycleAssumption
  <2>3. ranked' \in Configurations
    BY <1>3, <2>1, <2>2, ReopenedConfiguration
  <2>4. ranked'.depth = ranked.depth
    BY <1>3, <2>1
  <2>5. ranked'.depth > 0
    BY <1>3, <2>1, <2>4, ConfigurationShape
  <2>6. QED
    BY <1>1, <1>2, <2>3, <2>4, <2>5 DEF ApplyTransition
<1>5. CASE <<state, t.to>> # <<"voting_closed", "voting_open">>
  <2>1. ranked' = ranked
    BY <1>5 DEF ApplyTransition
  <2>2. t.to = "voting_open" => ranked.depth > 0
    <3> SUFFICES ASSUME t.to = "voting_open"
                 PROVE  ranked.depth > 0
      OBVIOUS
    <3>1. state = "catalog_published"
      BY <1>1, <1>5 DEF LegalSessionTransitions
    <3>2. ranked # NotConfigured
      BY <3>1 DEF ApplyTransition, Permitted
    <3>3. QED
      BY <1>3, <3>2, ConfigurationShape
  <2>3. QED
    BY <1>1, <1>2, <1>3, <2>1, <2>2 DEF ApplyTransition
<1>6. QED
  BY <1>4, <1>5

\* A confirmed transition to the next state, or back, keeps the session well-
\* formed.
LEMMA TransitionKeepsSession ==
    ASSUME SessionInv, NEW t \in Transition, ApplyTransition(t),
           request' \in [Requests -> Transition]
    PROVE  SessionInv'
<1>1. /\ state' = t.to /\ state' # state /\ state' \in States
      /\ ranked' \in Configurations \cup {NotConfigured}
      /\ state' = "voting_open" => ranked'.depth > 0
      /\ stale' = (stale \/ MarksDraftStale(t.to))
      /\ outdated' = (outdated \/ (IsBackward(state, t.to) /\ state \in {"assigning", "published"}))
      /\ UNCHANGED <<dates, now, editing>>
  BY TransitionEffect
<1>2. LifecycleTypeOK
  BY DEF SessionInv
<1>3. stale' \in BOOLEAN /\ outdated' \in BOOLEAN
  BY <1>1, <1>2 DEF LifecycleTypeOK, MarksDraftStale, IsBackward
<1>4. LifecycleTypeOK'
  BY <1>1, <1>2, <1>3 DEF LifecycleTypeOK
<1>5. ReopenedDraftsAreMarked'
  BY <1>1 DEF SessionInv, ReopenedDraftsAreMarked, MarksDraftStale
<1>6. PublishedDraftsAreCurrent'
  <2> SUFFICES ASSUME t.to \in {"published", "complete"}
               PROVE  ~outdated'
    BY <1>1 DEF PublishedDraftsAreCurrent
  <2>1. ~IsBackward(state, t.to)
    BY DEF IsBackward
  <2>2. <<state, t.to>> \in LegalSessionTransitions
    BY DEF ApplyTransition, Permitted
  <2>3. CASE t.to = "published"
    <3>1. state = "assigning"
      BY <2>2, <2>3 DEF LegalSessionTransitions
    <3>2. ~stale
      BY <2>3, <3>1 DEF ApplyTransition, Permitted
    <3>3. QED
      BY <1>1, <2>1, <3>2 DEF SessionInv, ReopenedDraftsAreMarked
  <2>4. CASE t.to = "complete"
    <3>1. state = "published"
      BY <2>2, <2>4 DEF LegalSessionTransitions
    <3>2. QED
      BY <1>1, <2>1, <3>1 DEF SessionInv, PublishedDraftsAreCurrent
  <2>5. QED
    BY <2>3, <2>4
<1>7. OpenVotingHasABallot'
  BY <1>1 DEF OpenVotingHasABallot
<1>8. QED
  BY <1>4, <1>5, <1>6, <1>7 DEF SessionInv

\* A request, a check or a date that changes neither the stage, the marks of the
\* draft nor the configuration.
LEMMA OtherStepKeepsSession ==
    ASSUME SessionInv, UNCHANGED <<state, stale, ranked>>,
           outdated' \in BOOLEAN, outdated' => outdated,
           dates' \subseteq Dates, now' \in 0..MaxTime, request' \in [Requests -> Transition],
           editing' \in [Editors -> Edits \cup {NoEdit}]
    PROVE  SessionInv'
BY DEF SessionInv, LifecycleTypeOK, ReopenedDraftsAreMarked, PublishedDraftsAreCurrent,
       OpenVotingHasABallot

\* An update of the session is free in its configuration only before voting.
LEMMA UpdateKeepsSession ==
    ASSUME SessionInv, NEW d \in SUBSET Dates, NEW config \in Configurations \cup {ranked},
           UpdateSession(d, config)
    PROVE  SessionInv'
<1>1. LifecycleTypeOK
  BY DEF SessionInv
<1>2. config \in Configurations \cup {NotConfigured}
  BY <1>1 DEF LifecycleTypeOK
<1>3. editing' \in [Editors -> Edits \cup {NoEdit}]
  BY <1>1 DEF UpdateSession, LifecycleTypeOK
<1>4. LifecycleTypeOK'
  BY <1>1, <1>2, <1>3 DEF UpdateSession, LifecycleTypeOK
<1>5. config # ranked => config.depth > 0
  <2> SUFFICES ASSUME config # ranked
               PROVE  config.depth > 0
    OBVIOUS
  <2>1. config \in Configurations
    OBVIOUS
  <2>2. config.depth \in RankDepths
    BY <2>1 DEF Configurations
  <2>3. QED
    BY <2>2, DepthsArePositive
<1>6. OpenVotingHasABallot'
  BY <1>5 DEF UpdateSession, SessionInv, OpenVotingHasABallot
<1>7. QED
  BY <1>4, <1>6 DEF UpdateSession, SessionInv, ReopenedDraftsAreMarked, PublishedDraftsAreCurrent

\* Every step of the session keeps its invariant.
LEMMA SessionInvStep == SessionInv /\ [SessionNext]_sessionVars => SessionInv'
<1> SUFFICES ASSUME SessionInv, [SessionNext]_sessionVars
             PROVE  SessionInv'
  OBVIOUS
<1>1. /\ outdated \in BOOLEAN /\ dates \subseteq Dates /\ now \in 0..MaxTime
      /\ request \in [Requests -> Transition] /\ editing \in [Editors -> Edits \cup {NoEdit}]
  BY DEF SessionInv, LifecycleTypeOK
<1>2. NoRequest \in Transition
  BY LifecycleAssumption DEF NoRequest, Transition, States, Deadlines, LifecycleAssumption
<1>3. CASE TransitionStep
  <2>1. ASSUME NEW t \in Transition, ConfirmedTransition(t)
        PROVE  SessionInv'
    BY <1>1, <2>1, TransitionKeepsSession DEF ConfirmedTransition
  <2>2. ASSUME NEW r \in Requests, NEW t \in Transition, PreviewForward(r, t)
        PROVE  SessionInv'
    BY <1>1, <2>2, OtherStepKeepsSession DEF PreviewForward
  <2>3. ASSUME NEW r \in Requests, ApplyForward(r)
        PROVE  SessionInv'
    BY <1>1, <1>2, <2>3, TransitionKeepsSession DEF ApplyForward
  <2>4. ASSUME NEW r \in Requests, DropRequest(r)
        PROVE  SessionInv'
    BY <1>1, <1>2, <2>4, OtherStepKeepsSession DEF DropRequest
  <2>5. QED
    BY <1>3, <2>1, <2>2, <2>3, <2>4 DEF TransitionStep
<1>4. CASE EditStep
  <2>1. ASSUME NEW e \in Editors, NEW edit \in Edits, CheckEdit(e, edit)
        PROVE  SessionInv'
    BY <1>1, <2>1, OtherStepKeepsSession DEF CheckEdit
  <2>2. ASSUME NEW e \in Editors, NEW kind, EndEdit(e, kind), dates' \subseteq Dates
        PROVE  SessionInv'
    BY <1>1, <2>2, OtherStepKeepsSession DEF EndEdit
  <2>3. ASSUME NEW e \in Editors, WriteMeetingDate(e)
        PROVE  SessionInv'
    <3>1. editing[e].to \subseteq Dates
      <4>1. editing[e] \in Edits \cup {NoEdit} /\ editing[e].kind = "dates"
        BY <1>1, <2>3 DEF WriteMeetingDate, EndEdit
      <4>2. editing[e] \in Edits
        BY <4>1 DEF NoEdit
      <4>3. QED
        BY <4>2 DEF Edits
    <3>2. QED
      BY <1>1, <2>2, <2>3, <3>1 DEF WriteMeetingDate
  <2>4. ASSUME NEW e \in Editors, CatalogEdit(e) \/ DropEdit(e)
        PROVE  SessionInv'
    BY <1>1, <2>2, <2>4 DEF CatalogEdit, DropEdit
  <2>5. QED
    BY <1>4, <2>1, <2>3, <2>4, UpdateKeepsSession DEF EditStep
<1>5. CASE DraftWork
  <2>1. UNCHANGED <<state, stale, ranked, dates, now, request, editing>>
    BY <1>5 DEF DraftWork
  <2>2. outdated' \in BOOLEAN /\ (outdated' => outdated)
    BY <1>1, <1>5 DEF DraftWork
  <2>3. QED
    BY <1>1, <2>1, <2>2, OtherStepKeepsSession
<1>6. CASE Tick
  <2>1. now' \in 0..MaxTime
    BY <1>1, <1>6, LifecycleAssumption DEF Tick, LifecycleAssumption
  <2>2. QED
    BY <1>1, <1>6, <2>1, OtherStepKeepsSession DEF Tick
<1>7. CASE UNCHANGED sessionVars
  BY <1>1, <1>7, OtherStepKeepsSession DEF sessionVars, lifecycleVars
<1>8. QED
  BY <1>3, <1>4, <1>5, <1>6, <1>7 DEF SessionNext

\* At the start the session is being planned.
LEMMA SessionInvInit == SessionInit => SessionInv
<1> SUFFICES ASSUME SessionInit
             PROVE  SessionInv
  OBVIOUS
<1>1. NoRequest \in Transition
  BY LifecycleAssumption DEF NoRequest, Transition, States, Deadlines, LifecycleAssumption
<1>2. LifecycleTypeOK
  <2>1. 0 \in 0..MaxTime
    BY LifecycleAssumption DEF LifecycleAssumption
  <2>2. request \in [Requests -> Transition] /\ editing \in [Editors -> Edits \cup {NoEdit}]
    BY <1>1 DEF SessionInit
  <2>3. QED
    BY <2>1, <2>2 DEF SessionInit, LifecycleTypeOK, States
<1>3. QED
  BY <1>2 DEF SessionInit, SessionInv, ReopenedDraftsAreMarked, PublishedDraftsAreCurrent,
              OpenVotingHasABallot

\* However sessions are moved, configured, edited and solved, the invariant holds.
THEOREM SessionInvariant == SessionSpec => []SessionInv
BY SessionInvInit, SessionInvStep, PTL DEF SessionSpec

\* Choices resume in a step that is a transition, if they had stopped; and while
\* they are accepted the depth of the ballot stays.
Resumption ==
    /\ ~Accepting /\ Accepting' => state # state'
    /\ Accepting /\ Accepting' => ranked'.depth = ranked.depth

\* A transition changes the state, and never the depth of a ballot in use.
LEMMA TransitionResumes ==
    ASSUME SessionInv, NEW t \in Transition, ApplyTransition(t)
    PROVE  Resumption
BY TransitionEffect DEF Resumption

\* An edit of the session (UpdateSession) opens no voting that was over.
LEMMA UpdateResumesNothing ==
    ASSUME SessionInv, NEW d \in SUBSET Dates, NEW config \in Configurations \cup {ranked},
           UpdateSession(d, config)
    PROVE  Resumption
<1>1. UNCHANGED <<state, now>> /\ ranked' = config
      /\ (config # ranked => ConfigurationAllowed(config))
  BY DEF UpdateSession
<1>2. CASE config = ranked
  BY <1>1, <1>2 DEF Resumption, Accepting
<1>3. CASE config # ranked
  <2>1. CASE state = "voting_open"
    <3>1. /\ ranked # NotConfigured /\ ranked.depth = config.depth /\ ranked.deadline > now
      BY <1>1, <1>3, <2>1 DEF ConfigurationAllowed
    <3>2. now \in Nat /\ ranked.deadline \in Nat
      <4>1. now \in 0..MaxTime /\ ranked \in Configurations
        BY <3>1 DEF SessionInv, LifecycleTypeOK
      <4>2. QED
        BY <4>1, LifecycleAssumption DEF Configurations, LifecycleAssumption
    <3>3. Accepting
      BY <2>1, <3>1, <3>2 DEF Accepting
    <3>4. QED
      BY <1>1, <3>1, <3>3 DEF Resumption
  <2>2. CASE state # "voting_open"
    BY <1>1, <2>2 DEF Resumption, Accepting
  <2>3. QED
    BY <2>1, <2>2
<1>4. QED
  BY <1>2, <1>3

\* So no step but a transition lets submissions in again.
LEMMA SessionResumption == SessionInv /\ SessionNext => Resumption
<1> SUFFICES ASSUME SessionInv, SessionNext
             PROVE  Resumption
  OBVIOUS
<1>1. CASE UNCHANGED <<state, ranked, now>>
  BY <1>1 DEF Resumption, Accepting
<1>2. CASE TransitionStep
  <2>1. ASSUME NEW t \in Transition, ConfirmedTransition(t)
        PROVE  Resumption
    BY <2>1, TransitionResumes DEF ConfirmedTransition
  <2>2. ASSUME NEW r \in Requests, ApplyForward(r)
        PROVE  Resumption
    BY <2>2, TransitionResumes DEF ApplyForward, SessionInv, LifecycleTypeOK
  <2>3. QED
    BY <1>1, <1>2, <2>1, <2>2 DEF TransitionStep, PreviewForward, DropRequest
<1>3. CASE EditStep
  BY <1>1, <1>3, UpdateResumesNothing DEF EditStep, CheckEdit, CatalogEdit, WriteMeetingDate,
     DropEdit, EndEdit
<1>4. CASE DraftWork
  BY <1>1, <1>4 DEF DraftWork
<1>5. CASE Tick
  <2>1. UNCHANGED <<state, ranked>> /\ now' = now + 1
    BY <1>5 DEF Tick
  <2>2. CASE ranked = NotConfigured
    BY <2>1, <2>2 DEF Resumption, Accepting
  <2>3. CASE ranked # NotConfigured
    <3>1. now \in Nat /\ ranked.deadline \in Nat
      <4>1. now \in 0..MaxTime /\ ranked \in Configurations
        BY <2>3 DEF SessionInv, LifecycleTypeOK
      <4>2. QED
        BY <4>1, LifecycleAssumption DEF Configurations, LifecycleAssumption
    <3>2. now' < ranked.deadline => now < ranked.deadline
      BY <2>1, <3>1
    <3>3. QED
      BY <2>1, <3>2 DEF Resumption, Accepting
  <2>4. QED
    BY <2>2, <2>3
<1>6. QED
  BY <1>2, <1>3, <1>4, <1>5 DEF SessionNext

--------------------------------------------------------------------------------
(* Meeting dates.  Two deletions that overlap may take the last date       *)
(* (SessionsKeepAMeetingDate is not a theorem).  Moves, new dates and new  *)
(* configurations may overlap a deletion as they like.                     *)

\* The edit in progress at e deletes a date.
Deletes(e) == editing[e].kind = "dates" /\ editing[e].to = {}

\* No two deletions have both passed their checks and not yet written.
DeletionsAreSerial == \A e, f \in Editors : Deletes(e) /\ Deletes(f) => e = f

TwoDatesAreLeft == \E x, y \in dates : x # y

\* The inductive invariant: a deletion that has been checked still leaves a date.
DeletionsLeaveADate ==
    /\ SessionsKeepAMeetingDate
    /\ \A e \in Editors : Deletes(e) => TwoDatesAreLeft

\* A set with no more than one element has no two.
LEMMA SmallSetsHoldOne ==
    ASSUME NEW F, IsFiniteSet(F), Cardinality(F) <= 1, NEW x \in F, NEW y \in F
    PROVE  x = y
<1>1. Cardinality(F \ {x}) = Cardinality(F) - 1 /\ IsFiniteSet(F \ {x})
  BY FS_RemoveElement, Zenon
<1>2. Cardinality(F) \in Nat /\ Cardinality(F \ {x}) \in Nat
  BY <1>1, FS_CardinalityType
<1>3. Cardinality(F \ {x}) = 0
  BY <1>1, <1>2
<1>4. F \ {x} = {}
  BY <1>1, <1>3, FS_EmptySet, Zenon
<1>5. QED
  BY <1>4

\* A set with more than one element has two.
LEMMA LargerSetsHoldTwo ==
    ASSUME NEW F, IsFiniteSet(F), Cardinality(F) > 1
    PROVE  \E x, y \in F : x # y
<1>1. Cardinality(F) # 0 /\ Cardinality(F) # 1
  OBVIOUS
<1>2. F # {}
  BY <1>1, FS_EmptySet, Zenon
<1>3. PICK x \in F : TRUE
  BY <1>2
<1>4. F # {x}
  BY <1>1, FS_Singleton, Zenon
<1>5. QED
  BY <1>3, <1>4

\* An edit of the dates leaves at most one date, one of the calendar, and changes
\* something.
LEMMA EditsTouchOneDate ==
    ASSUME NEW edit \in Edits \cup {NoEdit}, edit.kind = "dates"
    PROVE  /\ \A x, y \in edit.from : x = y
           /\ edit.from # edit.to
<1>1. /\ edit.from \subseteq Dates /\ Cardinality(edit.from) <= 1
      /\ edit.from # edit.to
  BY DEF Edits, NoEdit
<1>2. IsFiniteSet(edit.from)
  BY <1>1, LifecycleAssumption, FS_Subset, Zenon DEF LifecycleAssumption
<1>3. \A x, y \in edit.from : x = y
  BY <1>1, <1>2, SmallSetsHoldOne
<1>4. QED
  BY <1>1, <1>3

\* Replacing the dates ends the deletions whose date is gone.
LEMMA UpdateLeavesADate ==
    ASSUME SessionInv, DeletionsLeaveADate, NEW d, NEW config, UpdateSession(d, config)
    PROVE  DeletionsLeaveADate'
<1>1. dates' = d /\ d # {}
  BY DEF UpdateSession
<1>2. \A e \in Editors :
          editing'[e] = IF d # dates /\ editing[e].from # {} THEN NoEdit ELSE editing[e]
  BY DEF UpdateSession
<1>3. ASSUME NEW e \in Editors, Deletes(e)'
      PROVE  d = dates /\ Deletes(e)
  <2>1. editing'[e].kind = "dates" /\ editing'[e].to = {}
    BY <1>3 DEF Deletes
  <2>2. editing'[e] = editing[e] /\ (d = dates \/ editing[e].from = {})
    BY <1>2, <2>1 DEF NoEdit
  <2>3. editing[e] \in Edits \cup {NoEdit}
    BY DEF SessionInv, LifecycleTypeOK
  <2>4. editing[e].from # editing[e].to
    BY <2>1, <2>2, <2>3, EditsTouchOneDate
  <2>5. QED
    BY <2>1, <2>2, <2>4 DEF Deletes
<1>4. QED
  BY <1>1, <1>3 DEF DeletionsLeaveADate, SessionsKeepAMeetingDate, TwoDatesAreLeft

\* A deletion passes its check only while it leaves a date.
LEMMA CheckLeavesADate ==
    ASSUME SessionInv, DeletionsLeaveADate, NEW e \in Editors, NEW edit, CheckEdit(e, edit)
    PROVE  DeletionsLeaveADate'
<1>1. dates' = dates /\ \A f \in Editors : editing'[f] = IF f = e THEN edit ELSE editing[f]
  BY DEF CheckEdit, SessionInv, LifecycleTypeOK
<1>2. ASSUME edit.kind = "dates", edit.to = {}
      PROVE  TwoDatesAreLeft
  <2>1. Cardinality(dates) > 1
    BY <1>2 DEF CheckEdit
  <2>2. IsFiniteSet(dates)
    <3>1. dates \subseteq Dates
      BY DEF SessionInv, LifecycleTypeOK
    <3>2. QED
      BY <3>1, LifecycleAssumption, FS_Subset, Zenon DEF LifecycleAssumption
  <2>3. QED
    BY <2>1, <2>2, LargerSetsHoldTwo DEF TwoDatesAreLeft
<1>3. \A f \in Editors : Deletes(f)' => TwoDatesAreLeft
  BY <1>1, <1>2 DEF DeletionsLeaveADate, Deletes
<1>4. QED
  BY <1>1, <1>3 DEF DeletionsLeaveADate, SessionsKeepAMeetingDate, TwoDatesAreLeft

\* An edit that ends leaves the other ones as they are, and is none any more.
LEMMA EndedEditsAreGone ==
    ASSUME SessionInv, NEW e \in Editors, NEW kind, EndEdit(e, kind), NEW f \in Editors, Deletes(f)'
    PROVE  f # e /\ Deletes(f)
<1>1. editing'[f] = IF f = e THEN NoEdit ELSE editing[f]
  BY DEF EndEdit, SessionInv, LifecycleTypeOK
<1>2. QED
  BY <1>1 DEF Deletes, NoEdit

\* A written deletion was the only one; a written move, or a new date, takes no
\* more than it adds.
LEMMA WriteLeavesADate ==
    ASSUME SessionInv, DeletionsLeaveADate, DeletionsAreSerial,
           NEW e \in Editors, WriteMeetingDate(e)
    PROVE  DeletionsLeaveADate'
<1> DEFINE from == editing[e].from
           to == editing[e].to
<1>1. /\ EndEdit(e, "dates") /\ editing[e].kind = "dates"
      /\ to \cap dates = {} /\ dates' = (dates \ from) \cup to
  BY DEF WriteMeetingDate, EndEdit
<1>2. editing[e] \in Edits \cup {NoEdit}
  BY DEF SessionInv, LifecycleTypeOK
<1>3. \A x, y \in from : x = y
  BY <1>1, <1>2, EditsTouchOneDate
<1>4. \A f \in Editors : Deletes(f)' => f # e /\ Deletes(f)
  BY <1>1, EndedEditsAreGone
<1>5. CASE to = {}
  <2>1. Deletes(e)
    BY <1>1, <1>5 DEF Deletes
  <2>2. PICK x \in dates, y \in dates : x # y
    BY <2>1 DEF DeletionsLeaveADate, TwoDatesAreLeft
  <2>3. dates' # {}
    BY <1>1, <1>3, <2>2
  <2>4. \A f \in Editors : ~Deletes(f)'
    BY <1>4, <2>1 DEF DeletionsAreSerial
  <2>5. QED
    BY <2>3, <2>4 DEF DeletionsLeaveADate, SessionsKeepAMeetingDate
<1>6. CASE to # {}
  <2>1. PICK z \in to : z \notin dates
    BY <1>1, <1>6
  <2>2. z \in dates'
    BY <1>1, <2>1
  <2>3. TwoDatesAreLeft => TwoDatesAreLeft'
    BY <1>1, <1>3, <2>1, <2>2 DEF TwoDatesAreLeft
  <2>4. QED
    BY <1>4, <2>2, <2>3 DEF DeletionsLeaveADate, SessionsKeepAMeetingDate
<1>7. QED
  BY <1>5, <1>6

\* Every step leaves a date, as long as deletions do not overlap.
LEMMA DatesStep ==
    ASSUME SessionInv, DeletionsLeaveADate, DeletionsAreSerial, [SessionNext]_sessionVars
    PROVE  DeletionsLeaveADate'
<1>1. CASE UNCHANGED <<dates, editing>>
  BY <1>1 DEF DeletionsLeaveADate, SessionsKeepAMeetingDate, Deletes, TwoDatesAreLeft
<1>2. CASE TransitionStep
  BY <1>1, <1>2 DEF TransitionStep, ConfirmedTransition, ApplyTransition, PreviewForward,
                    ApplyForward, DropRequest
<1>3. CASE EditStep
  <2>1. ASSUME NEW e \in Editors, NEW kind, EndEdit(e, kind), dates' = dates
        PROVE  DeletionsLeaveADate'
    <3>1. \A f \in Editors : Deletes(f)' => Deletes(f)
      BY <2>1, EndedEditsAreGone
    <3>2. QED
      BY <2>1, <3>1 DEF DeletionsLeaveADate, SessionsKeepAMeetingDate, TwoDatesAreLeft
  <2>2. ASSUME NEW e \in Editors, CatalogEdit(e) \/ DropEdit(e)
        PROVE  DeletionsLeaveADate'
    BY <2>1, <2>2 DEF CatalogEdit, DropEdit
  <2>3. QED
    BY <1>3, <2>2, UpdateLeavesADate, CheckLeavesADate, WriteLeavesADate DEF EditStep
<1>4. CASE DraftWork
  BY <1>1, <1>4 DEF DraftWork
<1>5. CASE Tick
  BY <1>1, <1>5 DEF Tick
<1>6. CASE UNCHANGED sessionVars
  BY <1>1, <1>6 DEF sessionVars, lifecycleVars
<1>7. QED
  BY <1>2, <1>3, <1>4, <1>5, <1>6 DEF SessionNext

\* A session keeps a meeting date as long as no two deletions overlap, whatever
\* moves, new dates and updates run between the check of a deletion and its write
\* (DeleteMeetingDate, UpdateSession): the overlap of two is all that can take the
\* last one.
THEOREM SerialDeletionsKeepADate ==
    SessionSpec /\ []DeletionsAreSerial => []SessionsKeepAMeetingDate
<1>1. SessionInit => DeletionsLeaveADate
  <2> SUFFICES ASSUME SessionInit
               PROVE  DeletionsLeaveADate
    OBVIOUS
  <2>1. dates # {} /\ \A e \in Editors : editing[e] = NoEdit
    <3>1. dates \in (SUBSET Dates) \ {{}} /\ editing = [e \in Editors |-> NoEdit]
      BY Zenon DEF SessionInit
    <3>2. QED
      BY ONLY <3>1
  <2>2. NoEdit.kind # "dates"
    BY DEF NoEdit
  <2>3. QED
    BY <2>1, <2>2 DEF DeletionsLeaveADate, SessionsKeepAMeetingDate, Deletes
<1>2. DeletionsLeaveADate => SessionsKeepAMeetingDate
  BY DEF DeletionsLeaveADate
<1>3. SessionInv /\ DeletionsLeaveADate /\ DeletionsAreSerial /\ [SessionNext]_sessionVars
          => DeletionsLeaveADate'
  BY DatesStep
<1>4. QED
  BY <1>1, <1>2, <1>3, SessionInvariant, PTL DEF SessionSpec

--------------------------------------------------------------------------------
(* Unconfirmed requests.  One whose preview another transition overtakes   *)
(* may move the session backward (UnconfirmedRequestsMoveForward is not a  *)
(* theorem); an undisturbed one does not.                                  *)

\* No transition leaves a request previewed in the state it ended.
PreviewsAreNotOvertaken ==
    [][state' # state => \A r \in Requests : request'[r] = NoRequest]_sessionVars

\* The inductive invariant: a previewed request is still forward.
PreviewsAreForward ==
    \A r \in Requests : request[r] # NoRequest => ~IsBackward(state, request[r].to)

\* Only a transition changes the state, and only a preview adds a request.
LEMMA RequestsArePreviewed ==
    ASSUME SessionInv, [SessionNext]_sessionVars, state' = state, NEW r \in Requests
    PROVE  \/ request'[r] \in {request[r], NoRequest}
           \/ ~IsBackward(state, request'[r].to)
<1>1. DOMAIN request = Requests
  BY DEF SessionInv, LifecycleTypeOK
<1>2. CASE UNCHANGED request
  BY <1>2
<1>3. ASSUME NEW q \in Requests, NEW t \in Transition, PreviewForward(q, t)
      PROVE  request'[r] = request[r] \/ ~IsBackward(state, request'[r].to)
  <2>1. request' = [request EXCEPT ![q] = t] /\ ~IsBackward(state, t.to)
    BY <1>3 DEF PreviewForward
  <2>2. QED
    BY <1>1, <2>1
<1>4. ASSUME NEW q \in Requests, ApplyForward(q) \/ DropRequest(q)
      PROVE  request'[r] \in {request[r], NoRequest}
  <2>1. request' = [request EXCEPT ![q] = NoRequest]
    BY <1>4 DEF ApplyForward, DropRequest
  <2>2. QED
    BY <1>1, <2>1
<1>5. CASE TransitionStep
  BY <1>2, <1>3, <1>4, <1>5 DEF TransitionStep, ConfirmedTransition
<1>6. CASE EditStep
  BY <1>2, <1>6 DEF EditStep, UpdateSession, CheckEdit, CatalogEdit, WriteMeetingDate, DropEdit,
                    EndEdit
<1>7. CASE DraftWork \/ Tick
  BY <1>2, <1>7 DEF DraftWork, Tick
<1>8. QED
  BY <1>2, <1>5, <1>6, <1>7 DEF SessionNext, sessionVars, lifecycleVars

\* A request that ends with a change of the state is the one that was applied.
LEMMA AppliedRequestsWerePreviewed ==
    ASSUME SessionInv, SessionNext, NEW r \in Requests,
           request[r] # NoRequest, state' # state, request'[r] = NoRequest
    PROVE  state' = request[r].to
<1>1. DOMAIN request = Requests
  BY DEF SessionInv, LifecycleTypeOK
<1>2. TransitionStep
  BY DEF SessionNext, EditStep, UpdateSession, CheckEdit, CatalogEdit, WriteMeetingDate,
         DropEdit, EndEdit, DraftWork, Tick
<1>3. PICK q \in Requests : ApplyForward(q)
  BY <1>2 DEF TransitionStep, ConfirmedTransition, PreviewForward, DropRequest
<1>4. request' = [request EXCEPT ![q] = NoRequest]
  BY <1>3 DEF ApplyForward
<1>5. q = r
  BY <1>1, <1>4
<1>6. QED
  BY <1>3, <1>5 DEF ApplyForward, ApplyTransition

\* An unconfirmed request moves the session forward or not at all, as long as no
\* other transition comes between its two transactions (TransitionSession):
\* edits, solves, configuration and the clock may.
THEOREM UndisturbedRequestsMoveForward ==
    SessionSpec /\ PreviewsAreNotOvertaken => UnconfirmedRequestsMoveForward
<1> DEFINE NotOvertaken == state' # state => \A r \in Requests : request'[r] = NoRequest
           Forward == \A r \in Requests :
                          request[r] # NoRequest /\ state # state' /\ request'[r] = NoRequest =>
                              ~IsBackward(state, state')
<1>1. SessionInit => PreviewsAreForward
  BY DEF SessionInit, PreviewsAreForward
<1>2. SessionInv /\ PreviewsAreForward /\ [SessionNext]_sessionVars /\ [NotOvertaken]_sessionVars
          => PreviewsAreForward'
  <2> SUFFICES ASSUME SessionInv, PreviewsAreForward, [SessionNext]_sessionVars,
                      [NotOvertaken]_sessionVars, NEW r \in Requests, request'[r] # NoRequest
               PROVE  ~IsBackward(state, request[r].to)'
    BY DEF PreviewsAreForward
  <2>1. state' = state
    BY DEF sessionVars, lifecycleVars
  <2>2. request'[r] = request[r] \/ ~IsBackward(state, request'[r].to)
    BY <2>1, RequestsArePreviewed
  <2>3. QED
    BY <2>1, <2>2 DEF PreviewsAreForward, IsBackward
<1>3. SessionInv /\ PreviewsAreForward /\ [SessionNext]_sessionVars => [Forward]_sessionVars
  <2> SUFFICES ASSUME SessionInv, PreviewsAreForward, SessionNext, NEW r \in Requests,
                      request[r] # NoRequest, state # state', request'[r] = NoRequest
               PROVE  ~IsBackward(state, state')
    OBVIOUS
  <2>1. state' = request[r].to
    BY AppliedRequestsWerePreviewed
  <2>2. QED
    BY <2>1 DEF PreviewsAreForward
<1> HIDE DEF NotOvertaken, Forward
<1>4. SessionSpec /\ [][NotOvertaken]_sessionVars => [][Forward]_sessionVars
  BY <1>1, <1>2, <1>3, SessionInvariant, PTL DEF SessionSpec
<1>5. QED
  BY <1>4 DEF NotOvertaken, Forward, PreviewsAreNotOvertaken, UnconfirmedRequestsMoveForward

--------------------------------------------------------------------------------
(* A session with its ballots is a session, and a session is a draft with  *)
(* its solves: what is proved of the parts holds of the whole.             *)

\* The lifecycle does to draft and solves only what these allow by themselves.
THEOREM SessionsImplementSolves == SessionSpec => SolveSpec
<1>1. SessionInit => SolveInit
  BY DEF SessionInit
<1>2. [SessionNext]_sessionVars => [SolveNext]_solveVars
  <2> SUFFICES ASSUME [SessionNext]_sessionVars
               PROVE  [SolveNext]_solveVars
    OBVIOUS
  <2>1. CASE UNCHANGED solveVars
    BY <2>1
  <2>2. CASE TransitionStep
    BY <2>1, <2>2 DEF TransitionStep, ConfirmedTransition, ApplyTransition, PreviewForward,
           ApplyForward, DropRequest
  <2>3. CASE EditStep
    <3>1. ASSUME NEW e \in Editors, CatalogEdit(e)
          PROVE  SolveNext
      BY <3>1 DEF CatalogEdit, SolveNext, Next
    <3>2. ASSUME NEW e \in Editors, WriteMeetingDate(e)
          PROVE  UNCHANGED solveVars
      BY <3>2 DEF WriteMeetingDate
    <3>3. QED
      BY <2>1, <2>3, <3>1, <3>2 DEF EditStep, UpdateSession, CheckEdit, DropEdit
  <2>4. CASE DraftWork
    BY <2>4 DEF DraftWork, SolveNext, Next
  <2>5. CASE Tick
    BY <2>1, <2>5 DEF Tick
  <2>6. CASE UNCHANGED sessionVars
    BY <2>1, <2>6 DEF sessionVars
  <2>7. QED
    BY <2>2, <2>3, <2>4, <2>5, <2>6 DEF SessionNext
<1>3. QED
  BY <1>1, <1>2, PTL DEF SessionSpec, SolveSpec

\* Submissions leave the session alone; holding its row, they only rule out steps.
THEOREM VotingImplementsSessions == VotingSpec => SessionSpec
<1>1. VotingInit => SessionInit
  BY DEF VotingInit
<1>2. [VotingNext]_votingVars => [SessionNext]_sessionVars
  <2> SUFFICES ASSUME [VotingNext]_votingVars
               PROVE  [SessionNext]_sessionVars
    OBVIOUS
  <2>1. CASE SessionStep
    BY <2>1 DEF SessionStep
  <2>2. ASSUME NEW b \in Ballots, SubmissionStep(b)
        PROVE  UNCHANGED sessionVars
    BY <2>2 DEF SubmissionStep, BeginSubmission, LockSession, ComposeResponses,
       CreateRankedChoiceSubmission, AbandonSubmission, BallotStep
  <2>3. ASSUME NEW k \in Solves, ListCurrentSessionResultAnswers(k)
        PROVE  UNCHANGED sessionVars
    BY <2>3 DEF ListCurrentSessionResultAnswers
  <2>4. CASE UNCHANGED votingVars
    BY <2>4 DEF votingVars
  <2>5. QED
    BY <2>1, <2>2, <2>3, <2>4 DEF VotingNext
<1>3. QED
  BY <1>1, <1>2, PTL DEF VotingSpec, SessionSpec

\* A draft whose stage was reopened is not published before it is solved again,
\* whatever way the session takes (sessionTransitionPlan, MarksDraftStale).
THEOREM PublishedAreCurrent == VotingSpec => []PublishedDraftsAreCurrent
<1>1. SessionInv => PublishedDraftsAreCurrent
  BY DEF SessionInv
<1>2. QED
  BY <1>1, SessionInvariant, VotingImplementsSessions, PTL

\* Voting is never open without a ballot, whichever way it came to be open.
THEOREM OpenVotingHasBallot == VotingSpec => []OpenVotingHasABallot
<1>1. SessionInv => OpenVotingHasABallot
  BY DEF SessionInv
<1>2. QED
  BY <1>1, SessionInvariant, VotingImplementsSessions, PTL

\* Once choices have stopped being accepted, only a transition resumes them; no
\* configuration edit does, nor does it change a ballot in use.
THEOREM VotingResumes == VotingSpec => VotingResumesOnlyByTransition
<1>1. SessionInv /\ [SessionNext]_sessionVars => [Resumption]_sessionVars
  BY SessionResumption
<1>2. SessionSpec => VotingResumesOnlyByTransition
  BY <1>1, SessionInvariant, PTL DEF SessionSpec, VotingResumesOnlyByTransition, Resumption
<1>3. QED
  BY <1>2, VotingImplementsSessions, PTL

\* In a session that is voted in, moved, configured and edited all the while, solves
\* still are atomic.
THEOREM VotingSolvesAreAtomic == VotingSpec => SolvesAreAtomic
BY VotingImplementsSessions, SessionsImplementSolves, SolvesImplementAtomicSolve, PTL

\* In a session that is voted in and moved all the while, edits and runs keep each
\* override on its pin and each exclusion and placement in the catalog, and an
\* applied run honours the exclusions and the hard rules of what it has read.
THEOREM VotingKeepsTheDraft ==
    VotingSpec => /\ []Consistent
                  /\ AppliedRunsHonourExclusions
                  /\ RunsObeyTheCatalogTheyRead
BY VotingImplementsSessions, SessionsImplementSolves, SolvesKeepTheDraftConsistent,
   RunsHonourExclusions, RunsObeyHardRules, PTL

\* What keeps non-participants out of the draft, a meeting date in the session and
\* its unconfirmed requests forward is the same when the session is voted in.
THEOREM VotingRacesAreTheOnlyOnes ==
    /\ VotingSpec /\ PlacementsWaitForDeclarations => []NonParticipantsHoldNoPlacement
    /\ VotingSpec /\ []DeletionsAreSerial => []SessionsKeepAMeetingDate
    /\ VotingSpec /\ PreviewsAreNotOvertaken => UnconfirmedRequestsMoveForward
BY VotingImplementsSessions, SessionsImplementSolves, RunsOvertakeOnlyOpenDeclarations,
   SerialDeletionsKeepADate, UndisturbedRequestsMoveForward, PTL

--------------------------------------------------------------------------------
(* The shape of the ballots.                                               *)

BallotsAreTyped ==
    \A b \in Ballots :
        /\ ballots[b].phase \in {"none", "begun", "locked", "composed", "cast", "abandoned"}
        /\ ballots[b].voter \subseteq Students
        /\ DOMAIN ballots[b].ranks \subseteq Offerings

ChoicesAreTyped ==
    DOMAIN choices = Solves /\ \A k \in Solves : choices[k] \subseteq Offerings \cup {Unread}

\* Answers name listed offerings when they are composed, and none other is read.
LEMMA BallotsStayTyped ==
    ASSUME TypeOK, RowsAreShaped, BallotsAreTyped, ChoicesAreTyped, VotingNext
    PROVE  BallotsAreTyped' /\ ChoicesAreTyped'
<1>1. DOMAIN ballots = Ballots /\ \A b \in Ballots : DOMAIN ballots[b] = Fields
  BY DEF RowsAreShaped
<1>2. CASE SessionStep
  BY <1>2 DEF SessionStep, BallotsAreTyped, ChoicesAreTyped
<1>3. ASSUME NEW b \in Ballots, NEW row, ballots' = [ballots EXCEPT ![b] = row], choices' = choices,
             row.phase \in {"begun", "locked", "composed", "cast", "abandoned"},
             row.voter \subseteq Students, DOMAIN row.ranks \subseteq Offerings
      PROVE  BallotsAreTyped' /\ ChoicesAreTyped'
  BY <1>1, <1>3 DEF BallotsAreTyped, ChoicesAreTyped
<1>4. ASSUME NEW b \in Ballots, SubmissionStep(b)
      PROVE  BallotsAreTyped' /\ ChoicesAreTyped'
  <2>1. ASSUME NEW from, NEW to \in {"locked", "cast"}, BallotStep(b, from, to)
        PROVE  BallotsAreTyped' /\ ChoicesAreTyped'
    <3> DEFINE row == [ballots[b] EXCEPT !.phase = to]
    <3>1. ballots' = [ballots EXCEPT ![b] = row] /\ choices' = choices
      BY <2>1 DEF BallotStep
    <3>2. row.phase = to /\ row.voter = ballots[b].voter /\ row.ranks = ballots[b].ranks
      BY <1>1 DEF Fields
    <3> HIDE DEF row
    <3>3. QED
      BY <1>3, <3>1, <3>2 DEF BallotsAreTyped
  <2>2. ASSUME NEW s \in Students, BeginSubmission(b, s)
        PROVE  BallotsAreTyped' /\ ChoicesAreTyped'
    <3> DEFINE row == [phase |-> "begun", voter |-> {s}, ranks |-> <<>>]
    <3>1. ballots' = [ballots EXCEPT ![b] = row] /\ choices' = choices
      BY <2>2 DEF BeginSubmission
    <3>2. row.phase = "begun" /\ row.voter = {s} /\ DOMAIN row.ranks = {}
      OBVIOUS
    <3> HIDE DEF row
    <3>3. QED
      BY <1>3, <3>1, <3>2
  <2>3. ASSUME NEW responses, ComposeResponses(b, responses)
        PROVE  BallotsAreTyped' /\ ChoicesAreTyped'
    <3>1. PICK s \in ballots[b].voter :
              LET ranks == completeHiddenRankedChoiceResponses(s, responses)
              IN  /\ ValidateRankedChoiceResponseSetWithDepth(ranks)
                  /\ ballots' = [ballots EXCEPT ![b] =
                         [phase |-> "composed", voter |-> {s}, ranks |-> ranks]]
                  /\ choices' = choices
      BY <2>3 DEF ComposeResponses
    <3> DEFINE ranks == completeHiddenRankedChoiceResponses(s, responses)
    <3> HIDE DEF ranks
    <3>2. DOMAIN ranks = DOMAIN catalog
      BY <3>1 DEF ranks, ValidateRankedChoiceResponseSetWithDepth
    <3>3. DOMAIN ranks \subseteq Offerings /\ s \in Students
      BY <3>2, ListedAreOfferings DEF BallotsAreTyped
    <3> DEFINE row == [phase |-> "composed", voter |-> {s}, ranks |-> ranks]
    <3>4. ballots' = [ballots EXCEPT ![b] = row] /\ choices' = choices
      BY <3>1 DEF ranks
    <3>5. row.phase = "composed" /\ row.voter = {s} /\ row.ranks = ranks
      OBVIOUS
    <3> HIDE DEF row
    <3>6. QED
      BY <1>3, <3>3, <3>4, <3>5
  <2>4. CASE AbandonSubmission(b)
    <3> DEFINE row == [phase |-> "abandoned", voter |-> {}, ranks |-> <<>>]
    <3>1. ballots' = [ballots EXCEPT ![b] = row] /\ choices' = choices
      BY <2>4 DEF AbandonSubmission
    <3>2. row.phase = "abandoned" /\ row.voter = {} /\ DOMAIN row.ranks = {}
      OBVIOUS
    <3> HIDE DEF row
    <3>3. QED
      BY <1>3, <3>1, <3>2
  <2>5. QED
    BY <1>4, <2>1, <2>2, <2>3, <2>4 DEF SubmissionStep, LockSession, CreateRankedChoiceSubmission
<1>5. ASSUME NEW k \in Solves, ListCurrentSessionResultAnswers(k)
      PROVE  BallotsAreTyped' /\ ChoicesAreTyped'
  <2>1. PICK read : read \subseteq Offerings /\ choices' = [choices EXCEPT ![k] = read]
    BY <1>5 DEF ListCurrentSessionResultAnswers, BallotsAreTyped, RankedIn
  <2>2. ballots' = ballots
    BY <1>5 DEF ListCurrentSessionResultAnswers
  <2>3. QED
    BY <2>1, <2>2 DEF BallotsAreTyped, ChoicesAreTyped
<1>6. QED
  BY <1>2, <1>4, <1>5 DEF VotingNext

\* The shape of the session row and of the submissions to it.
THEOREM VotingTypeCorrect == VotingSpec => []VotingTypeOK
<1>1. VotingInit => BallotsAreTyped /\ ChoicesAreTyped
  BY DEF VotingInit, NoBallot, BallotsAreTyped, ChoicesAreTyped
<1>2. SolveInv => TypeOK
  BY DEF SolveInv, Consistent
<1>3. VotingSpec => []SolveInv
  BY SolvesAreSound, SessionsImplementSolves, VotingImplementsSessions, PTL
<1>4. VotingSpec => []SessionInv
  BY SessionInvariant, VotingImplementsSessions, PTL
<1>5. TypeOK /\ VotingInv /\ BallotsAreTyped /\ ChoicesAreTyped /\ [VotingNext]_votingVars
          => BallotsAreTyped' /\ ChoicesAreTyped'
  BY BallotsStayTyped DEF VotingInv, votingVars, BallotsAreTyped, ChoicesAreTyped
<1>6. SessionInv /\ BallotsAreTyped /\ ChoicesAreTyped => VotingTypeOK
  BY DEF SessionInv, BallotsAreTyped, ChoicesAreTyped, VotingTypeOK
<1>7. QED
  BY <1>1, <1>2, <1>3, <1>4, <1>5, <1>6, VotingInvariant, PTL DEF VotingSpec

==================================================================================
