-------------------------------- MODULE Surveys --------------------------------
(***************************************************************************)
(* One interest-profile survey of a program: its definition, its lifecycle *)
(* and clock-driven closing, the audience snapshot taken when it opens and *)
(* extended when members join, and the answers of the students.            *)
(*                                                                         *)
(* Every operation is one READ COMMITTED transaction that reads the survey *)
(* row without locking it and writes later.  What it is going to write is  *)
(* held in pending from the read to the commit, where only the constraints *)
(* of the tables are checked again.                                        *)
(***************************************************************************)
EXTENDS Naturals, Sequences

CONSTANTS
    Students,    \* students who may belong to the program
    Areas,       \* interest areas of the program
    QuestionSets,\* sets of areas a definition may ask about
    Audiences,   \* sets of students a definition's audience filter may admit
    MaxTime,     \* bound on the clock
    MaxAnswers,  \* bound on the submissions
    Workers      \* transactions of organizers in progress at a time

ASSUME SurveyAssumption ==
    /\ QuestionSets \subseteq SUBSET Areas
    /\ Audiences \subseteq SUBSET Students
    /\ MaxTime \in Nat \ {0}
    /\ MaxAnswers \in Nat

VARIABLES
    survey,      \* the interest_profile_surveys row with its questions
    invited,     \* the interest_profile_survey_audience_snapshots rows
    member,      \* the program_memberships rows
    answers,     \* submissions in the order their transactions began
    now,         \* the clock survey windows are compared with
    pending      \* transactions that have read and not yet written

surveyVars == <<survey, invited, member, answers, now, pending>>

Unset == 0       \* a null timestamp
Times == 1..MaxTime + 1

Definitions ==
    [state : {"draft"}, opens : Times \cup {Unset}, closes : Times \cup {Unset},
     asks : QuestionSets, admits : Audiences]
Deleted == [state |-> "deleted", opens |-> Unset, closes |-> Unset, asks |-> {}, admits |-> {}]

NoWork == [op |-> "none", row |-> Deleted, adds |-> {}, joins |-> {}]

--------------------------------------------------------------------------------
\* effectiveSurveyState: an open survey past its closing time counts as closed.
Effective(s) ==
    IF s.state = "open" /\ s.closes # Unset /\ now >= s.closes THEN "closed" ELSE s.state

Accepting(s) ==
    /\ Effective(s) = "open"
    /\ s.opens # Unset => now >= s.opens
    /\ s.closes # Unset /\ now < s.closes

\* Mutant of RowConstraints: the window alone is checked.
WindowConstraint(s) == s.closes # Unset /\ s.opens # Unset => s.closes > s.opens

\* The checks of the table hold for every row that is written.
RowConstraints(s) ==
    /\ s.closes # Unset /\ s.opens # Unset => s.closes > s.opens
    /\ s.state # "draft" => s.closes # Unset

Begin(w, op, row, adds, joins) ==
    /\ pending[w] = NoWork
    /\ pending' = [pending EXCEPT ![w] = [op |-> op, row |-> row, adds |-> adds, joins |-> joins]]
    /\ UNCHANGED <<survey, invited, member, answers, now>>

\* The end of w's transaction op, which writes the survey row as given.
Write(w, op, row) ==
    /\ pending[w].op = op
    /\ survey.state # "deleted"
    /\ RowConstraints(row)
    /\ survey' = row
    /\ pending' = [pending EXCEPT ![w] = NoWork]
    /\ UNCHANGED <<member, answers, now>>

--------------------------------------------------------------------------------
(* Definition and lifecycle.                                               *)

ReadForUpdate(w, definition) ==
    /\ Effective(survey) = "draft"
    /\ RowConstraints(definition)
    /\ Begin(w, "update", definition, {}, {})

\* The state is not among the columns the definition replaces.
UpdateSurvey(w) ==
    /\ Write(w, "update", [pending[w].row EXCEPT !.state = survey.state])
    /\ UNCHANGED invited

\* A request may name a closing time; otherwise the one of the definition counts.
ReadForOpen(w, closing) ==
    LET closes == IF closing = Unset THEN survey.closes ELSE closing
        opens  == IF survey.opens = Unset THEN now ELSE survey.opens
    IN  /\ Effective(survey) = "draft"
        /\ closes # Unset /\ closes > now /\ closes > opens
        /\ Begin(w, "open", [survey EXCEPT !.state = "open", !.opens = opens, !.closes = closes], {}, {})

\* The questions are read after the row, and the members after the questions.
SnapshotAudience(w) ==
    /\ pending[w].op = "open"
    /\ survey.asks # {}
    /\ pending' = [pending EXCEPT ![w].op = "opening", ![w].adds = member \cap pending[w].row.admits]
    /\ UNCHANGED <<survey, invited, member, answers, now>>

\* A state change writes the window it has read or chosen, and no definition.
StateChange(w) ==
    [survey EXCEPT !.state = pending[w].row.state, !.opens = pending[w].row.opens,
                   !.closes = pending[w].row.closes]

\* A student is in the snapshot once, so that a second opening fails.
OpenSurvey(w) ==
    /\ Write(w, "opening", StateChange(w))
    /\ pending[w].adds \cap invited = {}
    /\ invited' = invited \cup pending[w].adds

ReadForClose(w) ==
    /\ Effective(survey) = "open"
    /\ Begin(w, "close", [survey EXCEPT !.state = "closed"], {}, {})

ReadForReopen(w, closing) ==
    /\ Effective(survey) = "closed"
    /\ closing > now
    /\ Begin(w, "reopen", [survey EXCEPT !.state = "open", !.opens = now, !.closes = closing], {}, {})

CloseSurvey(w) == Write(w, "close", StateChange(w)) /\ UNCHANGED invited

ReopenSurvey(w) == Write(w, "reopen", StateChange(w)) /\ UNCHANGED invited

Recorded == {i \in DOMAIN answers : answers[i].phase = "recorded"}

\* The count of submissions and the foreign key of the submissions agree on
\* when a survey may go; its snapshot goes with it.
DeleteSurvey ==
    /\ survey.state # "deleted"
    /\ Recorded = {}
    /\ survey' = Deleted
    /\ invited' = {}
    /\ UNCHANGED <<member, answers, now, pending>>

--------------------------------------------------------------------------------
(* Membership.                                                             *)

\* AddMembership inserts the member and asks every survey that accepts
\* answers at that moment whether its audience includes the new member; one
\* that has no opening time is passed over.
ReadForJoin(w, s) ==
    LET joins == survey.opens # Unset /\ Accepting(survey) /\ s \in survey.admits
    IN  /\ s \notin member
        /\ Begin(w, "join", survey, IF joins THEN {s} ELSE {}, {s})

AddMembership(w) ==
    /\ pending[w].op = "join"
    /\ pending[w].joins \cap member = {}
    /\ pending[w].adds \cap invited = {}
    /\ pending[w].adds # {} => survey.state # "deleted"
    /\ member' = member \cup pending[w].joins
    /\ invited' = invited \cup pending[w].adds
    /\ pending' = [pending EXCEPT ![w] = NoWork]
    /\ UNCHANGED <<survey, answers, now>>

\* Submissions keep their students in the program.
DeleteMembership(s) ==
    /\ s \in member
    /\ \A i \in Recorded : answers[i].student # s
    /\ member' = member \ {s}
    /\ UNCHANGED <<survey, invited, answers, now, pending>>

\* Any transaction may fail.
Abort(w) ==
    /\ pending[w] # NoWork
    /\ pending' = [pending EXCEPT ![w] = NoWork]
    /\ UNCHANGED <<survey, invited, member, answers, now>>

--------------------------------------------------------------------------------
(* Submissions.                                                            *)

\* The first step of a submission, which also fixes its submitted_at.
BeginAnswer(s, areas) ==
    /\ Len(answers) < MaxAnswers
    /\ Accepting(survey)
    /\ answers' = Append(answers, [student |-> s, areas |-> areas, phase |-> "begun"])
    /\ UNCHANGED <<survey, invited, member, now, pending>>

AnswerStep(i, from, to) ==
    /\ answers[i].phase = from
    /\ answers' = [answers EXCEPT ![i].phase = to]
    /\ UNCHANGED <<survey, invited, member, now, pending>>

\* Mutant of CheckAnswer: any member may answer.
CheckMember(i) ==
    /\ AnswerStep(i, "begun", "checked")
    /\ answers[i].student \in member
    /\ answers[i].areas \subseteq survey.asks

CheckAnswer(i) ==
    /\ AnswerStep(i, "begun", "checked")
    /\ answers[i].student \in member \cap invited
    /\ answers[i].areas \subseteq survey.asks

\* The survey and the membership are foreign keys of the submission.
RecordAnswer(i) ==
    /\ AnswerStep(i, "checked", "recorded")
    /\ survey.state # "deleted"
    /\ answers[i].student \in member

DropAnswer(i) == \E from \in {"begun", "checked"} : AnswerStep(i, from, "dropped")

--------------------------------------------------------------------------------
(* The effective profile.                                                  *)

\* Mutant of EffectiveRating: each submission replaces the profile.
LatestSubmission(s, area) ==
    LET own == {i \in Recorded : answers[i].student = s}
    IN  {i \in own : area \in answers[i].areas /\ \A j \in own : j <= i}

\* The submission, if any, that holds the rating of an area: the last of those
\* that rate it, whatever later ones say about other areas.
EffectiveRating(s, area) ==
    LET rating == {i \in Recorded : answers[i].student = s /\ area \in answers[i].areas}
    IN  {i \in rating : \A j \in rating : j <= i}

--------------------------------------------------------------------------------
Tick ==
    /\ now < MaxTime
    /\ now' = now + 1
    /\ UNCHANGED <<survey, invited, member, answers, pending>>

SurveyInit ==
    /\ survey \in {d \in Definitions : RowConstraints(d)}
    /\ invited = {}
    /\ member = {}
    /\ answers = <<>>
    /\ now = 1
    /\ pending = [w \in Workers |-> NoWork]

OrganizerStep(w) ==
    \/ \E d \in Definitions : ReadForUpdate(w, d)
    \/ UpdateSurvey(w)
    \/ \E closing \in Times \cup {Unset} : ReadForOpen(w, closing)
    \/ SnapshotAudience(w)
    \/ OpenSurvey(w)
    \/ ReadForClose(w)
    \/ CloseSurvey(w)
    \/ \E closing \in Times : ReadForReopen(w, closing)
    \/ ReopenSurvey(w)
    \/ \E s \in Students : ReadForJoin(w, s)
    \/ AddMembership(w)
    \/ Abort(w)

SubmissionStep ==
    \/ \E s \in Students, areas \in (SUBSET Areas) \ {{}} : BeginAnswer(s, areas)
    \/ \E i \in DOMAIN answers : CheckAnswer(i) \/ RecordAnswer(i) \/ DropAnswer(i)

SurveyNext ==
    \/ \E w \in Workers : OrganizerStep(w)
    \/ DeleteSurvey
    \/ \E s \in Students : DeleteMembership(s)
    \/ SubmissionStep
    \/ Tick

SurveySpec == SurveyInit /\ [][SurveyNext]_surveyVars

--------------------------------------------------------------------------------
(* Properties.                                                             *)

\* The rows and the transactions in progress are well formed, and no audience
\* row is left behind by a survey that is gone.
SurveyTypeOK ==
    /\ survey.state \in {"draft", "open", "closed", "deleted"}
    /\ survey.asks \in QuestionSets \cup {{}}
    /\ survey.admits \in Audiences \cup {{}}
    /\ survey.state = "deleted" => invited = {}
    /\ invited \subseteq Students /\ member \subseteq Students
    /\ \A i \in DOMAIN answers :
           answers[i].phase \in {"begun", "checked", "recorded", "dropped"}
    /\ now \in 1..MaxTime

\* "A survey MUST have a closing timestamp when it opens" (SPEC 13.6.4), and
\* keeps one whatever edits of its draft are still under way.
OpenedSurveysClose ==
    survey.state \in {"open", "closed"} =>
        survey.closes # Unset /\ (survey.opens # Unset => survey.opens < survey.closes)

\* Every answer on record is that of an invited member, to a survey that is
\* kept: the submissions are the provenance of the profile (SPEC 13.6.4).
AnswersHaveProvenance ==
    \A i \in Recorded : survey.state # "deleted" /\ answers[i].student \in member \cap invited

\* "Omitting an area from a later survey MUST NOT clear an earlier rating", and
\* a rating is only ever replaced by that of a later submission (SPEC 13.6.3).
RatingsAreKept ==
    [][\A s \in Students, area \in Areas : \A i \in EffectiveRating(s, area) :
          \E j \in EffectiveRating(s, area)' : i <= j]_surveyVars

\* "The interest profile survey definition is locked after opening"
\* (ErrSurveyDefinitionLocked): its audience filter and questions stay.
DefinitionsLockWhenOpened ==
    [][survey.state \in {"open", "closed"} /\ survey'.state # "deleted" =>
          survey'.asks = survey.asks /\ survey'.admits = survey.admits]_surveyVars

================================================================================
