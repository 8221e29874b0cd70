--------------------------- MODULE SchoolYears_proofs ---------------------------
(***************************************************************************)
(* A school year and the surveys held in it, for every number of requests, *)
(* students, areas, submissions and overlapping transactions.  The year:   *)
(* no request that was judged by a state that has passed takes it off its  *)
(* lifecycle, and a purged year holds nothing.  A survey: it closes some   *)
(* day, its answers keep their provenance, and no rating is lost to a      *)
(* later submission.                                                       *)
(***************************************************************************)
EXTENDS SchoolYears, Surveys, TLAPS

\* What was read was a state the request may leave, and an activation is not
\* undone: a year that was read as active never returns to its setup.
RequestsWereValid ==
    \A r \in YearRequests : yearRequest[r] # NoRequestMade =>
        /\ Valid(yearRequest[r].read, yearRequest[r].intent)
        /\ yearRequest[r].read = "active" => year \notin {"none", "setup"}

\* Nothing is being written to a purged year either.
PurgedYearsRest ==
    year = "purged" => yearRecords = {} /\ \A w \in Writers : writer[w] = NoRecord

YearInv == YearTypeOK /\ RequestsWereValid /\ PurgedYearsRest

-----------------------------------------------------------------------------
(* What the operators give.                                                *)

\* A writer in progress holds a record of some kind.
LEMMA WriterType ==
    ASSUME YearInv, NEW w \in Writers
    PROVE  writer[w] = NoRecord \/ (writer[w].kind \in Kinds /\ writer[w].inserts \in BOOLEAN)
BY DEF YearInv, YearTypeOK

\* What a request in progress asks for and has read.
LEMMA RequestType ==
    ASSUME YearInv, NEW r \in YearRequests, NEW to, InProgress(r, to)
    PROVE  /\ yearRequest[r].intent \in Intents
           /\ yearRequest[r].intent.to = to
           /\ yearRequest[r].read \in YearStates
           /\ Valid(yearRequest[r].read, yearRequest[r].intent)
           /\ yearRequest[r].read = "active" => year \notin {"none", "setup"}
BY DEF YearInv, YearTypeOK, RequestsWereValid, InProgress

\* A request that ends leaves those in progress as they were.
LEMMA EndedRequest ==
    ASSUME YearInv, NEW r \in YearRequests, EndRequest(r),
           year' \in {"none", "setup"} => year' = year
    PROVE  /\ RequestsWereValid'
           /\ yearRequest' \in
                [YearRequests -> [intent : Intents, read : YearStates] \cup {NoRequestMade}]
BY DEF YearInv, YearTypeOK, RequestsWereValid, EndRequest

\* An update is one of the four that the lifecycle knows.
LEMMA UpdateFollows ==
    ASSUME YearInv, NEW r \in YearRequests, NEW to \in {"active", "closed"},
           InProgress(r, to), year \notin Gone, TriggerAllows(r)
    PROVE  \/ to = year
           \/ <<year, to>> \in {<<"setup", "active">>, <<"active", "closed">>}
           \/ /\ year = "closed" /\ to = "active"
              /\ yearRequest[r] # NoRequestMade
              /\ yearRequest[r].intent.role = "owner" /\ yearRequest[r].intent.reasoned
<1>1. /\ yearRequest[r].intent.to = to
      /\ Valid(yearRequest[r].read, yearRequest[r].intent)
      /\ yearRequest[r].read = "active" => year \notin {"none", "setup"}
  BY RequestType
<1>2. year \in {"setup", "active", "closed"}
  BY DEF YearInv, YearTypeOK, YearStates, Gone, TriggerAllows
<1>3. CASE to = "closed"
  <2>1. yearRequest[r].read = "active"
    BY <1>1, <1>3 DEF Valid
  <2>2. QED
    BY <1>1, <1>2, <1>3, <2>1
<1>4. CASE to = "active" /\ year = "closed"
  <2>1. yearRequest[r].read = "closed" /\ yearRequest[r] # NoRequestMade
    BY <1>4 DEF TriggerAllows, Reopening, InProgress
  <2>2. yearRequest[r].intent.role = "owner" /\ yearRequest[r].intent.reasoned
    BY <1>1, <1>4, <2>1 DEF Valid
  <2>3. QED
    BY <1>4, <2>1, <2>2
<1>5. CASE to = "active" /\ year # "closed"
  BY <1>2, <1>5
<1>6. QED
  BY <1>3, <1>4, <1>5

-----------------------------------------------------------------------------
(* The invariant.                                                          *)

\* The year does not exist at first, and nobody has asked or written.
LEMMA YearInvInit == YearInit => YearInv
BY DEF YearInit, YearInv, YearTypeOK, YearStates, RequestsWereValid, PurgedYearsRest, NoRecord

\* Steps of requests.
LEMMA RequestSteps ==
    ASSUME YearInv, NEW r \in YearRequests,
           \/ ReadYear(r) \/ UpdateSchoolYearState(r) \/ DeleteSchoolYear(r)
           \/ PurgeSchoolYear(r) \/ RequestFails(r)
    PROVE  YearInv'
<1>1. CASE ReadYear(r)
  <2> PICK intent \in Intents :
        /\ Valid(year, intent)
        /\ yearRequest' = [yearRequest EXCEPT ![r] = [intent |-> intent, read |-> year]]
    BY <1>1 DEF ReadYear
  <2>1. UNCHANGED <<year, yearRecords, writer, purges>>
    BY <1>1 DEF ReadYear
  <2>2. yearRequest' \in [YearRequests -> [intent : Intents, read : YearStates] \cup {NoRequestMade}]
    BY DEF YearInv, YearTypeOK
  <2>3. RequestsWereValid'
    BY <2>1 DEF YearInv, YearTypeOK, RequestsWereValid
  <2>4. QED
    BY <2>1, <2>2, <2>3 DEF YearInv, YearTypeOK, PurgedYearsRest
<1>2. CASE UpdateSchoolYearState(r)
  <2> PICK to \in {"active", "closed"} :
        InProgress(r, to) /\ year \notin Gone /\ TriggerAllows(r) /\ year' = to
    BY <1>2 DEF UpdateSchoolYearState
  <2>1. EndRequest(r) /\ UNCHANGED <<yearRecords, writer, purges>>
    BY <1>2 DEF UpdateSchoolYearState
  <2>2. QED
    BY <2>1, EndedRequest DEF YearInv, YearTypeOK, YearStates, PurgedYearsRest
<1>3. CASE DeleteSchoolYear(r)
  BY <1>3, EndedRequest DEF DeleteSchoolYear, YearInv, YearTypeOK, YearStates, PurgedYearsRest
<1>4. CASE PurgeSchoolYear(r)
  <2>1. \A w \in Writers : writer[w] = NoRecord
    BY <1>4 DEF PurgeSchoolYear, LockYear, RowsAreFree
  <2>2. RequestsWereValid' /\ yearRequest' \in
          [YearRequests -> [intent : Intents, read : YearStates] \cup {NoRequestMade}]
    BY <1>4, EndedRequest DEF PurgeSchoolYear
  <2>3. /\ writer' = writer
        /\ \/ purges' = "refused" /\ year' = year /\ yearRecords' = yearRecords
           \/ purges' = "done" /\ year' = "purged" /\ yearRecords' = {}
    BY <1>4 DEF PurgeSchoolYear
  <2>4. QED
    BY <2>1, <2>2, <2>3 DEF YearInv, YearTypeOK, YearStates, PurgedYearsRest
<1>5. CASE RequestFails(r)
  BY <1>5, EndedRequest DEF RequestFails, YearInv, YearTypeOK, PurgedYearsRest
<1>6. QED
  BY <1>1, <1>2, <1>3, <1>4, <1>5

\* Steps of writers, whose commit finds the year unpurged.
LEMMA WriterSteps ==
    ASSUME YearInv, NEW w \in Writers,
           WriteRecord(w) \/ CommitRecord(w) \/ RollBackRecord(w)
    PROVE  YearInv'
<1>1. RequestsWereValid'
  <2>1. UNCHANGED <<year, yearRequest>>
    BY DEF WriteRecord, CommitRecord, RollBackRecord
  <2>2. QED
    BY <2>1 DEF YearInv, RequestsWereValid
<1>2. CASE WriteRecord(w)
  <2> PICK kind \in Kinds, inserts \in BOOLEAN :
        writer' = [writer EXCEPT ![w] = [kind |-> kind, inserts |-> inserts]]
    BY <1>2 DEF WriteRecord
  <2>1. year # "purged" /\ UNCHANGED <<year, yearRecords, yearRequest, purges>>
    BY <1>2 DEF WriteRecord, RecordsWritable
  <2>2. QED
    BY <1>1, <2>1 DEF YearInv, YearTypeOK, PurgedYearsRest
<1>3. CASE CommitRecord(w)
  <2>1. year # "purged" /\ writer[w].kind \in Kinds
    BY <1>3, WriterType DEF CommitRecord, YearInv, PurgedYearsRest
  <2>2. yearRecords' \subseteq Kinds
    BY <1>3, <2>1 DEF CommitRecord, YearInv, YearTypeOK
  <2>3. QED
    BY <1>1, <1>3, <2>1, <2>2 DEF CommitRecord, YearInv, YearTypeOK, PurgedYearsRest
<1>4. CASE RollBackRecord(w)
  BY <1>1, <1>4 DEF RollBackRecord, YearInv, YearTypeOK, PurgedYearsRest
<1>5. QED
  BY <1>2, <1>3, <1>4

\* Every step keeps the invariant.
LEMMA YearInvStep == YearInv /\ [YearNext]_yearVars => YearInv'
<1> SUFFICES ASSUME YearInv, [YearNext]_yearVars PROVE YearInv'
  OBVIOUS
<1>1. CASE Create
  <2>1. \A r \in YearRequests : yearRequest[r] # NoRequestMade => yearRequest[r].read # "active"
    BY <1>1 DEF Create, YearInv, RequestsWereValid
  <2>2. QED
    BY <1>1, <2>1 DEF Create, YearInv, YearTypeOK, YearStates, RequestsWereValid, PurgedYearsRest
<1>2. CASE UNCHANGED yearVars
  BY <1>2 DEF yearVars, YearInv, YearTypeOK, RequestsWereValid, PurgedYearsRest
<1>3. QED
  BY <1>1, <1>2, RequestSteps, WriterSteps DEF YearNext

\* A step from a state of the invariant stays on the lifecycle.
LEMMA LifecycleStep ==
    ASSUME YearInv, [YearNext]_yearVars
    PROVE  \/ year' = year
           \/ <<year, year'>> \in
                {<<"none", "setup">>, <<"setup", "active">>, <<"active", "closed">>,
                 <<"closed", "purged">>, <<"setup", "deleted">>, <<"active", "deleted">>}
           \/ /\ year = "closed" /\ year' = "active"
              /\ \E r \in YearRequests :
                   /\ yearRequest[r] # NoRequestMade /\ yearRequest'[r] = NoRequestMade
                   /\ yearRequest[r].intent.role = "owner"
                   /\ yearRequest[r].intent.reasoned
<1>1. ASSUME NEW r \in YearRequests, UpdateSchoolYearState(r)
      PROVE  \/ year' = year
             \/ <<year, year'>> \in {<<"setup", "active">>, <<"active", "closed">>}
             \/ /\ year = "closed" /\ year' = "active"
                /\ yearRequest[r] # NoRequestMade /\ yearRequest'[r] = NoRequestMade
                /\ yearRequest[r].intent.role = "owner" /\ yearRequest[r].intent.reasoned
  <2> PICK to \in {"active", "closed"} :
        InProgress(r, to) /\ year \notin Gone /\ TriggerAllows(r) /\ year' = to
    BY <1>1 DEF UpdateSchoolYearState
  <2>1. yearRequest'[r] = NoRequestMade
    BY <1>1 DEF UpdateSchoolYearState, EndRequest, YearInv, YearTypeOK
  <2>2. QED
    BY <2>1, UpdateFollows
<1>2. ASSUME NEW r \in YearRequests, DeleteSchoolYear(r)
      PROVE  year' = "deleted" /\ year \in {"setup", "active"}
  <2>1. yearRequest[r].intent.to = "deleted" /\ year' = "deleted" /\ year \notin Gone
    BY <1>2 DEF DeleteSchoolYear, InProgress
  <2>2. ~Reopening(r) /\ TriggerAllows(r)
    BY <1>2, <2>1 DEF DeleteSchoolYear, Reopening, InProgress
  <2>3. QED
    BY <2>1, <2>2 DEF TriggerAllows, YearInv, YearTypeOK, YearStates, Gone
<1>3. ASSUME NEW r \in YearRequests, PurgeSchoolYear(r)
      PROVE  year' = year \/ (year = "closed" /\ year' = "purged")
  BY <1>3 DEF PurgeSchoolYear
<1>4. CASE Create
  BY <1>4 DEF Create
<1>5. ASSUME NEW r \in YearRequests, ReadYear(r) \/ RequestFails(r) PROVE year' = year
  BY <1>5 DEF ReadYear, RequestFails
<1>6. ASSUME NEW w \in Writers, WriteRecord(w) \/ CommitRecord(w) \/ RollBackRecord(w)
      PROVE  year' = year
  BY <1>6 DEF WriteRecord, CommitRecord, RollBackRecord
<1>7. CASE UNCHANGED yearVars
  BY <1>7 DEF yearVars
<1>8. QED
  BY <1>1, <1>2, <1>3, <1>4, <1>5, <1>6, <1>7 DEF YearNext

-----------------------------------------------------------------------------
(* The results.                                                            *)

\* The inductive invariant holds of every behaviour.
THEOREM YearInvariant == YearSpec => []YearInv
BY YearInvInit, YearInvStep, PTL DEF YearSpec

\* The year, its requests and its writers keep their shape.
THEOREM YearTypeCorrect == YearSpec => []YearTypeOK
<1>1. YearInv => YearTypeOK
  BY DEF YearInv
<1>2. QED
  BY <1>1, YearInvariant, PTL

\* Nothing is left in a purged year, nor comes into it from a transaction that
\* was under way (purge_school_year).
THEOREM PurgeIsComplete == YearSpec => []PurgedYearsHoldNothing
<1>1. YearInv => PurgedYearsHoldNothing
  BY DEF YearInv, PurgedYearsRest, PurgedYearsHoldNothing
<1>2. QED
  BY <1>1, YearInvariant, PTL

\* Requests judged by a state that has passed stay on the lifecycle, because the
\* trigger judges again (prevent_closed_school_year_mutation).
THEOREM LifecycleIsFollowed == YearSpec => YearsFollowTheLifecycle
<1>1. YearInv /\ [YearNext]_yearVars =>
        [\/ year' = year
         \/ <<year, year'>> \in
              {<<"none", "setup">>, <<"setup", "active">>, <<"active", "closed">>,
               <<"closed", "purged">>, <<"setup", "deleted">>, <<"active", "deleted">>}
         \/ /\ year = "closed" /\ year' = "active"
            /\ \E r \in YearRequests :
                 /\ yearRequest[r] # NoRequestMade /\ yearRequest'[r] = NoRequestMade
                 /\ yearRequest[r].intent.role = "owner"
                 /\ yearRequest[r].intent.reasoned]_yearVars
  BY LifecycleStep
<1>2. QED
  BY <1>1, YearInvariant, PTL DEF YearSpec, YearsFollowTheLifecycle

-----------------------------------------------------------------------------
(* Surveys.                                                                *)

Row ==
    [state : {"draft", "open", "closed", "deleted"}, opens : Nat, closes : Nat,
     asks : QuestionSets \cup {{}}, admits : Audiences \cup {{}}]

Operations == {"none", "update", "open", "opening", "close", "reopen", "join"}

Work == [op : Operations, row : Row, adds : SUBSET Students, joins : SUBSET Students]

Submission ==
    [student : Students, areas : SUBSET Areas,
     phase : {"begun", "checked", "recorded", "dropped"}]

Shape ==
    /\ survey \in Row
    /\ invited \subseteq Students
    /\ member \subseteq Students
    /\ answers \in Seq(Submission)
    /\ now \in 1..MaxTime
    /\ pending \in [Workers -> Work]

\* A transaction that changes the state writes one in which the survey lives,
\* so that a survey that is gone is never written back.
StateChangesKeepTheSurvey ==
    \A w \in Workers : pending[w].op \in {"open", "opening", "close", "reopen"} =>
        pending[w].row.state \in {"open", "closed"}

KeptRowsAreConstrained == survey.state # "deleted" => RowConstraints(survey)

DeletedSurveysInviteNobody == survey.state = "deleted" => invited = {}

\* What CheckAnswer found stays true until the answer is recorded or the
\* survey goes; what RecordAnswer wrote stays true for good.
CheckedAnswersWereInvited ==
    \A i \in DOMAIN answers :
        answers[i].phase = "checked" /\ survey.state # "deleted" => answers[i].student \in invited

SurveyInv ==
    /\ Shape
    /\ StateChangesKeepTheSurvey
    /\ KeptRowsAreConstrained
    /\ DeletedSurveysInviteNobody
    /\ CheckedAnswersWereInvited
    /\ AnswersHaveProvenance

--------------------------------------------------------------------------------
(* The operators the steps are built from.                                 *)

\* A definition is a row.
LEMMA DefinitionsAreRows ==
    ASSUME NEW d \in Definitions
    PROVE  d \in Row /\ d.state = "draft"
BY DEF Definitions, Row, Times, Unset

\* A deleted survey is a row, and an idle worker holds one.
LEMMA NoWorkType == Deleted \in Row /\ NoWork \in Work
BY DEF Deleted, NoWork, Row, Work, Operations, Unset

\* Beginning a transaction holds well-formed work.
LEMMA BeginInv ==
    ASSUME SurveyInv, NEW w \in Workers, NEW op \in Operations, NEW row \in Row,
           NEW adds \in SUBSET Students, NEW joins \in SUBSET Students,
           op \in {"open", "opening", "close", "reopen"} => row.state \in {"open", "closed"},
           Begin(w, op, row, adds, joins)
    PROVE  SurveyInv'
<1>1. pending' = [pending EXCEPT ![w] = [op |-> op, row |-> row, adds |-> adds, joins |-> joins]]
  BY DEF Begin
<1>2. UNCHANGED <<survey, invited, member, answers, now>>
  BY DEF Begin
<1>3. [op |-> op, row |-> row, adds |-> adds, joins |-> joins] \in Work
  BY DEF Work
<1>4. Shape'
  BY <1>1, <1>2, <1>3 DEF SurveyInv, Shape
<1>5. StateChangesKeepTheSurvey'
  BY <1>1 DEF SurveyInv, Shape, StateChangesKeepTheSurvey
<1>6. QED
  BY <1>2, <1>4, <1>5 DEF SurveyInv, KeptRowsAreConstrained, RowConstraints,
     DeletedSurveysInviteNobody, CheckedAnswersWereInvited, AnswersHaveProvenance, Recorded

\* Ending one, by any of the steps that do, leaves an idle worker behind.
LEMMA IdleWorker ==
    ASSUME SurveyInv, NEW w \in Workers, pending' = [pending EXCEPT ![w] = NoWork]
    PROVE  pending' \in [Workers -> Work] /\ StateChangesKeepTheSurvey'
<1>1. pending' \in [Workers -> Work]
  BY NoWorkType DEF SurveyInv, Shape
<1>2. StateChangesKeepTheSurvey'
  BY DEF SurveyInv, Shape, StateChangesKeepTheSurvey, NoWork
<1>3. QED
  BY <1>1, <1>2

\* Writing a row in which the survey lives, with the audience it had or more.
LEMMA WriteInv ==
    ASSUME SurveyInv, NEW w \in Workers, NEW op, NEW row \in Row, row.state # "deleted",
           Write(w, op, row), invited' \subseteq Students, invited \subseteq invited'
    PROVE  SurveyInv'
<1>1. /\ survey' = row /\ survey.state # "deleted" /\ RowConstraints(row)
      /\ UNCHANGED <<member, answers, now>>
  BY DEF Write
<1>2. pending' \in [Workers -> Work] /\ StateChangesKeepTheSurvey'
  BY IdleWorker DEF Write
<1>3. Shape'
  BY <1>1, <1>2 DEF SurveyInv, Shape
<1>4. KeptRowsAreConstrained' /\ DeletedSurveysInviteNobody'
  BY <1>1 DEF KeptRowsAreConstrained, RowConstraints, DeletedSurveysInviteNobody
<1>5. CheckedAnswersWereInvited' /\ AnswersHaveProvenance'
  BY <1>1 DEF SurveyInv, CheckedAnswersWereInvited, AnswersHaveProvenance, Recorded
<1>6. QED
  BY <1>2, <1>3, <1>4, <1>5 DEF SurveyInv

\* A state change writes a row in which the survey lives.
LEMMA StateChangeType ==
    ASSUME SurveyInv, NEW w \in Workers, pending[w].op \in {"opening", "close", "reopen"}
    PROVE  StateChange(w) \in Row /\ StateChange(w).state # "deleted"
<1>1. pending[w] \in Work /\ pending[w].row.state \in {"open", "closed"}
  BY DEF SurveyInv, Shape, StateChangesKeepTheSurvey
<1>2. QED
  BY <1>1 DEF SurveyInv, Shape, StateChange, Work, Row

--------------------------------------------------------------------------------
(* The steps of organizers.                                                *)

\* The first statement of every organizer's transaction only takes work in hand.
LEMMA OrganizerReads ==
    ASSUME SurveyInv, NEW w \in Workers,
           \/ \E d \in Definitions : ReadForUpdate(w, d)
           \/ \E closing \in Times \cup {Unset} : ReadForOpen(w, closing)
           \/ ReadForClose(w)
           \/ \E closing \in Times : ReadForReopen(w, closing)
           \/ \E s \in Students : ReadForJoin(w, s)
    PROVE  SurveyInv'
<1>1. survey \in Row /\ now \in Nat
  BY DEF SurveyInv, Shape
<1>2. ASSUME NEW d \in Definitions, ReadForUpdate(w, d)
      PROVE  SurveyInv'
  <2>1. Begin(w, "update", d, {}, {})
    BY <1>2 DEF ReadForUpdate
  <2>2. QED
    BY <2>1, BeginInv, DefinitionsAreRows DEF Operations
<1>3. ASSUME NEW closing \in Times \cup {Unset}, ReadForOpen(w, closing)
      PROVE  SurveyInv'
  <2> DEFINE closes == IF closing = Unset THEN survey.closes ELSE closing
             opens  == IF survey.opens = Unset THEN now ELSE survey.opens
             row    == [survey EXCEPT !.state = "open", !.opens = opens, !.closes = closes]
  <2>1. Begin(w, "open", row, {}, {})
    BY <1>3 DEF ReadForOpen
  <2>2. closes \in Nat /\ opens \in Nat
    BY <1>1 DEF Row, Times, Unset
  <2>3. row \in Row /\ row.state = "open"
    BY <1>1, <2>2 DEF Row
  <2> HIDE DEF row
  <2>4. QED
    BY <2>1, <2>3, BeginInv DEF Operations
<1>4. ASSUME ReadForClose(w)
      PROVE  SurveyInv'
  <2> DEFINE row == [survey EXCEPT !.state = "closed"]
  <2>1. Begin(w, "close", row, {}, {})
    BY <1>4 DEF ReadForClose
  <2>2. row \in Row /\ row.state = "closed"
    BY <1>1 DEF Row
  <2> HIDE DEF row
  <2>3. QED
    BY <2>1, <2>2, BeginInv DEF Operations
<1>5. ASSUME NEW closing \in Times, ReadForReopen(w, closing)
      PROVE  SurveyInv'
  <2> DEFINE row == [survey EXCEPT !.state = "open", !.opens = now, !.closes = closing]
  <2>1. Begin(w, "reopen", row, {}, {})
    BY <1>5 DEF ReadForReopen
  <2>2. closing \in Nat
    BY DEF Times
  <2>3. row \in Row /\ row.state = "open"
    BY <1>1, <2>2 DEF Row
  <2> HIDE DEF row
  <2>4. QED
    BY <2>1, <2>3, BeginInv DEF Operations
<1>6. ASSUME NEW s \in Students, ReadForJoin(w, s)
      PROVE  SurveyInv'
  <2> DEFINE adds == IF survey.opens # Unset /\ Accepting(survey) /\ s \in survey.admits
                     THEN {s} ELSE {}
  <2>1. Begin(w, "join", survey, adds, {s})
    BY <1>6 DEF ReadForJoin
  <2>2. adds \in SUBSET Students
    OBVIOUS
  <2> HIDE DEF adds
  <2>3. QED
    BY <1>1, <2>1, <2>2, BeginInv DEF Operations
<1>7. QED
  BY <1>2, <1>3, <1>4, <1>5, <1>6

\* What was taken in hand is fit to be written over whatever the row is by then.
LEMMA OrganizerWrites ==
    ASSUME SurveyInv, NEW w \in Workers,
           UpdateSurvey(w) \/ OpenSurvey(w) \/ CloseSurvey(w) \/ ReopenSurvey(w)
    PROVE  SurveyInv'
<1>1. /\ survey \in Row /\ invited \subseteq Students
      /\ pending[w] \in Work
  BY DEF SurveyInv, Shape
<1>2. ASSUME UpdateSurvey(w)
      PROVE  SurveyInv'
  <2> DEFINE row == [pending[w].row EXCEPT !.state = survey.state]
  <2>1. Write(w, "update", row) /\ invited' = invited /\ survey.state # "deleted"
    BY <1>2 DEF UpdateSurvey, Write
  <2>2. row \in Row /\ row.state # "deleted"
    BY <1>1, <2>1 DEF Row, Work
  <2> HIDE DEF row
  <2>3. QED
    BY <1>1, <2>1, <2>2, WriteInv
<1>3. ASSUME OpenSurvey(w)
      PROVE  SurveyInv'
  <2>1. Write(w, "opening", StateChange(w)) /\ invited' = invited \cup pending[w].adds
    BY <1>3 DEF OpenSurvey
  <2>2. pending[w].adds \subseteq Students
    BY <1>1 DEF Work
  <2>3. QED
    BY <1>1, <2>1, <2>2, WriteInv, StateChangeType DEF Write
<1>4. ASSUME CloseSurvey(w)
      PROVE  SurveyInv'
  <2>1. Write(w, "close", StateChange(w)) /\ invited' = invited
    BY <1>4 DEF CloseSurvey
  <2>2. QED
    BY <1>1, <2>1, WriteInv, StateChangeType DEF Write
<1>5. ASSUME ReopenSurvey(w)
      PROVE  SurveyInv'
  <2>1. Write(w, "reopen", StateChange(w)) /\ invited' = invited
    BY <1>5 DEF ReopenSurvey
  <2>2. QED
    BY <1>1, <2>1, WriteInv, StateChangeType DEF Write
<1>6. QED
  BY <1>2, <1>3, <1>4, <1>5

\* The statement of an opening that reads the members.
LEMMA SnapshotAudienceInv ==
    ASSUME SurveyInv, NEW w \in Workers, SnapshotAudience(w)
    PROVE  SurveyInv'
<1> DEFINE adds == member \cap pending[w].row.admits
           work == [pending[w] EXCEPT !.op = "opening", !.adds = adds]
<1>1. pending[w] \in Work /\ pending[w].row.state \in {"open", "closed"}
  BY DEF SurveyInv, Shape, StateChangesKeepTheSurvey, SnapshotAudience
<1>2. adds \in SUBSET Students
  BY DEF SurveyInv, Shape
<1>3. work \in Work /\ work.row.state \in {"open", "closed"}
  BY <1>1, <1>2 DEF Work, Operations
<1>4. pending' = [pending EXCEPT ![w] = work]
  BY DEF SnapshotAudience
<1>5. UNCHANGED <<survey, invited, member, answers, now>>
  BY DEF SnapshotAudience
<1> HIDE DEF work
<1>6. Shape'
  BY <1>3, <1>4, <1>5 DEF SurveyInv, Shape
<1>7. StateChangesKeepTheSurvey'
  BY <1>3, <1>4 DEF SurveyInv, Shape, StateChangesKeepTheSurvey
<1>8. QED
  BY <1>5, <1>6, <1>7 DEF SurveyInv, KeptRowsAreConstrained, RowConstraints,
     DeletedSurveysInviteNobody, CheckedAnswersWereInvited, AnswersHaveProvenance, Recorded

\* A member who joins is invited to the surveys found accepting, if they remain.
LEMMA AddMembershipInv ==
    ASSUME SurveyInv, NEW w \in Workers, AddMembership(w)
    PROVE  SurveyInv'
<1>1. /\ pending[w] \in Work
      /\ pending[w].adds # {} => survey.state # "deleted"
      /\ member' = member \cup pending[w].joins
      /\ invited' = invited \cup pending[w].adds
      /\ UNCHANGED <<survey, answers, now>>
  BY DEF SurveyInv, Shape, AddMembership
<1>2. pending' \in [Workers -> Work] /\ StateChangesKeepTheSurvey'
  BY IdleWorker DEF AddMembership
<1>3. Shape'
  BY <1>1, <1>2 DEF SurveyInv, Shape, Work
<1>4. KeptRowsAreConstrained' /\ DeletedSurveysInviteNobody'
  BY <1>1 DEF SurveyInv, KeptRowsAreConstrained, RowConstraints, DeletedSurveysInviteNobody
<1>5. CheckedAnswersWereInvited' /\ AnswersHaveProvenance'
  BY <1>1 DEF SurveyInv, CheckedAnswersWereInvited, AnswersHaveProvenance, Recorded
<1>6. QED
  BY <1>2, <1>3, <1>4, <1>5 DEF SurveyInv

\* A transaction that fails leaves the tables as they were.
LEMMA AbortInv ==
    ASSUME SurveyInv, NEW w \in Workers, Abort(w)
    PROVE  SurveyInv'
<1>1. pending' \in [Workers -> Work] /\ StateChangesKeepTheSurvey'
  BY IdleWorker DEF Abort
<1>2. QED
  BY <1>1 DEF Abort, SurveyInv, Shape, KeptRowsAreConstrained, RowConstraints,
     DeletedSurveysInviteNobody, CheckedAnswersWereInvited, AnswersHaveProvenance, Recorded

\* Deletion is final and leaves no submission on record.
LEMMA DeleteSurveyInv ==
    ASSUME SurveyInv, DeleteSurvey
    PROVE  SurveyInv'
<1>1. /\ survey' = Deleted /\ invited' = {} /\ Recorded = {}
      /\ UNCHANGED <<member, answers, now, pending>>
  BY DEF DeleteSurvey
<1>2. survey'.state = "deleted" /\ survey' \in Row
  BY <1>1, NoWorkType DEF Deleted
<1>3. Recorded' = {}
  BY <1>1 DEF Recorded
<1>4. QED
  BY <1>1, <1>2, <1>3 DEF SurveyInv, Shape, StateChangesKeepTheSurvey, KeptRowsAreConstrained,
     DeletedSurveysInviteNobody, CheckedAnswersWereInvited, AnswersHaveProvenance

\* A student with a submission on record stays a member.
LEMMA DeleteMembershipInv ==
    ASSUME SurveyInv, NEW s \in Students, DeleteMembership(s)
    PROVE  SurveyInv'
<1>1. /\ member' = member \ {s} /\ \A i \in Recorded : answers[i].student # s
      /\ UNCHANGED <<survey, invited, answers, now, pending>>
  BY DEF DeleteMembership
<1>2. AnswersHaveProvenance'
  BY <1>1 DEF SurveyInv, AnswersHaveProvenance, Recorded
<1>3. QED
  BY <1>1, <1>2 DEF SurveyInv, Shape, StateChangesKeepTheSurvey, KeptRowsAreConstrained,
     RowConstraints, DeletedSurveysInviteNobody, CheckedAnswersWereInvited

--------------------------------------------------------------------------------
(* The steps of submissions.                                               *)

\* A step of a submission moves it from one phase to another and no other one.
LEMMA AnswerStepEffect ==
    ASSUME SurveyInv, NEW i \in DOMAIN answers, NEW from,
           NEW to \in {"begun", "checked", "recorded", "dropped"}, AnswerStep(i, from, to)
    PROVE  /\ answers' \in Seq(Submission)
           /\ DOMAIN answers' = DOMAIN answers
           /\ answers[i].phase = from
           /\ answers'[i] = [answers[i] EXCEPT !.phase = to]
           /\ answers'[i].phase = to
           /\ answers'[i].student = answers[i].student
           /\ answers'[i].areas = answers[i].areas
           /\ \A j \in DOMAIN answers \ {i} : answers'[j] = answers[j]
<1>1. answers' = [answers EXCEPT ![i] = [answers[i] EXCEPT !.phase = to]] /\ answers[i].phase = from
  BY DEF AnswerStep
<1>2. answers \in Seq(Submission) /\ answers[i] \in Submission
  BY DEF SurveyInv, Shape
<1>3. [answers[i] EXCEPT !.phase = to] \in Submission
  BY <1>2 DEF Submission
<1>4. answers' \in Seq(Submission)
  BY <1>1, <1>2, <1>3
<1>5. QED
  BY <1>1, <1>2, <1>4 DEF Submission

\* Submissions change nothing but themselves.
LEMMA SubmissionFrame ==
    ASSUME SurveyInv, UNCHANGED <<survey, invited, member, now, pending>>,
           answers' \in Seq(Submission), CheckedAnswersWereInvited', AnswersHaveProvenance'
    PROVE  SurveyInv'
BY DEF SurveyInv, Shape, StateChangesKeepTheSurvey, KeptRowsAreConstrained, RowConstraints,
   DeletedSurveysInviteNobody

\* A submission that begins is neither checked nor recorded.
LEMMA BeginAnswerEffect ==
    ASSUME SurveyInv, NEW s \in Students, NEW areas \in SUBSET Areas, BeginAnswer(s, areas)
    PROVE  /\ answers' \in Seq(Submission)
           /\ DOMAIN answers \subseteq DOMAIN answers'
           /\ \A j \in DOMAIN answers : answers'[j] = answers[j]
           /\ \A j \in DOMAIN answers' \ DOMAIN answers : answers'[j].phase = "begun"
<1> DEFINE a == [student |-> s, areas |-> areas, phase |-> "begun"]
<1>1. answers \in Seq(Submission) /\ a \in Submission
  BY DEF SurveyInv, Shape, Submission
<1>2. answers' = Append(answers, a) /\ a.phase = "begun"
  BY DEF BeginAnswer
<1> HIDE DEF a
<1>3. QED
  BY <1>1, <1>2

\* A submission is checked before it is recorded, and either may come too late.
LEMMA SubmissionStepInv ==
    ASSUME SurveyInv, SubmissionStep
    PROVE  SurveyInv'
<1>1. ASSUME NEW s \in Students, NEW areas \in SUBSET Areas, BeginAnswer(s, areas)
      PROVE  SurveyInv'
  <2>1. UNCHANGED <<survey, invited, member, now, pending>>
    BY <1>1 DEF BeginAnswer
  <2>2. CheckedAnswersWereInvited' /\ AnswersHaveProvenance'
    BY <1>1, <2>1, BeginAnswerEffect
    DEF SurveyInv, CheckedAnswersWereInvited, AnswersHaveProvenance, Recorded
  <2>3. QED
    BY <1>1, <2>1, <2>2, BeginAnswerEffect, SubmissionFrame
<1>2. ASSUME NEW i \in DOMAIN answers, CheckAnswer(i)
      PROVE  SurveyInv'
  <2>1. AnswerStep(i, "begun", "checked") /\ answers[i].student \in invited
    BY <1>2 DEF CheckAnswer
  <2>2. UNCHANGED <<survey, invited, member, now, pending>>
    BY <2>1 DEF AnswerStep
  <2>3. /\ DOMAIN answers' = DOMAIN answers
        /\ answers'[i].phase = "checked" /\ answers'[i].student = answers[i].student
        /\ \A j \in DOMAIN answers \ {i} : answers'[j] = answers[j]
    BY <2>1, AnswerStepEffect
  <2>4. CheckedAnswersWereInvited'
    BY <2>1, <2>2, <2>3 DEF SurveyInv, CheckedAnswersWereInvited
  <2>5. AnswersHaveProvenance'
    BY <2>2, <2>3 DEF SurveyInv, AnswersHaveProvenance, Recorded
  <2>6. QED
    BY <2>1, <2>2, <2>4, <2>5, AnswerStepEffect, SubmissionFrame
<1>3. ASSUME NEW i \in DOMAIN answers, RecordAnswer(i)
      PROVE  SurveyInv'
  <2>1. /\ AnswerStep(i, "checked", "recorded")
        /\ survey.state # "deleted" /\ answers[i].student \in member
    BY <1>3 DEF RecordAnswer
  <2>2. UNCHANGED <<survey, invited, member, now, pending>>
    BY <2>1 DEF AnswerStep
  <2>3. answers[i].student \in invited
    BY <2>1, AnswerStepEffect DEF SurveyInv, CheckedAnswersWereInvited
  <2>4. /\ DOMAIN answers' = DOMAIN answers
        /\ answers'[i].phase = "recorded" /\ answers'[i].student = answers[i].student
        /\ \A j \in DOMAIN answers \ {i} : answers'[j] = answers[j]
    BY <2>1, AnswerStepEffect
  <2>5. CheckedAnswersWereInvited'
    BY <2>2, <2>4 DEF SurveyInv, CheckedAnswersWereInvited
  <2>6. AnswersHaveProvenance'
    BY <2>1, <2>2, <2>3, <2>4 DEF SurveyInv, AnswersHaveProvenance, Recorded
  <2>7. QED
    BY <2>1, <2>2, <2>5, <2>6, AnswerStepEffect, SubmissionFrame
<1>4. ASSUME NEW i \in DOMAIN answers, DropAnswer(i)
      PROVE  SurveyInv'
  <2>1. PICK from \in {"begun", "checked"} : AnswerStep(i, from, "dropped")
    BY <1>4 DEF DropAnswer
  <2>2. UNCHANGED <<survey, invited, member, now, pending>>
    BY <2>1 DEF AnswerStep
  <2>3. /\ DOMAIN answers' = DOMAIN answers /\ answers'[i].phase = "dropped"
        /\ \A j \in DOMAIN answers \ {i} : answers'[j] = answers[j]
    BY <2>1, AnswerStepEffect
  <2>4. CheckedAnswersWereInvited'
    BY <2>2, <2>3 DEF SurveyInv, CheckedAnswersWereInvited
  <2>5. AnswersHaveProvenance'
    BY <2>2, <2>3 DEF SurveyInv, AnswersHaveProvenance, Recorded
  <2>6. QED
    BY <2>1, <2>2, <2>4, <2>5, AnswerStepEffect, SubmissionFrame
<1>5. QED
  BY <1>1, <1>2, <1>3, <1>4 DEF SubmissionStep

--------------------------------------------------------------------------------
(* The inductive invariant.                                                *)

\* A new survey is a draft nobody is invited to.
LEMMA SurveyInvInit == SurveyInit => SurveyInv
<1> SUFFICES ASSUME SurveyInit PROVE SurveyInv
  OBVIOUS
<1>1. survey \in Row /\ survey.state = "draft" /\ RowConstraints(survey)
  BY DefinitionsAreRows DEF SurveyInit
<1>2. Shape
  BY <1>1, NoWorkType, SurveyAssumption DEF SurveyInit, Shape, SurveyAssumption
<1>3. StateChangesKeepTheSurvey
  BY DEF SurveyInit, StateChangesKeepTheSurvey, NoWork
<1>4. QED
  BY <1>1, <1>2, <1>3 DEF SurveyInit, SurveyInv, KeptRowsAreConstrained,
     DeletedSurveysInviteNobody, CheckedAnswersWereInvited, AnswersHaveProvenance, Recorded

\* Every step preserves the invariant.
LEMMA SurveyInvNext == SurveyInv /\ [SurveyNext]_surveyVars => SurveyInv'
<1> SUFFICES ASSUME SurveyInv, [SurveyNext]_surveyVars PROVE SurveyInv'
  OBVIOUS
<1>1. ASSUME NEW w \in Workers, OrganizerStep(w)
      PROVE  SurveyInv'
  BY <1>1, OrganizerReads, OrganizerWrites, SnapshotAudienceInv, AddMembershipInv, AbortInv
  DEF OrganizerStep
<1>2. CASE DeleteSurvey
  BY <1>2, DeleteSurveyInv
<1>3. ASSUME NEW s \in Students, DeleteMembership(s)
      PROVE  SurveyInv'
  BY <1>3, DeleteMembershipInv
<1>4. CASE SubmissionStep
  BY <1>4, SubmissionStepInv
<1>5. CASE Tick
  <2>1. Shape'
    BY <1>5, SurveyAssumption DEF Tick, SurveyInv, Shape, SurveyAssumption
  <2>2. QED
    BY <1>5, <2>1 DEF Tick, SurveyInv, StateChangesKeepTheSurvey, KeptRowsAreConstrained,
       RowConstraints, DeletedSurveysInviteNobody, CheckedAnswersWereInvited,
       AnswersHaveProvenance, Recorded
<1>6. CASE UNCHANGED surveyVars
  BY <1>6 DEF surveyVars, SurveyInv, Shape, StateChangesKeepTheSurvey, KeptRowsAreConstrained,
     RowConstraints, DeletedSurveysInviteNobody, CheckedAnswersWereInvited,
     AnswersHaveProvenance, Recorded
<1>7. QED
  BY <1>1, <1>2, <1>3, <1>4, <1>5, <1>6 DEF SurveyNext

\* The invariant behind the results below: what the transactions in progress
\* hold is well formed and never brings a deleted survey back, and a checked
\* answer stays that of an invited student.
THEOREM SurveyConsistent == SurveySpec => []SurveyInv
BY SurveyInvInit, SurveyInvNext, PTL DEF SurveySpec

\* Rows and transactions are well formed in every reachable state.
THEOREM SurveyTypeCorrect == SurveySpec => []SurveyTypeOK
<1>1. SurveyInv => \A i \in DOMAIN answers : answers[i] \in Submission
  BY DEF SurveyInv, Shape
<1>2. SurveyInv => SurveyTypeOK
  BY <1>1 DEF SurveyInv, Shape, Row, Submission, DeletedSurveysInviteNobody, SurveyTypeOK
<1>3. QED
  BY <1>2, SurveyConsistent, PTL

\* An opened survey has a closing time, and one after its opening, whatever
\* edits of the draft commit after the opening (the checks of the table).
THEOREM OpenedSurveysCloseAlways == SurveySpec => []OpenedSurveysClose
<1>1. SurveyInv => OpenedSurveysClose
  BY DEF SurveyInv, Shape, Row, KeptRowsAreConstrained, RowConstraints, OpenedSurveysClose, Unset
<1>2. QED
  BY <1>1, SurveyConsistent, PTL

\* A submission on record is that of an invited member of the program to a
\* survey that is kept, although invitation and membership are checked in
\* statements before the one that records it (EnsureInvited, RecordSubmission).
THEOREM ProvenanceKept == SurveySpec => []AnswersHaveProvenance
<1>1. SurveyInv => AnswersHaveProvenance
  BY DEF SurveyInv
<1>2. QED
  BY <1>1, SurveyConsistent, PTL

--------------------------------------------------------------------------------
(* Ratings.                                                                *)

\* A step of a submission adds at most the one it records.
LEMMA RecordedGrows ==
    ASSUME SurveyInv, SubmissionStep
    PROVE  /\ Recorded \subseteq Recorded'
           /\ \A i \in Recorded : answers'[i].student = answers[i].student
                                  /\ answers'[i].areas = answers[i].areas
           /\ \E k \in Nat : Recorded' \subseteq Recorded \cup {k}
<1>1. DOMAIN answers \subseteq Nat
  BY DEF SurveyInv, Shape
<1>2. ASSUME NEW s \in Students, NEW areas \in SUBSET Areas, BeginAnswer(s, areas)
      PROVE  Recorded' = Recorded /\ \A i \in Recorded : answers'[i] = answers[i]
  BY <1>2, BeginAnswerEffect DEF Recorded
<1>3. ASSUME NEW i \in DOMAIN answers, NEW from \in {"begun", "checked"},
             NEW to \in {"checked", "recorded", "dropped"}, AnswerStep(i, from, to)
      PROVE  /\ Recorded \subseteq Recorded'
             /\ Recorded' \subseteq Recorded \cup {i}
             /\ \A j \in Recorded : answers'[j] = answers[j]
  <2>1. /\ DOMAIN answers' = DOMAIN answers
        /\ answers[i].phase = from
        /\ \A j \in DOMAIN answers \ {i} : answers'[j] = answers[j]
    <3>1. answers' = [answers EXCEPT ![i].phase = to] /\ answers[i].phase = from
      BY <1>3 DEF AnswerStep
    <3>2. QED
      BY <3>1
  <2>2. i \notin Recorded
    BY <2>1 DEF Recorded
  <2>3. QED
    BY <2>1, <2>2 DEF Recorded
<1>4. CASE \E s \in Students, areas \in (SUBSET Areas) \ {{}} : BeginAnswer(s, areas)
  BY <1>2, <1>4
<1>5. CASE \E i \in DOMAIN answers : CheckAnswer(i) \/ RecordAnswer(i) \/ DropAnswer(i)
  <2>1. PICK i \in DOMAIN answers, from \in {"begun", "checked"},
             to \in {"checked", "recorded", "dropped"} : AnswerStep(i, from, to)
    BY <1>5 DEF CheckAnswer, RecordAnswer, DropAnswer
  <2>2. QED
    BY <1>1, <1>3, <2>1
<1>6. QED
  BY <1>4, <1>5 DEF SubmissionStep

\* Every other step leaves the submissions alone.
LEMMA AnswersStay ==
    ASSUME SurveyInv, [SurveyNext]_surveyVars
    PROVE  SubmissionStep \/ answers' = answers
<1>1. ASSUME NEW w \in Workers, OrganizerStep(w)
      PROVE  answers' = answers
  BY <1>1 DEF OrganizerStep, ReadForUpdate, UpdateSurvey, ReadForOpen, SnapshotAudience, OpenSurvey,
     ReadForClose, CloseSurvey, ReadForReopen, ReopenSurvey, ReadForJoin, AddMembership, Abort,
     Begin, Write
<1>2. QED
  BY <1>1 DEF SurveyNext, surveyVars, DeleteSurvey, DeleteMembership, Tick

\* No step takes a rating away: the submission that holds it still does, or
\* one that began later and rates the same area (effectiveInterestRatings).
LEMMA RatingsStep ==
    ASSUME SurveyInv, [SurveyNext]_surveyVars, NEW s \in Students, NEW area \in Areas,
           NEW i \in EffectiveRating(s, area)
    PROVE  \E j \in EffectiveRating(s, area)' : i <= j
<1> DEFINE rating == {x \in Recorded : answers[x].student = s /\ area \in answers[x].areas}
<1>1. Recorded \subseteq Nat
  BY DEF SurveyInv, Shape, Recorded
<1>2. i \in rating /\ \A x \in rating : x <= i
  BY DEF EffectiveRating
<1>3. CASE answers' = answers
  <2>1. EffectiveRating(s, area)' = EffectiveRating(s, area)
    BY <1>3 DEF EffectiveRating, Recorded
  <2>2. QED
    BY <1>1, <1>2, <2>1
<1>4. CASE SubmissionStep
  <2>1. PICK k \in Nat : Recorded' \subseteq Recorded \cup {k}
    BY <1>4, RecordedGrows
  <2>2. rating \subseteq rating' /\ rating' \subseteq rating \cup {k}
    BY <1>4, <2>1, RecordedGrows
  <2>3. CASE k \in rating' /\ i <= k
    <3>1. \A x \in rating' : x <= k
      <4> SUFFICES ASSUME NEW x \in rating' PROVE x <= k
        OBVIOUS
      <4>1. x = k \/ x \in rating
        BY <2>2
      <4>2. x \in rating => x <= i /\ x \in Nat /\ i \in Nat
        BY <1>1, <1>2
      <4>3. QED
        BY <2>3, <4>1, <4>2
    <3>2. k \in EffectiveRating(s, area)'
      BY <2>3, <3>1 DEF EffectiveRating
    <3>3. QED
      BY <2>3, <3>2
  <2>4. CASE ~(k \in rating' /\ i <= k)
    <3>1. \A x \in rating' : x <= i
      <4> SUFFICES ASSUME NEW x \in rating' PROVE x <= i
        OBVIOUS
      <4>1. x = k \/ x \in rating
        BY <2>2
      <4>2. i \in Nat /\ (x \in rating => x <= i)
        BY <1>1, <1>2
      <4>3. QED
        BY <2>1, <2>4, <4>1, <4>2
    <3>2. i \in EffectiveRating(s, area)'
      BY <1>2, <2>2, <3>1 DEF EffectiveRating
    <3>3. QED
      BY <1>1, <1>2, <3>2
  <2>5. QED
    BY <2>3, <2>4
<1>5. QED
  BY <1>3, <1>4, AnswersStay

\* Omitting an area from a later survey never clears an earlier rating.
THEOREM RatingsAlwaysKept == SurveySpec => RatingsAreKept
<1>1. SurveyInv /\ [SurveyNext]_surveyVars =>
          [\A s \in Students, area \in Areas : \A i \in EffectiveRating(s, area) :
              \E j \in EffectiveRating(s, area)' : i <= j]_surveyVars
  BY RatingsStep
<1>2. QED
  BY <1>1, SurveyConsistent, PTL DEF SurveySpec, RatingsAreKept

--------------------------------------------------------------------------------
(* Definitions.  An update read before an opening may be written after it  *)
(* (DefinitionsLockWhenOpened is not a theorem), and that is the only way  *)
(* to change what has been opened.                                         *)

\* A survey is opened only while no update of its definition is under way.
OpeningsFindNoUpdate ==
    [][survey.state = "draft" /\ survey'.state \in {"open", "closed"} =>
          \A w \in Workers : pending[w].op # "update"]_surveyVars

\* The inductive invariant: what is opened has no update left to come.
OpenedDefinitionsAreSettled ==
    survey.state \in {"open", "closed"} => \A w \in Workers : pending[w].op # "update"

DefinitionStays ==
    survey.state \in {"open", "closed"} /\ survey'.state # "deleted" =>
        survey'.asks = survey.asks /\ survey'.admits = survey.admits

\* A step that leaves the survey alone, and begins an update in a draft at most.
LEMMA UnwrittenSurveySettled ==
    ASSUME OpenedDefinitionsAreSettled, survey' = survey,
           \A w \in Workers : pending'[w].op = "update" =>
               pending[w].op = "update" \/ survey.state = "draft"
    PROVE  OpenedDefinitionsAreSettled' /\ DefinitionStays
BY DEF OpenedDefinitionsAreSettled, DefinitionStays

\* A transaction that begins is an update only if the survey is a draft.
LEMMA BegunInADraft ==
    ASSUME SurveyInv, OpenedDefinitionsAreSettled, NEW w \in Workers, NEW op, NEW row, NEW adds,
           NEW joins, Begin(w, op, row, adds, joins), op = "update" => survey.state = "draft"
    PROVE  OpenedDefinitionsAreSettled' /\ DefinitionStays
<1>1. survey' = survey
  BY DEF Begin
<1>2. \A v \in Workers : v # w => pending'[v] = pending[v]
  BY DEF Begin, SurveyInv, Shape
<1>3. pending'[w].op = op
  BY DEF Begin, SurveyInv, Shape
<1>4. QED
  BY <1>1, <1>2, <1>3, UnwrittenSurveySettled

\* A transaction that ends without a write of the survey begins no update.
LEMMA EndedWithoutAWrite ==
    ASSUME SurveyInv, OpenedDefinitionsAreSettled, NEW w \in Workers, survey' = survey,
           pending' = [pending EXCEPT ![w] = NoWork]
    PROVE  OpenedDefinitionsAreSettled' /\ DefinitionStays
<1>1. \A v \in Workers : pending'[v] = pending[v] \/ pending'[v] = NoWork
  BY DEF SurveyInv, Shape
<1>2. NoWork.op # "update"
  BY DEF NoWork
<1>3. QED
  BY <1>1, <1>2, UnwrittenSurveySettled

\* A change of the state writes no definition, and none is in the way when the
\* survey leaves its draft.
LEMMA StateChangesSettle ==
    ASSUME SurveyInv, OpenedDefinitionsAreSettled, NEW w \in Workers, NEW op,
           Write(w, op, StateChange(w)),
           survey.state = "draft" /\ survey'.state \in {"open", "closed"} =>
               \A v \in Workers : pending[v].op # "update"
    PROVE  OpenedDefinitionsAreSettled' /\ DefinitionStays
<1>1. /\ survey' = StateChange(w) /\ survey.state # "deleted"
      /\ pending' = [pending EXCEPT ![w] = NoWork]
  BY DEF Write
<1>2. survey'.asks = survey.asks /\ survey'.admits = survey.admits
  BY <1>1 DEF StateChange, SurveyInv, Shape, Row
<1>3. survey.state \in {"draft", "open", "closed"}
  BY <1>1 DEF SurveyInv, Shape, Row
<1>4. \A v \in Workers : pending'[v] = pending[v] \/ pending'[v] = NoWork
  BY <1>1 DEF SurveyInv, Shape
<1>5. NoWork.op # "update"
  BY DEF NoWork
<1>6. OpenedDefinitionsAreSettled'
  BY <1>3, <1>4, <1>5 DEF OpenedDefinitionsAreSettled
<1>7. QED
  BY <1>2, <1>6 DEF DefinitionStays

\* The steps of organizers.
LEMMA OrganizersSettle ==
    ASSUME SurveyInv, OpenedDefinitionsAreSettled, NEW w \in Workers, OrganizerStep(w),
           survey.state = "draft" /\ survey'.state \in {"open", "closed"} =>
               \A v \in Workers : pending[v].op # "update"
    PROVE  OpenedDefinitionsAreSettled' /\ DefinitionStays
<1>1. CASE \E d \in Definitions : ReadForUpdate(w, d)
  <2>1. PICK d \in Definitions : ReadForUpdate(w, d)
    BY <1>1
  <2>2. survey.state = "draft" /\ Begin(w, "update", d, {}, {})
    BY <2>1 DEF ReadForUpdate, Effective
  <2>3. QED
    BY <2>2, BegunInADraft
<1>2. ASSUME NEW op \in {"open", "close", "reopen", "join"}, NEW row, NEW adds, NEW joins,
             Begin(w, op, row, adds, joins)
      PROVE  OpenedDefinitionsAreSettled' /\ DefinitionStays
  BY <1>2, BegunInADraft
<1>3. CASE \/ \E closing \in Times \cup {Unset} : ReadForOpen(w, closing)
           \/ ReadForClose(w)
           \/ \E closing \in Times : ReadForReopen(w, closing)
           \/ \E s \in Students : ReadForJoin(w, s)
  <2>1. CASE \E closing \in Times \cup {Unset} : ReadForOpen(w, closing)
    BY <1>2, <2>1 DEF ReadForOpen
  <2>2. CASE ReadForClose(w)
    BY <1>2, <2>2 DEF ReadForClose
  <2>3. CASE \E closing \in Times : ReadForReopen(w, closing)
    BY <1>2, <2>3 DEF ReadForReopen
  <2>4. CASE \E s \in Students : ReadForJoin(w, s)
    BY <1>2, <2>4 DEF ReadForJoin
  <2>5. QED
    BY <1>3, <2>1, <2>2, <2>3, <2>4
<1>4. CASE UpdateSurvey(w)
  <2>1. /\ pending[w].op = "update" /\ survey.state # "deleted"
        /\ survey'.state = survey.state
    BY <1>4 DEF UpdateSurvey, Write, SurveyInv, Shape, Work, Row
  <2>2. survey.state \notin {"open", "closed"}
    BY <2>1 DEF OpenedDefinitionsAreSettled
  <2>3. QED
    BY <2>1, <2>2 DEF OpenedDefinitionsAreSettled, DefinitionStays
<1>5. CASE SnapshotAudience(w)
  <2>1. survey' = survey /\ pending[w].op = "open"
    BY <1>5 DEF SnapshotAudience
  <2>2. \A v \in Workers : pending'[v].op = pending[v].op \/ pending'[v].op = "opening"
    BY <1>5 DEF SnapshotAudience, SurveyInv, Shape, Work
  <2>3. QED
    BY <2>1, <2>2, UnwrittenSurveySettled
<1>6. CASE OpenSurvey(w) \/ CloseSurvey(w) \/ ReopenSurvey(w)
  <2>1. PICK op : Write(w, op, StateChange(w))
    BY <1>6 DEF OpenSurvey, CloseSurvey, ReopenSurvey
  <2>2. QED
    BY <2>1, StateChangesSettle
<1>7. CASE AddMembership(w) \/ Abort(w)
  <2>1. survey' = survey /\ pending' = [pending EXCEPT ![w] = NoWork]
    BY <1>7 DEF AddMembership, Abort
  <2>2. QED
    BY <2>1, EndedWithoutAWrite
<1>8. QED
  BY <1>1, <1>3, <1>4, <1>5, <1>6, <1>7 DEF OrganizerStep

\* Every step keeps what is opened settled, as long as no update is under way when
\* a survey is opened.
LEMMA DefinitionsStep ==
    ASSUME SurveyInv, OpenedDefinitionsAreSettled, [SurveyNext]_surveyVars,
           survey.state = "draft" /\ survey'.state \in {"open", "closed"} =>
               \A v \in Workers : pending[v].op # "update"
    PROVE  OpenedDefinitionsAreSettled' /\ DefinitionStays
<1>1. CASE survey' = survey /\ pending' = pending
  BY <1>1, UnwrittenSurveySettled
<1>2. CASE DeleteSurvey
  <2>1. survey'.state = "deleted"
    BY <1>2 DEF DeleteSurvey, Deleted
  <2>2. QED
    BY <2>1 DEF OpenedDefinitionsAreSettled, DefinitionStays
<1>3. CASE \E w \in Workers : OrganizerStep(w)
  BY <1>3, OrganizersSettle
<1>4. CASE SubmissionStep
  BY <1>1, <1>4 DEF SubmissionStep, BeginAnswer, CheckAnswer, RecordAnswer, DropAnswer, AnswerStep
<1>5. CASE Tick \/ \E s \in Students : DeleteMembership(s)
  BY <1>1, <1>5 DEF Tick, DeleteMembership
<1>6. CASE UNCHANGED surveyVars
  BY <1>1, <1>6 DEF surveyVars
<1>7. QED
  BY <1>2, <1>3, <1>4, <1>5, <1>6 DEF SurveyNext

\* The audience filter and the questions of a survey that has been opened stay, in
\* every order of openings, closings and reopenings, as long as no update of the
\* draft is under way when it is opened (UpdateInterestProfileSurvey, openSurvey).
THEOREM UndisturbedOpeningsLock ==
    SurveySpec /\ OpeningsFindNoUpdate => DefinitionsLockWhenOpened
<1>1. SurveyInit => OpenedDefinitionsAreSettled
  <2>1. NoWork.op # "update"
    BY DEF NoWork
  <2>2. QED
    BY <2>1 DEF SurveyInit, OpenedDefinitionsAreSettled
<1>2. /\ SurveyInv /\ OpenedDefinitionsAreSettled /\ [SurveyNext]_surveyVars
      /\ [survey.state = "draft" /\ survey'.state \in {"open", "closed"} =>
             \A w \in Workers : pending[w].op # "update"]_surveyVars
      => OpenedDefinitionsAreSettled' /\ [DefinitionStays]_surveyVars
  <2>1. CASE UNCHANGED surveyVars
    BY <2>1, UnwrittenSurveySettled DEF surveyVars
  <2>2. QED
    BY <2>1, DefinitionsStep
<1>3. QED
  BY <1>1, <1>2, SurveyConsistent, PTL
     DEF SurveySpec, OpeningsFindNoUpdate, DefinitionsLockWhenOpened, DefinitionStays
=================================================================================
