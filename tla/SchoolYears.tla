------------------------------ MODULE SchoolYears ------------------------------
(***************************************************************************)
(* One school year, its lifecycle (backend/internal/schoolyear/service.go) *)
(* and the records kept under it.  A request reads the year without a lock *)
(* and writes by its key alone; what the year is by then is judged by the  *)
(* trigger prevent_closed_school_year_mutation, and by purge_school_year,  *)
(* which locks the row.                                                    *)
(*                                                                         *)
(* Records are written by transactions that pass the trigger at their      *)
(* statement and commit later.  A statement is one step: the trigger and   *)
(* the foreign-key lock of one insert are not taken apart.                 *)
(***************************************************************************)
EXTENDS Naturals, FiniteSets

CONSTANTS
    YearRequests,   \* lifecycle requests in progress at a time
    Writers,        \* transactions writing records at a time
    NoRequestMade   \* a request that is not in progress

VARIABLES
    year,           \* school_years.state, "none" before and "deleted" after the row
    yearRecords,    \* the kinds of records that are kept under the year
    yearRequest,    \* request -> what it asks for and the state it has read
    writer,         \* transaction -> the record it has written but not committed
    purges          \* history: how authorized purges of a closed year have ended

yearVars == <<year, yearRecords, yearRequest, writer, purges>>

YearStates == {"none", "setup", "active", "closed", "purged", "deleted"}
Gone == {"none", "deleted"}
Roles == {"owner", "administrator"}

\* What school years are made of: people and catalogs depend on nothing else
\* here, a placement depends on its offering.
Kinds == {"student", "offering", "placement"}

NeededBy(kind) == IF kind = "placement" THEN {"offering"} ELSE {}

Intents ==
    [to : {"active", "closed", "deleted", "purged"}, role : Roles, reasoned : BOOLEAN]

NoRecord == [kind |-> "none", inserts |-> FALSE]

YearInit ==
    /\ year = "none"
    /\ yearRecords = {}
    /\ yearRequest = [r \in YearRequests |-> NoRequestMade]
    /\ writer = [w \in Writers |-> NoRecord]
    /\ purges = "none"

-----------------------------------------------------------------------------
(* Lifecycle requests.                                                     *)

Create ==
    /\ year = "none"
    /\ year' = "setup"
    /\ UNCHANGED <<yearRecords, yearRequest, writer, purges>>

\* validateTransition for a change of state; Purge asks for an Owner and a
\* closed year; Delete asks for nothing.
Valid(from, intent) ==
    CASE intent.to = "active" ->
           \/ from = "setup"
           \/ from = "closed" /\ intent.role = "owner" /\ intent.reasoned
      [] intent.to = "closed" -> from = "active"
      [] intent.to = "deleted" -> from \notin Gone
      [] intent.to = "purged" -> from = "closed" /\ intent.role = "owner"

\* The first statement of Update, Delete and Purge.
ReadYear(r) ==
    /\ yearRequest[r] = NoRequestMade
    /\ \E intent \in Intents :
         /\ Valid(year, intent)
         /\ yearRequest' = [yearRequest EXCEPT ![r] = [intent |-> intent, read |-> year]]
    /\ UNCHANGED <<year, yearRecords, writer, purges>>

InProgress(r, to) == yearRequest[r] # NoRequestMade /\ yearRequest[r].intent.to = to

EndRequest(r) == yearRequest' = [yearRequest EXCEPT ![r] = NoRequestMade]

\* PrepareSchoolYearReopen arms the trigger when the year was read as closed.
Reopening(r) == InProgress(r, "active") /\ yearRequest[r].read = "closed"

\* Mutant of TriggerAllows: only purged years are guarded.
TriggerAllowsUnlessPurged(r) == year # "purged"

\* prevent_closed_school_year_mutation on the row of the year itself.
TriggerAllows(r) ==
    /\ year # "purged"
    /\ year = "closed" => Reopening(r)

\* The write does not look at the state it replaces.
UpdateSchoolYearState(r) ==
    /\ \E to \in {"active", "closed"} :
         /\ InProgress(r, to)
         /\ year \notin Gone
         /\ TriggerAllows(r)
         /\ year' = to
    /\ EndRequest(r)
    /\ UNCHANGED <<yearRecords, writer, purges>>

\* Removing a row waits for the transaction that has changed it.
RowsAreFree == \A w \in Writers : writer[w] # NoRecord => writer[w].inserts

\* Mutant of LockYear: purge_school_year reads the row without "for update".
LockNoYear == TRUE

\* Transactions that have inserted hold the year's key, and are waited for.
LockYear == \A w \in Writers : ~writer[w].inserts

\* The records of the year go with it (on delete cascade).
DeleteSchoolYear(r) ==
    /\ InProgress(r, "deleted")
    /\ year \notin Gone
    /\ LockYear /\ RowsAreFree
    /\ TriggerAllows(r)
    /\ year' = "deleted"
    /\ yearRecords' = {}
    /\ EndRequest(r)
    /\ UNCHANGED <<writer, purges>>

\* The tables are emptied one after the other, offerings before the placements
\* that restrict their removal.
PurgeSchoolYear(r) ==
    /\ InProgress(r, "purged")
    /\ LockYear /\ RowsAreFree
    /\ year = "closed"
    /\ IF "placement" \in yearRecords
       THEN purges' = "refused" /\ UNCHANGED <<year, yearRecords>>
       ELSE purges' = "done" /\ year' = "purged" /\ yearRecords' = {}
    /\ EndRequest(r)
    /\ UNCHANGED writer

\* A guard refuses the write, or the transaction fails.
RequestFails(r) ==
    /\ yearRequest[r] # NoRequestMade
    /\ EndRequest(r)
    /\ UNCHANGED <<year, yearRecords, writer, purges>>

-----------------------------------------------------------------------------
(* Records.                                                                *)

\* The trigger on each table of records.
RecordsWritable == year \in {"setup", "active"}

WriteRecord(w) ==
    /\ writer[w] = NoRecord
    /\ RecordsWritable
    /\ \E kind \in Kinds, inserts \in BOOLEAN :
         /\ inserts <=> kind \notin yearRecords
         /\ NeededBy(kind) \subseteq yearRecords
         /\ writer' = [writer EXCEPT ![w] = [kind |-> kind, inserts |-> inserts]]
    /\ UNCHANGED <<year, yearRecords, yearRequest, purges>>

\* Updates and removals leave a trace too: a removal when nothing needs the kind.
CommitRecord(w) ==
    /\ writer[w] # NoRecord
    /\ \/ yearRecords' = yearRecords \cup {writer[w].kind}
       \/ /\ ~writer[w].inserts
          /\ \A kind \in yearRecords : writer[w].kind \notin NeededBy(kind)
          /\ yearRecords' = yearRecords \ {writer[w].kind}
    /\ writer' = [writer EXCEPT ![w] = NoRecord]
    /\ UNCHANGED <<year, yearRequest, purges>>

RollBackRecord(w) ==
    /\ writer[w] # NoRecord
    /\ writer' = [writer EXCEPT ![w] = NoRecord]
    /\ UNCHANGED <<year, yearRecords, yearRequest, purges>>

YearNext ==
    \/ Create
    \/ \E r \in YearRequests :
         \/ ReadYear(r) \/ UpdateSchoolYearState(r) \/ DeleteSchoolYear(r)
         \/ PurgeSchoolYear(r) \/ RequestFails(r)
    \/ \E w \in Writers : WriteRecord(w) \/ CommitRecord(w) \/ RollBackRecord(w)

YearSpec == YearInit /\ [][YearNext]_yearVars

-----------------------------------------------------------------------------
(* Properties.                                                             *)

\* The year, its requests and the records being written are of their shape.
YearTypeOK ==
    /\ year \in YearStates
    /\ yearRecords \subseteq Kinds
    /\ yearRequest \in
         [YearRequests -> [intent : Intents, read : YearStates] \cup {NoRequestMade}]
    /\ writer \in [Writers -> [kind : Kinds, inserts : BOOLEAN] \cup {NoRecord}]
    /\ purges \in {"none", "refused", "done"}

\* A request judged by a state that has passed never takes the year off its
\* lifecycle (SPEC 11.1): a purged year stays purged, a closed one is not deleted,
\* and is reopened by an Owner who gave a reason, never by an activation or a
\* closing that was judged before it closed.
YearsFollowTheLifecycle ==
    [][\/ year' = year
       \/ <<year, year'>> \in
            {<<"none", "setup">>, <<"setup", "active">>, <<"active", "closed">>,
             <<"closed", "purged">>, <<"setup", "deleted">>, <<"active", "deleted">>}
       \/ /\ year = "closed" /\ year' = "active"
          /\ \E r \in YearRequests :
               /\ yearRequest[r] # NoRequestMade /\ yearRequest'[r] = NoRequestMade
               /\ yearRequest[r].intent.role = "owner"
               /\ yearRequest[r].intent.reasoned]_yearVars

\* Nothing is left in a purged year, not even what was being written when the
\* purge came.
PurgedYearsHoldNothing == year = "purged" => yearRecords = {}

\* "Purging a year MUST remove all year-scoped" data, "assignments" among it
\* (SPEC 21.4): a purge that an Owner asks for a closed year is carried out.
AuthorizedPurgesSucceed == purges # "refused"
================================================================================
