---------------------------- MODULE GuardianRecords ----------------------------
(***************************************************************************)
(* What becomes of students when their guardians leave (Detach, DeleteSelf *)
(* of backend/internal/guardianrecords/service.go), among guardians who    *)
(* select them and an office that corrects, enrols, places and restores    *)
(* (backend/internal/people, program).                                     *)
(*                                                                         *)
(* A guardian's transaction counts the other guardians, counts the         *)
(* student's associated data and writes, each in a statement of its own    *)
(* and without a lock on the student.  DeleteSelf does so for one student  *)
(* after the other; here its counts are taken together.                    *)
(***************************************************************************)
EXTENDS Naturals, FiniteSets

CONSTANTS
    Guardians,      \* adults of the school year
    Pupils,         \* rows of students
    Departures,     \* Detach and DeleteSelf transactions in progress at a time
    NoDeparture

VARIABLES
    adult,          \* adult -> "active", or "deleted" by a soft delete
    pupil,          \* student -> "none" before its row, "erased" after it, or what it is
    relations,      \* guardian_relationships: <<adult, student>>
    enrolled,       \* students with a program membership
    placed,         \* students with an assignment
    departure,      \* transaction -> what it does and what it has counted
    contested,      \* history: students written while a departure looked at them
    leftBehind,     \* history: students a departure left active and alone
    destroyed       \* history: <<student, what was erased with the student>>

historyVars == <<contested, leftBehind, destroyed>>
officeVars == <<adult, pupil, relations, enrolled, placed>>
recordsVars == <<officeVars, departure, historyVars>>

RecordsInit ==
    /\ adult = [g \in Guardians |-> "active"]
    /\ pupil = [s \in Pupils |-> "none"]
    /\ relations = {}
    /\ enrolled = {}
    /\ placed = {}
    /\ departure = [d \in Departures |-> NoDeparture]
    /\ contested = {} /\ leftBehind = {} /\ destroyed = {}

GuardiansOf(s) == {g \in Guardians : <<g, s>> \in relations}

Looking(s) == {d \in Departures : departure[d] # NoDeparture /\ s \in departure[d].pupils}

\* Every write to a student is noted while a departure is looking.
Writes(pupils) ==
    /\ contested' = contested \cup {s \in pupils : Looking(s) # {}}
    /\ UNCHANGED <<departure, leftBehind, destroyed>>

-----------------------------------------------------------------------------
(* Guardians leave.                                                        *)

\* Mutant of OtherActiveGuardians: soft-deleted adults are counted.
OtherGuardians(g, s) == GuardiansOf(s) \ {g}

\* CountOtherActiveGuardians
OtherActiveGuardians(g, s) == {h \in GuardiansOf(s) \ {g} : adult[h] = "active"}

\* Mutant of AssociatedData: memberships are not counted.
NoAssociatedData(s) == FALSE

\* CountStudentAssociatedData: memberships, participation, submissions and
\* audiences.  Assignments are not among them.
AssociatedData(s) == s \in enrolled

BeginDeparture(d, g, pupils, self) ==
    /\ departure[d] = NoDeparture
    /\ adult[g] = "active"
    /\ departure' = [departure EXCEPT ![d] =
         [guardian |-> g, pupils |-> pupils, self |-> self,
          alone |-> {s \in pupils : OtherActiveGuardians(g, s) = {}},
          kept |-> {}, ready |-> FALSE]]
    /\ contested' = contested \cup {s \in pupils : Looking(s) # {}}
    /\ UNCHANGED <<officeVars, leftBehind, destroyed>>

Detach(d, g, s) == pupil[s] = "active" /\ <<g, s>> \in relations /\ BeginDeparture(d, g, {s}, FALSE)

DeleteSelf(d, g) == BeginDeparture(d, g, {s \in Pupils : <<g, s>> \in relations}, TRUE)

CountAssociated(d) ==
    /\ departure[d] # NoDeparture
    /\ ~departure[d].ready
    /\ departure' = [departure EXCEPT
         ![d].kept = {s \in departure[d].alone : AssociatedData(s)}, ![d].ready = TRUE]
    /\ UNCHANGED <<officeVars, historyVars>>

\* HardDeleteStudent cascades to whatever has come since; DeidentifyStudent
\* needs an active student and leaves other relationships alone.
CommitDeparture(d) ==
    LET g == departure[d].guardian
        pupils == departure[d].pupils
        erased == departure[d].alone \ departure[d].kept
        left == {r \in relations : r[2] \notin erased /\ ~(r[1] = g /\ r[2] \in pupils)}
    IN  /\ departure[d] # NoDeparture /\ departure[d].ready
        /\ \A s \in pupils : <<g, s>> \in relations
        /\ \A s \in departure[d].kept : pupil[s] = "active"
        /\ departure[d].self => adult[g] = "active"
        /\ relations' = left
        /\ pupil' = [s \in Pupils |->
             CASE s \in erased -> "erased"
               [] s \in departure[d].kept -> "deleted"
               [] OTHER -> pupil[s]]
        /\ adult' = IF departure[d].self THEN [adult EXCEPT ![g] = "deleted"] ELSE adult
        /\ enrolled' = enrolled \ erased
        /\ placed' = placed \ erased
        /\ contested' = contested \cup {s \in pupils : Looking(s) # {d}}
             \cup {s \in Pupils : departure[d].self /\ <<g, s>> \in left}
        /\ leftBehind' = leftBehind \cup
             {s \in pupils : /\ pupil'[s] = "active"
                             /\ \A h \in Guardians :
                                  <<h, s>> \in left => adult'[h] = "deleted"}
        /\ destroyed' = destroyed
             \cup {<<s, "membership">> : s \in erased \cap enrolled}
             \cup {<<s, "placement">> : s \in erased \cap placed}
        /\ departure' = [departure EXCEPT ![d] = NoDeparture]

DepartureFails(d) ==
    /\ departure[d] # NoDeparture
    /\ departure' = [departure EXCEPT ![d] = NoDeparture]
    /\ UNCHANGED <<officeVars, historyVars>>

-----------------------------------------------------------------------------
(* Guardians and office add.                                               *)

\* Select, CreateGuardianRelationship, a relationship of an import.
Relate(g, s) ==
    /\ adult[g] = "active" /\ pupil[s] = "active"
    /\ <<g, s>> \notin relations
    /\ relations' = relations \cup {<<g, s>>}
    /\ Writes({s})
    /\ UNCHANGED <<adult, pupil, enrolled, placed>>

\* Create: with the relationship and any automatic membership.
CreateStudent(g, s, automatic) ==
    /\ adult[g] = "active" /\ pupil[s] = "none"
    /\ pupil' = [pupil EXCEPT ![s] = "active"]
    /\ relations' = relations \cup {<<g, s>>}
    /\ enrolled' = IF automatic THEN enrolled \cup {s} ELSE enrolled
    /\ Writes({s})
    /\ UNCHANGED <<adult, placed>>

CreatePlaceholderStudent(s) ==
    /\ pupil[s] = "none"
    /\ pupil' = [pupil EXCEPT ![s] = "placeholder"]
    /\ Writes({s})
    /\ UNCHANGED <<adult, relations, enrolled, placed>>

\* AddMembership, the draft's placement of a member, and their removal, which
\* ask nothing of each other.
ChangeMembership(s) ==
    /\ pupil[s] \in {"active", "placeholder"} \/ s \in enrolled
    /\ enrolled' = IF s \in enrolled THEN enrolled \ {s} ELSE enrolled \cup {s}
    /\ Writes({s})
    /\ UNCHANGED <<adult, pupil, relations, placed>>

ChangePlacement(s) ==
    /\ (pupil[s] \in {"active", "placeholder"} /\ s \in enrolled) \/ s \in placed
    /\ placed' = IF s \in placed THEN placed \ {s} ELSE placed \cup {s}
    /\ Writes({s})
    /\ UNCHANGED <<adult, pupil, relations, enrolled>>

-----------------------------------------------------------------------------
(* The office corrects.                                                    *)

DeleteGuardianRelationship(g, s) ==
    /\ <<g, s>> \in relations
    /\ relations' = relations \ {<<g, s>>}
    /\ Writes({s})
    /\ UNCHANGED <<adult, pupil, enrolled, placed>>

\* Delete and Restore of an adult; relationships stay.
ChangeAdult(g) ==
    /\ adult' = [adult EXCEPT ![g] = IF @ = "active" THEN "deleted" ELSE "active"]
    /\ Writes({s \in Pupils : <<g, s>> \in relations})
    /\ UNCHANGED <<pupil, relations, enrolled, placed>>

\* DeleteStudent, DeleteStudentCorrection and RestoreStudent, which does not
\* tell a de-identified student from a deleted one.
ChangeStudent(s) ==
    /\ pupil[s] \in {"active", "deleted"}
    /\ pupil' = [pupil EXCEPT ![s] = IF @ = "active" THEN "deleted" ELSE "active"]
    /\ Writes({s})
    /\ UNCHANGED <<adult, relations, enrolled, placed>>

\* Memberships and non-participation are moved, assignments are not.
ReconcilePlaceholderStudent(from, to) ==
    /\ pupil[from] = "placeholder" /\ pupil[to] = "active"
    /\ GuardiansOf(from) = {} /\ GuardiansOf(to) # {}
    /\ ~(from \in enrolled /\ to \in enrolled)
    /\ enrolled' = (enrolled \ {from}) \cup IF from \in enrolled THEN {to} ELSE {}
    /\ pupil' = [pupil EXCEPT ![from] = "superseded"]
    /\ Writes({from, to})
    /\ UNCHANGED <<adult, relations, placed>>

RecordsNext ==
    \/ \E d \in Departures, g \in Guardians :
         DeleteSelf(d, g) \/ \E s \in Pupils : Detach(d, g, s)
    \/ \E d \in Departures :
         CountAssociated(d) \/ CommitDeparture(d) \/ DepartureFails(d)
    \/ \E g \in Guardians, s \in Pupils :
         \/ Relate(g, s) \/ DeleteGuardianRelationship(g, s)
         \/ \E automatic \in BOOLEAN : CreateStudent(g, s, automatic)
    \/ \E g \in Guardians : ChangeAdult(g)
    \/ \E s \in Pupils :
         \/ CreatePlaceholderStudent(s) \/ ChangeMembership(s) \/ ChangePlacement(s)
         \/ ChangeStudent(s)
    \/ \E from, to \in Pupils : ReconcilePlaceholderStudent(from, to)

RecordsSpec == RecordsInit /\ [][RecordsNext]_recordsVars

-----------------------------------------------------------------------------
(* Properties.                                                             *)

\* People, their records and the departures are of their shape.
RecordsTypeOK ==
    /\ adult \in [Guardians -> {"active", "deleted"}]
    /\ pupil \in [Pupils ->
         {"none", "active", "placeholder", "deleted", "superseded", "erased"}]
    /\ relations \subseteq Guardians \X Pupils
    /\ enrolled \subseteq Pupils /\ placed \subseteq Pupils
    /\ departure \in [Departures -> {NoDeparture} \cup
         [guardian : Guardians, pupils : SUBSET Pupils, alone : SUBSET Pupils,
          kept : SUBSET Pupils, self : BOOLEAN, ready : BOOLEAN]]

\* The guardian who leaves last settles the student (SPEC 11.6): one is left
\* active with no active guardian only when another transaction changed the
\* student between the count and the commit.
LastGuardianSettlesTheStudent == leftBehind \subseteq contested

\* "Otherwise it is de-identified and retained for history" (Detach): only a
\* membership that came between the count and the commit is erased.
MembershipsAreRetained ==
    \A s \in Pupils : <<s, "membership">> \in destroyed => s \in contested
================================================================================
