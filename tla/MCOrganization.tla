----------------------------- MODULE MCOrganization -----------------------------
(* An organization's office: the draft and its board, administrators, the      *)
(* lifecycle of a school year, how guardians come in, and their records.       *)
(* These parts meet in the database but nowhere in these modules' state, so    *)
(* each behaviour follows one of them, chosen from Focuses.                    *)
(* The pairs a, b and c stand for whatever a module has two of.                *)
EXTENDS MCAssignmentBoard, Administrators, SchoolYears, RegistrationLinks,
        GuardianOnboarding, GuardianRecords, TLC

CONSTANTS Focuses, a1, a2, b1, b2, c1, c2, p1, x1, x2

VARIABLE focus

PairSymmetry ==
    Permutations({a1, a2}) \cup Permutations({b1, b2}) \cup Permutations({c1, c2})

MCInit ==
    /\ MCBoardInit /\ AdministratorsInit /\ YearInit /\ LinksInit /\ OnboardingInit
    /\ RecordsInit
    /\ focus \in Focuses
    /\ focus # "draft" => ~open

-----------------------------------------------------------------------------
(* Bounds beyond those of the constants.                                       *)

\* Two people act at a time.
TwoBusy ==
    Cardinality({a \in Accounts : requests'[a] # Idle})
      + Cardinality({a \in Accounts : claims'[a] # Idle}) <= 2

\* Links are administered while nobody visits, or one link is visited while one
\* transaction administers it.
LinksAlone ==
    /\ \A v \in Visitors : visit'[v] = NoVisit
    /\ accepting'

LinksVisited ==
    /\ Cardinality({l \in Links : links'[l] # NoLink}) <= 1
    /\ Cardinality({a \in LinkEditors : linkEdit'[a] # NoEdition}) <= 1

\* Two sessions and clients of one mailbox, or one of each and two mailboxes.
OneMailbox(m) ==
    /\ contacts'[m] = NoContact /\ adults'[m] = {}
    /\ \A s \in OnboardingIds : <<s, m>> \notin otps' /\ proven'[s] \subseteq Mailboxes \ {m}
    /\ \A c \in Clients : work'[c].mailbox # m

OneSession ==
    /\ Cardinality({s \in OnboardingIds : onboarding'[s] # NoOnboarding}) <= 1
    /\ Cardinality({c \in Clients : work'[c] # Resting}) <= 1

\* Two guardians leave one student at a time, or one leaves two, who are enrolled
\* but not placed.
OneStudent == \E s \in Pupils : pupil'[s] = "none"

OneDeparture == placed' = {} /\ \E d \in Departures : departure'[d] = NoDeparture

\* Everything is of its shape, whichever part moves.
OfficeTypeOK ==
    /\ TypeOK /\ BoardTypeOK /\ AdministratorsTypeOK /\ YearTypeOK /\ LinksTypeOK
    /\ OnboardingTypeOK /\ RecordsTypeOK

-----------------------------------------------------------------------------
MCNext ==
    /\ IF focus = "draft" THEN MCBoardNext ELSE UNCHANGED <<allVars, open>>
    /\ IF focus = "administrators"
       THEN AdministratorsNext /\ TwoBusy ELSE UNCHANGED administratorVars
    /\ IF focus = "year" THEN YearNext ELSE UNCHANGED yearVars
    /\ CASE focus = "links" -> LinksNext /\ LinksAlone
         [] focus = "visits" -> LinksNext /\ LinksVisited
         [] OTHER -> UNCHANGED linkVars
    /\ CASE focus = "onboarding" -> OnboardingNext /\ OneMailbox(x2)
         [] focus = "mailboxes" -> OnboardingNext /\ OneSession
         [] OTHER -> UNCHANGED onboardingVars
    /\ CASE focus = "student" -> RecordsNext /\ OneStudent
         [] focus = "students" -> RecordsNext /\ OneDeparture
         [] OTHER -> UNCHANGED recordsVars
    /\ UNCHANGED focus

MCSpec ==
    MCInit /\ [][MCNext]_<<allVars, open, administratorVars, yearVars, linkVars,
                           onboardingVars, recordsVars, focus>>
=================================================================================
