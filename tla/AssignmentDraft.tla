---------------------------- MODULE AssignmentDraft ----------------------------
(***************************************************************************)
(* The editing draft of one session: the assignments rows, the overrides   *)
(* and exclusions attached to them, the draft_revision that numbers every  *)
(* edit, and the roster and catalog facts the edits are judged against.    *)
(*                                                                         *)
(* Each manual operation is one transaction whose first write locks the    *)
(* session row (AdvanceDraftRevision is a compare-and-swap on that row,    *)
(* removeAssignments takes SELECT ... FOR UPDATE), so operations on the    *)
(* draft never overlap and each is one action here.  Roster and catalog    *)
(* transactions do not take that lock.  The one that overlaps a draft      *)
(* edit visibly, CreateSessionNonParticipation, is split at the point      *)
(* where its trigger has looked for a placement and its row is not yet     *)
(* committed.                                                              *)
(*                                                                         *)
(* A refused request changes nothing, so a refusal is the absence of a     *)
(* step.  Names, comments, realized quality and audit text are left out.   *)
(***************************************************************************)
EXTENDS Naturals, FiniteSets

CONSTANTS
    Students,      \* students of the school year
    Offerings,     \* identities an offering of this session may have
    Unplaced,      \* marks a student without an assignments row
    Grade,         \* grade ordinal of each student
    Windows,       \* grade windows an offering may declare, as sets of ordinals
    Capacities,    \* capacities an offering may declare
    MaxRevision    \* bound on draft_revision

ASSUME DraftAssumption ==
    /\ IsFiniteSet(Students)
    /\ Unplaced \notin Offerings
    /\ Grade \in [Students -> Nat]
    /\ Windows \subseteq SUBSET Nat
    /\ Capacities \subseteq Nat \ {0}
    /\ MaxRevision \in Nat

VARIABLES
    revision,     \* sessions.draft_revision
    placement,    \* offering of each student's assignments row, or Unplaced
    pinned,       \* students whose assignments row is pinned
    override,     \* how many override rows each student's placement has per rule
    exclusion,    \* <<student, offering>> of each assignment_exclusions row
    catalog,      \* the offerings rows: capacity and grade window by identity
    retired,      \* identities of deleted offerings, never issued again
    member,       \* students with a program_memberships row
    absent,       \* students with a committed session_non_participations row
    declaring     \* students whose non-participation row is inserted, not committed

draftVars  == <<revision, placement, pinned, override, exclusion>>
rosterVars == <<member, absent, declaring>>
catalogVars == <<catalog, retired>>
vars == <<draftVars, catalogVars, rosterVars>>

Rules == {"capacity", "grade-window", "exclusion"}

Entry == [capacity : Capacities, window : Windows]

Placed(p) == {s \in Students : p[s] # Unplaced}

Occupants(p, o) == {s \in Students : p[s] = o}

\* The hard rules the placement of s breaks when p is the whole draft.
Broken(p, s) ==
    {r \in Rules :
        \/ r = "capacity"     /\ Cardinality(Occupants(p, p[s])) > catalog[p[s]].capacity
        \/ r = "grade-window" /\ Grade[s] \notin catalog[p[s]].window
        \/ r = "exclusion"    /\ <<s, p[s]>> \in exclusion}

NoOverrides == [r \in Rules |-> 0]

Recorded(s) == {r \in Rules : override[s][r] > 0}

\* Mutant of Carried: the row is updated in place and keeps its overrides.
CarriedEverywhere(p, s) == IF p[s] = Unplaced THEN NoOverrides ELSE override[s]

\* An override row hangs on one assignments row, and that row survives a
\* rewrite of the draft only when the student stays in the same offering.
Carried(p, s) == IF p[s] = placement[s] THEN override[s] ELSE NoOverrides

\* The trigger on assignments fires for every row a rewrite inserts.
NonParticipantGuard(p) == Placed(p) \cap absent = {}

--------------------------------------------------------------------------------
(* Manual operations.                                                      *)

AdvanceDraftRevision(expected) ==
    /\ expected = revision
    /\ revision < MaxRevision
    /\ revision' = revision + 1

ReplaceDraft(p) ==
    /\ NonParticipantGuard(p)
    /\ placement' = p

\* One row per broken rule is inserted; nothing keeps a rule from having two.
WithOverrides(rows, broken) == [r \in Rules |-> IF r \in broken THEN rows[r] + 1 ELSE rows[r]]

ChangeAssignments(expected, confirm, moves) ==
    LET moved == DOMAIN moves
        final == [s \in Students |-> IF s \in moved THEN moves[s] ELSE placement[s]]
    IN  /\ moved \subseteq member \ absent
        /\ \A s \in moved : final[s] \in DOMAIN catalog
        /\ confirm \/ \A s \in moved : Broken(final, s) = {}
        /\ AdvanceDraftRevision(expected)
        /\ ReplaceDraft(final)
        /\ pinned' = pinned \cup moved
        /\ override' = [s \in Students |->
               IF s \in moved THEN WithOverrides(Carried(final, s), Broken(final, s))
                              ELSE Carried(final, s)]
        /\ UNCHANGED <<exclusion, catalogVars, rosterVars>>

MoveAssignment(expected, confirm, s, o) ==
    ChangeAssignments(expected, confirm, [x \in {s} |-> o])

SwapAssignments(expected, confirm, s, t) ==
    /\ s # t
    /\ {s, t} \subseteq Placed(placement)
    /\ ChangeAssignments(expected, confirm,
           [x \in {s, t} |-> IF x = s THEN placement[t] ELSE placement[s]])

RemoveAssignments(expected, removed) ==
    LET kept == [s \in Students |-> IF s \in removed THEN Unplaced ELSE placement[s]]
    IN  /\ removed # {}
        /\ AdvanceDraftRevision(expected)
        /\ ReplaceDraft(kept)
        /\ pinned' = pinned \ removed
        /\ override' = [s \in Students |-> Carried(kept, s)]
        /\ UNCHANGED <<exclusion, catalogVars, rosterVars>>

RemoveAssignment(expected, s) ==
    RemoveAssignments(expected, {s} \cap Placed(placement))

RemoveUnpinnedAssignments(expected) ==
    RemoveAssignments(expected, Placed(placement) \ pinned)

PinAssignment(expected, s) ==
    /\ s \in Placed(placement)
    /\ AdvanceDraftRevision(expected)
    /\ pinned' = pinned \cup {s}
    /\ UNCHANGED <<placement, override, exclusion, catalogVars, rosterVars>>

\* Mutant of UnpinAssignment: the overrides of the placement stay.
UnpinKeepingOverrides(expected, s) ==
    /\ s \in Placed(placement)
    /\ AdvanceDraftRevision(expected)
    /\ pinned' = pinned \ {s}
    /\ UNCHANGED <<placement, override, exclusion, catalogVars, rosterVars>>

UnpinAssignment(expected, s) ==
    /\ s \in Placed(placement)
    /\ AdvanceDraftRevision(expected)
    /\ pinned' = pinned \ {s}
    /\ override' = [override EXCEPT ![s] = NoOverrides]
    /\ UNCHANGED <<placement, exclusion, catalogVars, rosterVars>>

\* Mutant of AddAssignmentExclusion: an exclusion is no edit of the draft.
AddExclusionUnnumbered(expected, s, o) ==
    /\ <<s, o>> \notin exclusion
    /\ expected = revision
    /\ s \in member
    /\ o \in DOMAIN catalog
    /\ exclusion' = exclusion \cup {<<s, o>>}
    /\ UNCHANGED <<revision, placement, pinned, override, catalogVars, rosterVars>>

\* Adding an exclusion that is there, and removing one that is not, return
\* before the revision is looked at and change nothing.
AddAssignmentExclusion(expected, s, o) ==
    /\ <<s, o>> \notin exclusion
    /\ AdvanceDraftRevision(expected)
    /\ s \in member
    /\ o \in DOMAIN catalog
    /\ exclusion' = exclusion \cup {<<s, o>>}
    /\ UNCHANGED <<placement, pinned, override, catalogVars, rosterVars>>

\* Mutant of RemoveAssignmentExclusion: the acceptance outlives its rule.
RemoveExclusionAlone(expected, s, o) ==
    /\ <<s, o>> \in exclusion
    /\ AdvanceDraftRevision(expected)
    /\ exclusion' = exclusion \ {<<s, o>>}
    /\ UNCHANGED <<placement, pinned, override, catalogVars, rosterVars>>

RemoveAssignmentExclusion(expected, s, o) ==
    /\ <<s, o>> \in exclusion
    /\ AdvanceDraftRevision(expected)
    /\ exclusion' = exclusion \ {<<s, o>>}
    /\ override' = IF placement[s] = o
                   THEN [override EXCEPT ![s] = [override[s] EXCEPT !["exclusion"] = 0]]
                   ELSE override
    /\ UNCHANGED <<placement, pinned, catalogVars, rosterVars>>

--------------------------------------------------------------------------------
(* Roster and catalog transactions.  None of them touches draft_revision.  *)

InsertNonParticipation(s) ==
    /\ s \in member \ (absent \cup declaring)
    /\ s \notin Placed(placement)
    /\ declaring' = declaring \cup {s}
    /\ UNCHANGED <<draftVars, catalogVars, member, absent>>

CommitNonParticipation(s) ==
    /\ s \in declaring
    /\ declaring' = declaring \ {s}
    /\ absent' = absent \cup {s}
    /\ UNCHANGED <<draftVars, catalogVars, member>>

DeleteNonParticipation(s) ==
    /\ s \in absent
    /\ absent' = absent \ {s}
    /\ UNCHANGED <<draftVars, catalogVars, member, declaring>>

AddMembership(s) ==
    /\ s \notin member
    /\ member' = member \cup {s}
    /\ UNCHANGED <<draftVars, catalogVars, absent, declaring>>

\* Nothing ties an assignments row to a membership: the placement stays.
DeleteMembership(s) ==
    /\ s \in member
    /\ member' = member \ {s}
    /\ UNCHANGED <<draftVars, catalogVars, absent, declaring>>

CreateOffering(o, entry) ==
    /\ o \notin DOMAIN catalog \cup retired
    /\ catalog' = [x \in DOMAIN catalog \cup {o} |-> IF x = o THEN entry ELSE catalog[x]]
    /\ UNCHANGED <<draftVars, retired, rosterVars>>

UpdateOffering(o, entry) ==
    /\ o \in DOMAIN catalog
    /\ entry # catalog[o]
    /\ catalog' = [catalog EXCEPT ![o] = entry]
    /\ UNCHANGED <<draftVars, retired, rosterVars>>

\* Mutant of DeleteOffering: the exclusions do not go with the offering.
DeleteOfferingAlone(o) ==
    /\ o \in DOMAIN catalog
    /\ Occupants(placement, o) = {}
    /\ catalog' = [x \in DOMAIN catalog \ {o} |-> catalog[x]]
    /\ retired' = retired \cup {o}
    /\ UNCHANGED <<draftVars, rosterVars>>

\* The foreign key of assignments restricts, the one of exclusions cascades.
DeleteOffering(o) ==
    /\ o \in DOMAIN catalog
    /\ Occupants(placement, o) = {}
    /\ catalog' = [x \in DOMAIN catalog \ {o} |-> catalog[x]]
    /\ retired' = retired \cup {o}
    /\ exclusion' = {e \in exclusion : e[2] # o}
    /\ UNCHANGED <<revision, placement, pinned, override, rosterVars>>

--------------------------------------------------------------------------------
Init ==
    /\ revision = 0
    /\ placement = [s \in Students |-> Unplaced]
    /\ pinned = {}
    /\ override = [s \in Students |-> NoOverrides]
    /\ exclusion = {}
    /\ catalog = [o \in {} |-> {}]
    /\ retired = {}
    /\ member = Students
    /\ absent = {}
    /\ declaring = {}

PlacementEdit(expected, confirm) ==
    \/ \E s \in Students, o \in Offerings : MoveAssignment(expected, confirm, s, o)
    \/ \E s, t \in Students : SwapAssignments(expected, confirm, s, t)

OtherEdit(expected) ==
    \/ RemoveUnpinnedAssignments(expected)
    \/ \E s \in Students :
           \/ RemoveAssignment(expected, s)
           \/ PinAssignment(expected, s)
           \/ UnpinAssignment(expected, s)
           \/ \E o \in Offerings : AddAssignmentExclusion(expected, s, o)
           \/ \E o \in Offerings : RemoveAssignmentExclusion(expected, s, o)

ManualOperation(expected) ==
    \/ \E confirm \in BOOLEAN : PlacementEdit(expected, confirm)
    \/ OtherEdit(expected)

RosterOperation ==
    \E s \in Students :
        \/ InsertNonParticipation(s)
        \/ CommitNonParticipation(s)
        \/ DeleteNonParticipation(s)
        \/ AddMembership(s)
        \/ DeleteMembership(s)

CatalogOperation ==
    \E o \in Offerings :
        \/ \E entry \in Entry : CreateOffering(o, entry)
        \/ \E entry \in Entry : UpdateOffering(o, entry)
        \/ DeleteOffering(o)

Next ==
    \/ \E expected \in 0..MaxRevision : ManualOperation(expected)
    \/ RosterOperation
    \/ CatalogOperation

Spec == Init /\ [][Next]_vars

--------------------------------------------------------------------------------
(* Properties.                                                             *)

\* The shape of the rows behind one session's draft.
TypeOK ==
    /\ revision \in 0..MaxRevision
    /\ placement \in [Students -> Offerings \cup {Unplaced}]
    /\ pinned \subseteq Students
    /\ override \in [Students -> [Rules -> Nat]]
    /\ exclusion \subseteq Students \X Offerings
    /\ catalog \in UNION {[listed -> Entry] : listed \in SUBSET Offerings}
    /\ retired \subseteq Offerings
    /\ member \subseteq Students
    /\ absent \subseteq Students
    /\ declaring \subseteq Students

\* An override is permission for one pinned placement (SPEC 16.7, 17.9).  No
\* chain of moves, removals, unpins and catalog edits leaves one behind on a
\* student who is unplaced or whose placement went back to the solver.
OverridesSitOnPins ==
    \A s \in Students : Recorded(s) # {} => s \in pinned /\ placement[s] # Unplaced

\* An exclusion override is backed by the exclusion it accepts: withdrawing
\* the rule withdraws the acceptance, so that a rule added again later is
\* judged afresh (assignment_exclusions.go, DeleteAssignmentOverrideRule).
ExclusionOverridesStand ==
    \A s \in Students :
        "exclusion" \in Recorded(s) => <<s, placement[s]>> \in exclusion

\* Every placement and exclusion names an offering that is still listed: an
\* offering in use cannot be deleted and its exclusions go with it.
DraftNamesListedOfferings ==
    /\ \A s \in Placed(placement) : placement[s] \in DOMAIN catalog
    /\ \A e \in exclusion : e[2] \in DOMAIN catalog

\* When a student is put into another offering, the override records on the
\* new placement are exactly the hard rules it breaks in the draft being
\* saved: none is missing (SPEC 17.12) and none is inherited from the old
\* placement (SPEC 16.7).  A swap is judged on its final state.
NewPlacementsAreAccountedFor ==
    [][\A s \in Students :
          placement'[s] \notin {placement[s], Unplaced} =>
              Recorded(s)' = Broken(placement, s)']_vars

\* A non-participating student has no placement (SPEC 16.2; the triggers of
\* the assignment editing migration call it a data invariant).
NonParticipantsHoldNoPlacement == Placed(placement) \cap absent = {}

================================================================================
