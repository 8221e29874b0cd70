------------------------ MODULE AssignmentDraft_proofs -------------------------
(***************************************************************************)
(* What holds of the session draft for every number of students, offerings *)
(* and edits: the shape of its rows, and that an override is never found   *)
(* away from the pinned placement, or the exclusion, it accepts.           *)
(***************************************************************************)
EXTENDS AssignmentDraft, TLAPS

--------------------------------------------------------------------------------
(* What a rewrite of the draft does to the override rows.                  *)

\* A student who stays keeps the override rows, one who moves loses them.
LEMMA CarriedType ==
    ASSUME TypeOK, NEW p, NEW s \in Students
    PROVE  Carried(p, s) \in [Rules -> Nat]
BY DEF Carried, NoOverrides, TypeOK

\* Accepting broken rules adds rows, never anything else.
LEMMA WithOverridesType ==
    ASSUME NEW rows \in [Rules -> Nat], NEW broken
    PROVE  WithOverrides(rows, broken) \in [Rules -> Nat]
BY DEF WithOverrides

\* Every edit counts, and the count stays within its bound.
LEMMA RevisionType ==
    ASSUME TypeOK, NEW expected, AdvanceDraftRevision(expected)
    PROVE  revision' \in 0..MaxRevision
BY DraftAssumption DEF AdvanceDraftRevision, TypeOK, DraftAssumption

\* The type invariant is preserved by the transaction behind moves and swaps.
LEMMA ChangeAssignmentsType ==
    ASSUME TypeOK, NEW expected, NEW confirm \in BOOLEAN, NEW M \in SUBSET Students,
           NEW moves \in [M -> Offerings], ChangeAssignments(expected, confirm, moves)
    PROVE  TypeOK'
<1> DEFINE moved == DOMAIN moves
           final == [s \in Students |-> IF s \in moved THEN moves[s] ELSE placement[s]]
<1>1. moved = M
  OBVIOUS
<1>2. final \in [Students -> Offerings \cup {Unplaced}]
  BY <1>1 DEF TypeOK
<1>3. placement' = final
  BY DEF ChangeAssignments, ReplaceDraft
<1>4. pinned' \subseteq Students
  BY <1>1 DEF ChangeAssignments, TypeOK
<1>5. override' \in [Students -> [Rules -> Nat]]
  <2>1. override' = [s \in Students |->
               IF s \in moved THEN WithOverrides(Carried(final, s), Broken(final, s))
                              ELSE Carried(final, s)]
    BY DEF ChangeAssignments
  <2>2. ASSUME NEW s \in Students
        PROVE  /\ Carried(final, s) \in [Rules -> Nat]
               /\ WithOverrides(Carried(final, s), Broken(final, s)) \in [Rules -> Nat]
    <3>1. Carried(final, s) \in [Rules -> Nat]
      BY CarriedType
    <3>2. QED
      BY <3>1, WithOverridesType
  <2>3. QED
    BY <2>1, <2>2
<1>6. revision' \in 0..MaxRevision
  BY RevisionType DEF ChangeAssignments
<1>7. UNCHANGED <<exclusion, catalogVars, rosterVars>>
  BY DEF ChangeAssignments
<1>8. QED
  BY <1>2, <1>3, <1>4, <1>5, <1>6, <1>7 DEF TypeOK, catalogVars, rosterVars

\* Removals keep every row well formed.
LEMMA RemoveAssignmentsType ==
    ASSUME TypeOK, NEW expected, NEW removed, RemoveAssignments(expected, removed)
    PROVE  TypeOK'
<1> DEFINE kept == [s \in Students |-> IF s \in removed THEN Unplaced ELSE placement[s]]
<1>1. kept \in [Students -> Offerings \cup {Unplaced}] /\ placement' = kept
  BY DEF RemoveAssignments, ReplaceDraft, TypeOK
<1>2. override' \in [Students -> [Rules -> Nat]]
  <2>1. override' = [s \in Students |-> Carried(kept, s)]
    BY DEF RemoveAssignments
  <2>2. QED
    BY <2>1, CarriedType
<1>3. revision' \in 0..MaxRevision
  BY RevisionType DEF RemoveAssignments
<1>4. pinned' \subseteq Students /\ UNCHANGED <<exclusion, catalogVars, rosterVars>>
  BY DEF RemoveAssignments, TypeOK
<1>5. QED
  BY <1>1, <1>2, <1>3, <1>4 DEF TypeOK, catalogVars, rosterVars

--------------------------------------------------------------------------------
(* The type invariant.                                                     *)

\* Every entry of the override table stays a row count when one is cleared.
LEMMA ClearedOverrideType ==
    ASSUME TypeOK, NEW s \in Students, NEW row \in [Rules -> Nat]
    PROVE  [override EXCEPT ![s] = row] \in [Students -> [Rules -> Nat]]
BY DEF TypeOK

\* Moves and swaps keep every row well formed.
LEMMA PlacementEditType ==
    ASSUME TypeOK, NEW expected, NEW confirm \in BOOLEAN, PlacementEdit(expected, confirm)
    PROVE  TypeOK'
<1>1. ASSUME NEW s \in Students, NEW o \in Offerings, MoveAssignment(expected, confirm, s, o)
      PROVE  TypeOK'
  <2>1. [x \in {s} |-> o] \in [{s} -> Offerings]
    OBVIOUS
  <2>2. QED
    BY <1>1, <2>1, ChangeAssignmentsType DEF MoveAssignment
<1>2. ASSUME NEW s \in Students, NEW t \in Students, SwapAssignments(expected, confirm, s, t)
      PROVE  TypeOK'
  <2> DEFINE moves == [x \in {s, t} |-> IF x = s THEN placement[t] ELSE placement[s]]
  <2>1. moves \in [{s, t} -> Offerings]
    BY <1>2 DEF SwapAssignments, Placed, TypeOK
  <2>2. ChangeAssignments(expected, confirm, moves)
    BY <1>2 DEF SwapAssignments
  <2>3. QED
    BY <2>1, <2>2, ChangeAssignmentsType
<1>3. QED
  BY <1>1, <1>2 DEF PlacementEdit

\* Removals, pins, unpins and exclusion edits keep every row well formed.
LEMMA OtherEditType ==
    ASSUME TypeOK, NEW expected, OtherEdit(expected)
    PROVE  TypeOK'
<1>1. CASE RemoveUnpinnedAssignments(expected)
  BY <1>1, RemoveAssignmentsType DEF RemoveUnpinnedAssignments
<1>2. ASSUME NEW s \in Students, RemoveAssignment(expected, s)
      PROVE  TypeOK'
  BY <1>2, RemoveAssignmentsType DEF RemoveAssignment
<1>3. ASSUME NEW s \in Students, PinAssignment(expected, s)
      PROVE  TypeOK'
  BY <1>3, RevisionType DEF PinAssignment, TypeOK, catalogVars, rosterVars
<1>4. ASSUME NEW s \in Students, UnpinAssignment(expected, s)
      PROVE  TypeOK'
  <2>1. override' \in [Students -> [Rules -> Nat]]
    BY <1>4, ClearedOverrideType DEF UnpinAssignment, NoOverrides
  <2>2. QED
    BY <1>4, <2>1, RevisionType DEF UnpinAssignment, TypeOK, catalogVars, rosterVars
<1>5. ASSUME NEW s \in Students, NEW o \in Offerings, AddAssignmentExclusion(expected, s, o)
      PROVE  TypeOK'
  BY <1>5, RevisionType DEF AddAssignmentExclusion, TypeOK, catalogVars, rosterVars
<1>6. ASSUME NEW s \in Students, NEW o \in Offerings, RemoveAssignmentExclusion(expected, s, o)
      PROVE  TypeOK'
  <2>1. [override[s] EXCEPT !["exclusion"] = 0] \in [Rules -> Nat]
    BY DEF TypeOK
  <2>2. override' \in [Students -> [Rules -> Nat]]
    BY <1>6, <2>1, ClearedOverrideType DEF RemoveAssignmentExclusion, TypeOK
  <2>3. QED
    BY <1>6, <2>2, RevisionType DEF RemoveAssignmentExclusion, TypeOK, catalogVars, rosterVars
<1>7. QED
  BY <1>1, <1>2, <1>3, <1>4, <1>5, <1>6 DEF OtherEdit

\* Roster transactions keep every row well formed.
LEMMA RosterOperationType ==
    ASSUME TypeOK, RosterOperation
    PROVE  TypeOK'
BY DEF RosterOperation, InsertNonParticipation, CommitNonParticipation, DeleteNonParticipation,
       AddMembership, DeleteMembership, TypeOK, draftVars, catalogVars

\* The catalog is a function from offering identities to entries.
LEMMA ListedType ==
    ASSUME NEW D \in SUBSET Offerings, NEW c \in [D -> Entry]
    PROVE  c \in UNION {[listed -> Entry] : listed \in SUBSET Offerings}
OBVIOUS

\* Catalog transactions keep every row well formed.
LEMMA CatalogOperationType ==
    ASSUME TypeOK, CatalogOperation
    PROVE  TypeOK'
<1>1. PICK o \in Offerings :
          \/ \E entry \in Entry : CreateOffering(o, entry) \/ UpdateOffering(o, entry)
          \/ DeleteOffering(o)
  BY DEF CatalogOperation
<1>2. PICK listed \in SUBSET Offerings : catalog \in [listed -> Entry]
  BY DEF TypeOK
<1>3. ASSUME NEW entry \in Entry, CreateOffering(o, entry)
      PROVE  TypeOK'
  <2>1. catalog' \in [listed \cup {o} -> Entry]
    BY <1>2, <1>3 DEF CreateOffering
  <2>2. catalog' \in UNION {[l -> Entry] : l \in SUBSET Offerings}
    BY <2>1, ListedType
  <2>3. QED
    BY <1>3, <2>2 DEF CreateOffering, TypeOK, draftVars, rosterVars
<1>4. ASSUME NEW entry \in Entry, UpdateOffering(o, entry)
      PROVE  TypeOK'
  <2>1. catalog' \in [listed -> Entry]
    BY <1>2, <1>4 DEF UpdateOffering
  <2>2. QED
    BY <1>4, <2>1 DEF UpdateOffering, TypeOK, draftVars, rosterVars
<1>5. CASE DeleteOffering(o)
  <2>1. catalog' \in [listed \ {o} -> Entry]
    BY <1>2, <1>5 DEF DeleteOffering
  <2>2. exclusion' \subseteq Students \X Offerings
    BY <1>5 DEF DeleteOffering, TypeOK
  <2>3. catalog' \in UNION {[l -> Entry] : l \in SUBSET Offerings}
    BY <2>1, ListedType
  <2>4. QED
    BY <1>5, <2>2, <2>3 DEF DeleteOffering, TypeOK, rosterVars
<1>6. QED
  BY <1>1, <1>3, <1>4, <1>5

\* Every step keeps every row well formed.
LEMMA TypeStep == TypeOK /\ [Next]_vars => TypeOK'
<1> SUFFICES ASSUME TypeOK, [Next]_vars
             PROVE  TypeOK'
  OBVIOUS
<1>1. ASSUME NEW expected \in 0..MaxRevision, ManualOperation(expected)
      PROVE  TypeOK'
  BY <1>1, PlacementEditType, OtherEditType DEF ManualOperation
<1>2. CASE RosterOperation
  BY <1>2, RosterOperationType
<1>3. CASE CatalogOperation
  BY <1>3, CatalogOperationType
<1>4. CASE UNCHANGED vars
  BY <1>4 DEF vars, draftVars, catalogVars, rosterVars, TypeOK
<1>5. QED
  BY <1>1, <1>2, <1>3, <1>4 DEF Next

\* An empty draft is well formed.
LEMMA InitType == Init => TypeOK
<1> SUFFICES ASSUME Init
             PROVE  TypeOK
  OBVIOUS
<1>1. catalog \in [{} -> Entry] /\ {} \in SUBSET Offerings
  BY DEF Init
<1>2. catalog \in UNION {[listed -> Entry] : listed \in SUBSET Offerings}
  BY <1>1, ListedType
<1>3. 0 \in 0..MaxRevision
  BY DraftAssumption DEF DraftAssumption
<1>4. override \in [Students -> [Rules -> Nat]]
  BY DEF Init, NoOverrides
<1>5. QED
  BY <1>2, <1>3, <1>4 DEF Init, TypeOK

\* The rows behind a session's draft keep their shape under every manual
\* operation, roster transaction and catalog transaction.
THEOREM TypeCorrect == Spec => []TypeOK
BY InitType, TypeStep, PTL DEF Spec

--------------------------------------------------------------------------------
(* Overrides, exclusions and the catalog stay consistent.  The three       *)
(* properties hold each other up: that nobody is placed in an unlisted     *)
(* offering is what lets a deleted offering take its exclusions with it,   *)
(* and that an unplaced student has no override is what lets a removal     *)
(* leave the rows of a student it does not touch alone.                    *)

Consistent ==
    /\ TypeOK
    /\ OverridesSitOnPins
    /\ ExclusionOverridesStand
    /\ DraftNamesListedOfferings

\* Listed offerings are identities offerings may have.
LEMMA ListedAreOfferings ==
    ASSUME TypeOK
    PROVE  DOMAIN catalog \subseteq Offerings
BY DEF TypeOK

\* A recorded rule after a save is one carried over or one broken now.
LEMMA RecordedAfterSave ==
    ASSUME NEW rows \in [Rules -> Nat], NEW broken, NEW r \in Rules,
           WithOverrides(rows, broken)[r] > 0
    PROVE  rows[r] > 0 \/ r \in broken
BY DEF WithOverrides

\* Someone whose override rows are carried over has them from before, in the
\* same offering.
LEMMA CarriedFrom ==
    ASSUME TypeOK, NEW p, NEW s \in Students, NEW r \in Rules, Carried(p, s)[r] > 0
    PROVE  p[s] = placement[s] /\ r \in Recorded(s)
BY DEF Carried, NoOverrides, Recorded

\* Placing students pins them, in listed offerings, with the overrides they need.
LEMMA ChangeAssignmentsConsistent ==
    ASSUME Consistent, NEW expected, NEW confirm \in BOOLEAN, NEW M \in SUBSET Students,
           NEW moves \in [M -> Offerings], ChangeAssignments(expected, confirm, moves)
    PROVE  Consistent'
<1> DEFINE moved == DOMAIN moves
           final == [s \in Students |-> IF s \in moved THEN moves[s] ELSE placement[s]]
<1>1. moved = M
  OBVIOUS
<1>2. TypeOK /\ TypeOK'
  BY ChangeAssignmentsType DEF Consistent
<1>3. /\ placement' = final
      /\ pinned' = pinned \cup moved
      /\ \A s \in moved : final[s] \in DOMAIN catalog
      /\ UNCHANGED <<exclusion, catalog>>
  BY DEF ChangeAssignments, ReplaceDraft, catalogVars
<1>4. ASSUME NEW s \in Students
      PROVE  override'[s] = IF s \in moved
                            THEN WithOverrides(Carried(final, s), Broken(final, s))
                            ELSE Carried(final, s)
  BY DEF ChangeAssignments
<1>5. ASSUME NEW s \in Students, NEW r \in Recorded(s)'
      PROVE  \/ final[s] = placement[s] /\ r \in Recorded(s)
             \/ s \in moved /\ r \in Broken(final, s)
  <2>1. r \in Rules /\ override'[s][r] > 0
    BY <1>5 DEF Recorded
  <2>2. CASE s \notin moved
    BY <1>2, <1>4, <2>1, <2>2, CarriedFrom
  <2>3. CASE s \in moved
    <3>1. Carried(final, s)[r] > 0 \/ r \in Broken(final, s)
      BY <1>2, <1>4, <2>1, <2>3, CarriedType, RecordedAfterSave
    <3>2. QED
      BY <1>2, <2>1, <2>3, <3>1, CarriedFrom
  <2>4. QED
    BY <2>2, <2>3
<1>6. OverridesSitOnPins'
  <2> SUFFICES ASSUME NEW s \in Students, NEW r \in Recorded(s)'
               PROVE  s \in pinned' /\ placement'[s] # Unplaced
    BY DEF OverridesSitOnPins
  <2>1. CASE final[s] = placement[s] /\ r \in Recorded(s)
    BY <1>3, <2>1 DEF Consistent, OverridesSitOnPins
  <2>2. CASE s \in moved
    BY <1>2, <1>3, <2>2, ListedAreOfferings, DraftAssumption DEF DraftAssumption
  <2>3. QED
    BY <1>5, <2>1, <2>2
<1>7. ExclusionOverridesStand'
  <2> SUFFICES ASSUME NEW s \in Students, "exclusion" \in Recorded(s)'
               PROVE  <<s, final[s]>> \in exclusion
    BY <1>3 DEF ExclusionOverridesStand
  <2>1. CASE final[s] = placement[s] /\ "exclusion" \in Recorded(s)
    BY <2>1 DEF Consistent, ExclusionOverridesStand
  <2>2. CASE "exclusion" \in Broken(final, s)
    BY <2>2 DEF Broken
  <2>3. QED
    BY <1>5, <2>1, <2>2
<1>8. DraftNamesListedOfferings'
  <2> SUFFICES ASSUME NEW s \in Students, final[s] # Unplaced
               PROVE  final[s] \in DOMAIN catalog
    BY <1>3 DEF Consistent, DraftNamesListedOfferings, Placed
  <2>1. CASE s \in moved
    BY <1>3, <2>1
  <2>2. CASE s \notin moved
    BY <2>2 DEF Consistent, DraftNamesListedOfferings, Placed
  <2>3. QED
    BY <2>1, <2>2
<1>9. QED
  BY <1>2, <1>6, <1>7, <1>8 DEF Consistent

\* Removing placements takes their pins and overrides along.
LEMMA RemoveAssignmentsConsistent ==
    ASSUME Consistent, NEW expected, NEW removed, RemoveAssignments(expected, removed)
    PROVE  Consistent'
<1> DEFINE kept == [s \in Students |-> IF s \in removed THEN Unplaced ELSE placement[s]]
<1>1. TypeOK /\ TypeOK'
  BY RemoveAssignmentsType DEF Consistent
<1>2. /\ placement' = kept
      /\ pinned' = pinned \ removed
      /\ UNCHANGED <<exclusion, catalog>>
  BY DEF RemoveAssignments, ReplaceDraft, catalogVars
<1>3. ASSUME NEW s \in Students, NEW r \in Recorded(s)'
      PROVE  kept[s] = placement[s] /\ r \in Recorded(s)
  <2>1. override'[s] = Carried(kept, s)
    BY DEF RemoveAssignments
  <2>2. QED
    BY <1>1, <1>3, <2>1, CarriedFrom DEF Recorded
<1>4. ASSUME NEW s \in Students, NEW r \in Recorded(s)
      PROVE  s \in pinned /\ placement[s] # Unplaced
  BY <1>4 DEF Consistent, OverridesSitOnPins
<1>5. OverridesSitOnPins'
  <2> SUFFICES ASSUME NEW s \in Students, NEW r \in Recorded(s)'
               PROVE  s \in pinned' /\ placement'[s] # Unplaced
    BY DEF OverridesSitOnPins
  <2>1. kept[s] = placement[s] /\ s \in pinned /\ placement[s] # Unplaced
    BY <1>3, <1>4
  <2>2. s \notin removed
    BY <2>1
  <2>3. QED
    BY <1>2, <2>1, <2>2
<1>6. ExclusionOverridesStand'
  BY <1>2, <1>3 DEF Consistent, ExclusionOverridesStand
<1>7. DraftNamesListedOfferings'
  BY <1>2 DEF Consistent, DraftNamesListedOfferings, Placed
<1>8. QED
  BY <1>1, <1>5, <1>6, <1>7 DEF Consistent

\* Moves and swaps preserve the inductive invariant.
LEMMA PlacementEditConsistent ==
    ASSUME Consistent, NEW expected, NEW confirm \in BOOLEAN, PlacementEdit(expected, confirm)
    PROVE  Consistent'
<1>1. ASSUME NEW s \in Students, NEW o \in Offerings, MoveAssignment(expected, confirm, s, o)
      PROVE  Consistent'
  <2>1. [x \in {s} |-> o] \in [{s} -> Offerings]
    OBVIOUS
  <2>2. QED
    BY <1>1, <2>1, ChangeAssignmentsConsistent DEF MoveAssignment
<1>2. ASSUME NEW s \in Students, NEW t \in Students, SwapAssignments(expected, confirm, s, t)
      PROVE  Consistent'
  <2> DEFINE moves == [x \in {s, t} |-> IF x = s THEN placement[t] ELSE placement[s]]
  <2>1. moves \in [{s, t} -> Offerings]
    BY <1>2 DEF SwapAssignments, Placed, Consistent, TypeOK
  <2>2. ChangeAssignments(expected, confirm, moves)
    BY <1>2 DEF SwapAssignments
  <2>3. QED
    BY <2>1, <2>2, ChangeAssignmentsConsistent
<1>3. QED
  BY <1>1, <1>2 DEF PlacementEdit

\* Unpinning and withdrawing an exclusion clear the overrides that lose their ground.
LEMMA OtherEditConsistent ==
    ASSUME Consistent, NEW expected, OtherEdit(expected)
    PROVE  Consistent'
<1>1. TypeOK /\ TypeOK'
  BY OtherEditType DEF Consistent
<1>2. CASE RemoveUnpinnedAssignments(expected)
  BY <1>2, RemoveAssignmentsConsistent DEF RemoveUnpinnedAssignments
<1>3. ASSUME NEW s \in Students, RemoveAssignment(expected, s)
      PROVE  Consistent'
  BY <1>3, RemoveAssignmentsConsistent DEF RemoveAssignment
<1>4. ASSUME NEW s \in Students, PinAssignment(expected, s)
      PROVE  Consistent'
  BY <1>1, <1>4 DEF PinAssignment, Consistent, OverridesSitOnPins, ExclusionOverridesStand,
                    DraftNamesListedOfferings, Recorded, Placed, catalogVars
<1>5. ASSUME NEW s \in Students, UnpinAssignment(expected, s)
      PROVE  Consistent'
  <2>1. override' = [override EXCEPT ![s] = NoOverrides] /\ pinned' = pinned \ {s}
        /\ UNCHANGED <<placement, exclusion, catalog>>
    BY <1>5 DEF UnpinAssignment, catalogVars
  <2>2. ASSUME NEW x \in Students, NEW r \in Recorded(x)'
        PROVE  x # s /\ r \in Recorded(x)
    BY <1>1, <2>1, <2>2 DEF Recorded, NoOverrides, TypeOK
  <2>3. OverridesSitOnPins'
    <3> SUFFICES ASSUME NEW x \in Students, NEW r \in Recorded(x)'
                 PROVE  x \in pinned' /\ placement'[x] # Unplaced
      BY DEF OverridesSitOnPins
    <3>1. x # s /\ r \in Recorded(x)
      BY <2>2
    <3>2. x \in pinned /\ placement[x] # Unplaced
      BY <3>1 DEF Consistent, OverridesSitOnPins
    <3>3. QED
      BY <2>1, <3>1, <3>2
  <2>4. ExclusionOverridesStand'
    BY <2>1, <2>2 DEF Consistent, ExclusionOverridesStand
  <2>5. DraftNamesListedOfferings'
    BY <2>1 DEF Consistent, DraftNamesListedOfferings, Placed
  <2>6. QED
    BY <1>1, <2>3, <2>4, <2>5 DEF Consistent
<1>6. ASSUME NEW s \in Students, NEW o \in Offerings, AddAssignmentExclusion(expected, s, o)
      PROVE  Consistent'
  BY <1>1, <1>6 DEF AddAssignmentExclusion, Consistent, OverridesSitOnPins,
                    ExclusionOverridesStand, DraftNamesListedOfferings, Recorded, Placed, catalogVars
<1>7. ASSUME NEW s \in Students, NEW o \in Offerings, RemoveAssignmentExclusion(expected, s, o)
      PROVE  Consistent'
  <2>1. exclusion' = exclusion \ {<<s, o>>} /\ UNCHANGED <<placement, pinned, catalog>>
    BY <1>7 DEF RemoveAssignmentExclusion, catalogVars
  <2>2. ASSUME NEW x \in Students, NEW r \in Recorded(x)'
        PROVE  /\ r \in Recorded(x)
               /\ r = "exclusion" => ~(x = s /\ placement[s] = o)
    BY <1>1, <1>7, <2>2 DEF RemoveAssignmentExclusion, Recorded, TypeOK
  <2>3. OverridesSitOnPins'
    BY <2>1, <2>2 DEF Consistent, OverridesSitOnPins
  <2>4. ExclusionOverridesStand'
    <3> SUFFICES ASSUME NEW x \in Students, "exclusion" \in Recorded(x)'
                 PROVE  <<x, placement[x]>> \in exclusion \ {<<s, o>>}
      BY <2>1 DEF ExclusionOverridesStand
    <3>1. <<x, placement[x]>> \in exclusion
      BY <2>2 DEF Consistent, ExclusionOverridesStand
    <3>2. <<x, placement[x]>> # <<s, o>>
      BY <2>2
    <3>3. QED
      BY <3>1, <3>2
  <2>5. DraftNamesListedOfferings'
    BY <2>1 DEF Consistent, DraftNamesListedOfferings, Placed
  <2>6. QED
    BY <1>1, <2>3, <2>4, <2>5 DEF Consistent
<1>8. QED
  BY <1>2, <1>3, <1>4, <1>5, <1>6, <1>7 DEF OtherEdit

\* Roster transactions leave the draft and the catalog alone.
LEMMA RosterOperationConsistent ==
    ASSUME Consistent, RosterOperation
    PROVE  Consistent'
<1>1. TypeOK'
  BY RosterOperationType DEF Consistent
<1>2. UNCHANGED <<draftVars, catalogVars>>
  BY DEF RosterOperation, InsertNonParticipation, CommitNonParticipation, DeleteNonParticipation,
         AddMembership, DeleteMembership
<1>3. QED
  BY <1>1, <1>2 DEF draftVars, catalogVars, Consistent, OverridesSitOnPins,
                    ExclusionOverridesStand, DraftNamesListedOfferings, Recorded, Placed

\* An offering in use stays listed, and one that goes takes its exclusions along.
LEMMA CatalogOperationConsistent ==
    ASSUME Consistent, CatalogOperation
    PROVE  Consistent'
<1>1. TypeOK /\ TypeOK'
  BY CatalogOperationType DEF Consistent
<1>2. ASSUME UNCHANGED draftVars, DOMAIN catalog \subseteq DOMAIN catalog'
      PROVE  Consistent'
  BY <1>1, <1>2 DEF draftVars, Consistent, OverridesSitOnPins, ExclusionOverridesStand,
                    DraftNamesListedOfferings, Recorded, Placed
<1>3. ASSUME NEW o \in Offerings, NEW entry \in Entry, CreateOffering(o, entry)
      PROVE  Consistent'
  BY <1>2, <1>3 DEF CreateOffering
<1>4. ASSUME NEW o \in Offerings, NEW entry \in Entry, UpdateOffering(o, entry)
      PROVE  Consistent'
  BY <1>2, <1>4 DEF UpdateOffering
<1>5. ASSUME NEW o \in Offerings, DeleteOffering(o)
      PROVE  Consistent'
  <2>1. /\ DOMAIN catalog' = DOMAIN catalog \ {o}
        /\ exclusion' = {e \in exclusion : e[2] # o}
        /\ UNCHANGED <<placement, pinned, override>>
    BY <1>5 DEF DeleteOffering
  <2>2. \A s \in Students : placement[s] # o
    BY <1>5 DEF DeleteOffering, Occupants
  <2>3. OverridesSitOnPins'
    BY <2>1 DEF Consistent, OverridesSitOnPins, Recorded
  <2>4. ExclusionOverridesStand'
    <3> SUFFICES ASSUME NEW s \in Students, "exclusion" \in Recorded(s)
                 PROVE  <<s, placement[s]>> \in exclusion'
      BY <2>1 DEF ExclusionOverridesStand, Recorded
    <3>1. <<s, placement[s]>> \in exclusion
      BY DEF Consistent, ExclusionOverridesStand
    <3>2. QED
      BY <2>1, <2>2, <3>1
  <2>5. DraftNamesListedOfferings'
    BY <2>1, <2>2 DEF Consistent, DraftNamesListedOfferings, Placed
  <2>6. QED
    BY <1>1, <2>3, <2>4, <2>5 DEF Consistent
<1>6. QED
  BY <1>3, <1>4, <1>5 DEF CatalogOperation

\* Every step preserves the inductive invariant.
LEMMA ConsistentStep == Consistent /\ [Next]_vars => Consistent'
<1> SUFFICES ASSUME Consistent, [Next]_vars
             PROVE  Consistent'
  OBVIOUS
<1>1. ASSUME NEW expected \in 0..MaxRevision, ManualOperation(expected)
      PROVE  Consistent'
  BY <1>1, PlacementEditConsistent, OtherEditConsistent DEF ManualOperation
<1>2. CASE RosterOperation
  BY <1>2, RosterOperationConsistent
<1>3. CASE CatalogOperation
  BY <1>3, CatalogOperationConsistent
<1>4. CASE UNCHANGED vars
  <2>1. TypeOK'
    BY <1>4, TypeStep DEF Consistent
  <2>2. UNCHANGED <<placement, pinned, override, exclusion, catalog>>
    BY <1>4 DEF vars, draftVars, catalogVars
  <2>3. QED
    BY <2>1, <2>2 DEF Consistent, OverridesSitOnPins, ExclusionOverridesStand,
                      DraftNamesListedOfferings, Recorded, Placed
<1>5. QED
  BY <1>1, <1>2, <1>3, <1>4 DEF Next

\* A new session's draft is empty.
LEMMA InitConsistent == Init => Consistent
<1> SUFFICES ASSUME Init
             PROVE  Consistent
  OBVIOUS
<1>1. TypeOK
  BY InitType
<1>2. \A s \in Students : Recorded(s) = {} /\ placement[s] = Unplaced
  BY DEF Init, Recorded, NoOverrides
<1>3. QED
  BY <1>1, <1>2 DEF Init, Consistent, OverridesSitOnPins, ExclusionOverridesStand,
                    DraftNamesListedOfferings, Placed

\* However many students, offerings and edits there are, the invariant that
\* ties overrides, pins, exclusions and the catalog together holds.
THEOREM DraftConsistent == Spec => []Consistent
BY InitConsistent, ConsistentStep, PTL DEF Spec

\* Overrides live and die with the pinned placement they were given to
\* (changeAssignments, removeAssignments, SetAssignmentPin).
THEOREM OverridesStayOnPins == Spec => []OverridesSitOnPins
<1>1. Consistent => OverridesSitOnPins
  BY DEF Consistent
<1>2. QED
  BY <1>1, DraftConsistent, PTL

\* No exclusion override outlives its exclusion, whichever of the two the
\* draft loses first (changeAssignmentExclusion, DeleteOffering).
THEOREM ExclusionOverridesStandAlways == Spec => []ExclusionOverridesStand
<1>1. Consistent => ExclusionOverridesStand
  BY DEF Consistent
<1>2. QED
  BY <1>1, DraftConsistent, PTL

\* The draft never names an offering the catalog has dropped (DeleteOffering
\* and the foreign keys of assignments and exclusions).
THEOREM DraftStaysInCatalog == Spec => []DraftNamesListedOfferings
<1>1. Consistent => DraftNamesListedOfferings
  BY DEF Consistent
<1>2. QED
  BY <1>1, DraftConsistent, PTL

--------------------------------------------------------------------------------
(* Every new placement is saved with exactly the overrides it needs.       *)

Accounted ==
    \A s \in Students :
        placement'[s] \notin {placement[s], Unplaced} => Recorded(s)' = Broken(placement, s)'

\* A placement that changes starts from no override rows and gets one per broken rule.
LEMMA ChangeAssignmentsAccounted ==
    ASSUME TypeOK, NEW expected, NEW confirm \in BOOLEAN, NEW M \in SUBSET Students,
           NEW moves \in [M -> Offerings], ChangeAssignments(expected, confirm, moves)
    PROVE  Accounted
<1> DEFINE moved == DOMAIN moves
           final == [s \in Students |-> IF s \in moved THEN moves[s] ELSE placement[s]]
<1>1. placement' = final /\ UNCHANGED <<exclusion, catalog>>
  BY DEF ChangeAssignments, ReplaceDraft, catalogVars
<1> SUFFICES ASSUME NEW s \in Students, final[s] \notin {placement[s], Unplaced}
             PROVE  Recorded(s)' = Broken(placement, s)'
  BY <1>1 DEF Accounted
<1>2. s \in moved
  OBVIOUS
<1>3. override'[s] = WithOverrides(Carried(final, s), Broken(final, s))
  BY <1>2 DEF ChangeAssignments
<1>4. Carried(final, s) = NoOverrides
  BY DEF Carried
<1>5. Broken(final, s) \subseteq Rules
  BY DEF Broken
<1>6. Recorded(s)' = Broken(final, s)
  BY <1>3, <1>4, <1>5 DEF Recorded, WithOverrides, NoOverrides
<1>7. Broken(placement, s)' = Broken(final, s)
  BY <1>1 DEF Broken, Occupants
<1>8. QED
  BY <1>6, <1>7

\* Only moves and swaps put a student into another offering.
LEMMA AccountedStep == TypeOK /\ Next => Accounted
<1> SUFFICES ASSUME TypeOK, Next
             PROVE  Accounted
  OBVIOUS
<1>1. ASSUME NEW expected, NEW confirm \in BOOLEAN, PlacementEdit(expected, confirm)
      PROVE  Accounted
  <2>1. ASSUME NEW s \in Students, NEW o \in Offerings, MoveAssignment(expected, confirm, s, o)
        PROVE  Accounted
    <3>1. [x \in {s} |-> o] \in [{s} -> Offerings]
      OBVIOUS
    <3>2. QED
      BY <2>1, <3>1, ChangeAssignmentsAccounted DEF MoveAssignment
  <2>2. ASSUME NEW s \in Students, NEW t \in Students, SwapAssignments(expected, confirm, s, t)
        PROVE  Accounted
    <3> DEFINE moves == [x \in {s, t} |-> IF x = s THEN placement[t] ELSE placement[s]]
    <3>1. moves \in [{s, t} -> Offerings]
      BY <2>2 DEF SwapAssignments, Placed, TypeOK
    <3>2. ChangeAssignments(expected, confirm, moves)
      BY <2>2 DEF SwapAssignments
    <3>3. QED
      BY <3>1, <3>2, ChangeAssignmentsAccounted
  <2>3. QED
    BY <1>1, <2>1, <2>2 DEF PlacementEdit
<1>2. ASSUME NEW expected, NEW removed, RemoveAssignments(expected, removed)
      PROVE  Accounted
  BY <1>2 DEF RemoveAssignments, ReplaceDraft, Accounted
<1>3. ASSUME NEW expected, OtherEdit(expected)
      PROVE  Accounted
  <2>1. CASE \E removed : RemoveAssignments(expected, removed)
    BY <1>2, <2>1
  <2>2. CASE placement' = placement
    BY <2>2 DEF Accounted
  <2>3. QED
    BY <1>3, <2>1, <2>2 DEF OtherEdit, RemoveUnpinnedAssignments, RemoveAssignment, PinAssignment,
           UnpinAssignment, AddAssignmentExclusion, RemoveAssignmentExclusion
<1>4. CASE placement' = placement
  BY <1>4 DEF Accounted
<1>5. RosterOperation => placement' = placement
  BY DEF RosterOperation, InsertNonParticipation, CommitNonParticipation, DeleteNonParticipation,
         AddMembership, DeleteMembership, draftVars
<1>6. CatalogOperation => placement' = placement
  BY DEF CatalogOperation, CreateOffering, UpdateOffering, DeleteOffering, draftVars
<1>7. QED
  BY <1>1, <1>3, <1>4, <1>5, <1>6 DEF Next, ManualOperation

\* Moves and swaps leave no hard rule of a new placement unaccounted for and
\* take over no acceptance from the old one (changeAssignments).
THEOREM NewPlacementsAccounted == Spec => NewPlacementsAreAccountedFor
<1>1. TypeOK /\ [Next]_vars => [Accounted]_vars
  BY AccountedStep
<1>2. QED
  BY <1>1, TypeCorrect, PTL DEF Spec, NewPlacementsAreAccountedFor, Accounted

--------------------------------------------------------------------------------
(* What an edit means to a reader of the draft: either its revision number *)
(* is used up, or what was read is still there, but for exclusions that    *)
(* went with their offering.                                               *)

\* Every manual operation compares the revision, takes the next one, and leaves
\* catalog and roster alone.
LEMMA ManualOperationsAreNumbered ==
    ASSUME NEW expected, ManualOperation(expected)
    PROVE  /\ expected = revision
           /\ revision' = revision + 1
           /\ UNCHANGED <<catalogVars, rosterVars>>
<1>1. ASSUME NEW confirm \in BOOLEAN, PlacementEdit(expected, confirm)
      PROVE  AdvanceDraftRevision(expected) /\ UNCHANGED <<catalogVars, rosterVars>>
  <2>1. PICK moves : ChangeAssignments(expected, confirm, moves)
    BY <1>1 DEF PlacementEdit, MoveAssignment, SwapAssignments
  <2>2. QED
    BY <2>1 DEF ChangeAssignments
<1>2. ASSUME OtherEdit(expected)
      PROVE  AdvanceDraftRevision(expected) /\ UNCHANGED <<catalogVars, rosterVars>>
  BY <1>2 DEF OtherEdit, RemoveUnpinnedAssignments, RemoveAssignment, RemoveAssignments,
              PinAssignment, UnpinAssignment, AddAssignmentExclusion, RemoveAssignmentExclusion
<1>3. QED
  BY <1>1, <1>2 DEF ManualOperation, AdvanceDraftRevision

\* Roster and catalog transactions keep the number, the placements, the pins and
\* the overrides, and of the exclusions those whose offering stays.
LEMMA OtherTransactionsKeepTheDraft ==
    ASSUME Consistent, RosterOperation \/ CatalogOperation
    PROVE  /\ UNCHANGED <<revision, placement, pinned, override>>
           /\ exclusion' = {e \in exclusion : e[2] \in DOMAIN catalog'}
<1>1. \A e \in exclusion : e[2] \in DOMAIN catalog
  BY DEF Consistent, DraftNamesListedOfferings
<1>2. CASE RosterOperation
  <2>1. UNCHANGED <<draftVars, catalogVars>>
    BY <1>2 DEF RosterOperation, InsertNonParticipation, CommitNonParticipation,
                DeleteNonParticipation, AddMembership, DeleteMembership
  <2>2. QED
    BY <1>1, <2>1 DEF draftVars, catalogVars
<1>3. ASSUME NEW o \in Offerings, NEW entry \in Entry, CreateOffering(o, entry)
      PROVE  UNCHANGED draftVars /\ DOMAIN catalog' = DOMAIN catalog \cup {o}
  BY <1>3 DEF CreateOffering
<1>4. ASSUME NEW o \in Offerings, NEW entry \in Entry, UpdateOffering(o, entry)
      PROVE  UNCHANGED draftVars /\ DOMAIN catalog' = DOMAIN catalog
  BY <1>4 DEF UpdateOffering
<1>5. ASSUME NEW o \in Offerings, DeleteOffering(o)
      PROVE  /\ UNCHANGED <<revision, placement, pinned, override>>
             /\ DOMAIN catalog' = DOMAIN catalog \ {o}
             /\ exclusion' = {e \in exclusion : e[2] # o}
  BY <1>5 DEF DeleteOffering
<1>6. QED
  BY <1>1, <1>2, <1>3, <1>4, <1>5 DEF CatalogOperation, draftVars

\* The identity of a deleted offering is not issued again.
LEMMA IdentitiesAreIssuedOnce ==
    ASSUME Next
    PROVE  /\ DOMAIN catalog \subseteq DOMAIN catalog' \cup retired'
           /\ retired \subseteq retired'
           /\ DOMAIN catalog' \cap retired \subseteq DOMAIN catalog
<1>1. CASE UNCHANGED catalogVars
  BY <1>1 DEF catalogVars
<1>2. CASE \E expected \in 0..MaxRevision : ManualOperation(expected)
  BY <1>1, <1>2, ManualOperationsAreNumbered
<1>3. CASE RosterOperation
  BY <1>1, <1>3 DEF RosterOperation, InsertNonParticipation, CommitNonParticipation,
                    DeleteNonParticipation, AddMembership, DeleteMembership
<1>4. CASE CatalogOperation
  BY <1>4 DEF CatalogOperation, CreateOffering, UpdateOffering, DeleteOffering
<1>5. QED
  BY <1>2, <1>3, <1>4 DEF Next

--------------------------------------------------------------------------------
(* Override rows are counted by the revision: an edit adds at most one row  *)
(* for a rule of a placement, and takes a number.                           *)

OverridesWithinRevision ==
    \A s \in Students : \A r \in Rules : override[s][r] <= revision

\* What a rewrite carries over is no more than there was.
LEMMA CarriedIsNoMore ==
    ASSUME TypeOK, NEW p, NEW s \in Students
    PROVE  \A r \in Rules : Carried(p, s)[r] \in Nat /\ Carried(p, s)[r] <= override[s][r]
<1>1. \A r \in Rules : override[s][r] \in Nat /\ NoOverrides[r] = 0
  BY DEF TypeOK, NoOverrides
<1>2. QED
  BY <1>1 DEF Carried

\* No edit adds two rows for one rule of one placement.
LEMMA EditsAddOneRow ==
    ASSUME TypeOK, NEW expected, ManualOperation(expected),
           NEW s \in Students, NEW r \in Rules
    PROVE  override'[s][r] <= override[s][r] + 1
<1>1. override[s] \in [Rules -> Nat] /\ override[s][r] \in Nat /\ NoOverrides[r] = 0
  BY DEF TypeOK, NoOverrides
<1>2. ASSUME NEW confirm, NEW moves, ChangeAssignments(expected, confirm, moves)
      PROVE  override'[s][r] <= override[s][r] + 1
  <2> DEFINE final == [x \in Students |-> IF x \in DOMAIN moves THEN moves[x] ELSE placement[x]]
  <2>1. override'[s] = IF s \in DOMAIN moves
                       THEN WithOverrides(Carried(final, s), Broken(final, s))
                       ELSE Carried(final, s)
    BY <1>2 DEF ChangeAssignments
  <2>2. Carried(final, s)[r] \in Nat /\ Carried(final, s)[r] <= override[s][r]
    BY CarriedIsNoMore
  <2> HIDE DEF final
  <2>3. WithOverrides(Carried(final, s), Broken(final, s))[r] \in
            {Carried(final, s)[r], Carried(final, s)[r] + 1}
    BY DEF WithOverrides
  <2>4. QED
    BY <1>1, <2>1, <2>2, <2>3
<1>3. ASSUME NEW removed, RemoveAssignments(expected, removed)
      PROVE  override'[s][r] <= override[s][r] + 1
  <2> DEFINE kept == [x \in Students |-> IF x \in removed THEN Unplaced ELSE placement[x]]
  <2>1. override'[s] = Carried(kept, s)
    BY <1>3 DEF RemoveAssignments
  <2>2. Carried(kept, s)[r] \in Nat /\ Carried(kept, s)[r] <= override[s][r]
    BY CarriedIsNoMore
  <2>3. QED
    BY <1>1, <2>1, <2>2
<1>4. ASSUME NEW x, override' = [override EXCEPT ![x] = NoOverrides]
      PROVE  override'[s][r] <= override[s][r] + 1
  <2>1. override'[s] \in {override[s], NoOverrides}
    BY <1>4 DEF TypeOK
  <2>2. QED
    BY <1>1, <2>1
<1>5. ASSUME NEW x \in Students,
             override' = [override EXCEPT ![x] = [override[x] EXCEPT !["exclusion"] = 0]]
      PROVE  override'[s][r] <= override[s][r] + 1
  <2>1. override'[s] \in {override[s], [override[s] EXCEPT !["exclusion"] = 0]}
    BY <1>5 DEF TypeOK
  <2>2. override'[s][r] \in {override[s][r], 0}
    BY <1>1, <2>1
  <2>3. QED
    BY <1>1, <2>2
<1>6. ASSUME override' = override
      PROVE  override'[s][r] <= override[s][r] + 1
  BY <1>1, <1>6
<1>7. CASE \E confirm \in BOOLEAN : PlacementEdit(expected, confirm)
  BY <1>2, <1>7 DEF PlacementEdit, MoveAssignment, SwapAssignments
<1>8. CASE OtherEdit(expected)
  <2>1. CASE RemoveUnpinnedAssignments(expected)
    BY <1>3, <2>1 DEF RemoveUnpinnedAssignments
  <2>2. ASSUME NEW x \in Students, RemoveAssignment(expected, x)
        PROVE  override'[s][r] <= override[s][r] + 1
    BY <1>3, <2>2 DEF RemoveAssignment
  <2>3. ASSUME NEW x \in Students, UnpinAssignment(expected, x)
        PROVE  override'[s][r] <= override[s][r] + 1
    BY <1>4, <2>3 DEF UnpinAssignment
  <2>4. ASSUME NEW x \in Students, NEW o \in Offerings, RemoveAssignmentExclusion(expected, x, o)
        PROVE  override'[s][r] <= override[s][r] + 1
    BY <1>5, <1>6, <2>4 DEF RemoveAssignmentExclusion
  <2>5. ASSUME NEW x \in Students,
               \/ PinAssignment(expected, x)
               \/ \E o \in Offerings : AddAssignmentExclusion(expected, x, o)
        PROVE  override'[s][r] <= override[s][r] + 1
    BY <1>6, <2>5 DEF PinAssignment, AddAssignmentExclusion
  <2>6. QED
    BY <1>8, <2>1, <2>2, <2>3, <2>4, <2>5 DEF OtherEdit
<1>9. QED
  BY <1>7, <1>8 DEF ManualOperation

\* Every step keeps the count: an edit takes a number, nothing else adds a row.
LEMMA OverridesWithinRevisionStep ==
    ASSUME Consistent, OverridesWithinRevision, [Next]_vars
    PROVE  OverridesWithinRevision'
<1>1. TypeOK /\ revision \in Nat
  BY DraftAssumption DEF Consistent, TypeOK, DraftAssumption
<1>2. ASSUME UNCHANGED <<revision, override>>
      PROVE  OverridesWithinRevision'
  BY <1>2 DEF OverridesWithinRevision
<1>3. ASSUME NEW expected \in 0..MaxRevision, ManualOperation(expected)
      PROVE  OverridesWithinRevision'
  <2> SUFFICES ASSUME NEW s \in Students, NEW r \in Rules
               PROVE  override'[s][r] <= revision'
    BY DEF OverridesWithinRevision
  <2>1. revision' = revision + 1
    BY <1>3, ManualOperationsAreNumbered
  <2>2. override'[s][r] <= override[s][r] + 1
    BY <1>1, <1>3, EditsAddOneRow
  <2>3. TypeOK'
    BY ConsistentStep DEF Consistent
  <2>4. override[s][r] \in Nat /\ override'[s][r] \in Nat /\ override[s][r] <= revision
    BY <1>1, <2>3 DEF TypeOK, OverridesWithinRevision
  <2>5. QED
    BY <1>1, <2>1, <2>2, <2>4
<1>4. CASE RosterOperation \/ CatalogOperation
  BY <1>2, <1>4, OtherTransactionsKeepTheDraft
<1>5. CASE UNCHANGED vars
  BY <1>2, <1>5 DEF vars, draftVars
<1>6. QED
  BY <1>3, <1>4, <1>5 DEF Next

\* For any number of edits a placement never has more override rows of a rule
\* than the draft has had edits (CreateAssignmentOverride is an INSERT that no
\* constraint keeps from repeating itself).
THEOREM OverridesAreCounted == Spec => []OverridesWithinRevision
<1>1. Init => OverridesWithinRevision
  BY DEF Init, OverridesWithinRevision, NoOverrides
<1>2. Consistent /\ OverridesWithinRevision /\ [Next]_vars => OverridesWithinRevision'
  BY OverridesWithinRevisionStep
<1>3. QED
  BY <1>1, <1>2, DraftConsistent, PTL DEF Spec

--------------------------------------------------------------------------------
(* Non-participants.  A placement may meet a declaration whose trigger has *)
(* already looked (NonParticipantsHoldNoPlacement is not a theorem); that  *)
(* meeting is the only way to place a non-participant.                     *)

\* No step leaves a placement on a student whose declaration is inserted and not
\* yet committed.
PlacementsWaitForDeclarations == [][Placed(placement') \cap declaring = {}]_vars

\* The inductive invariant: a declaration begun is respected as one committed.
DeclaredHoldNoPlacement == Placed(placement) \cap (absent \cup declaring) = {}

\* A transaction that keeps the roster has its placements checked by the trigger.
LEMMA GuardedPlacementsKeepDeclared ==
    ASSUME DeclaredHoldNoPlacement, UNCHANGED rosterVars,
           placement' = placement \/ NonParticipantGuard(placement'),
           Placed(placement') \cap declaring = {}
    PROVE  DeclaredHoldNoPlacement'
<1>1. absent' = absent /\ declaring' = declaring
  BY DEF rosterVars
<1>2. Placed(placement)' = Placed(placement')
  BY DEF Placed
<1>3. Placed(placement') \cap absent = {}
  BY DEF DeclaredHoldNoPlacement, NonParticipantGuard
<1>4. QED
  BY <1>1, <1>2, <1>3 DEF DeclaredHoldNoPlacement

\* Every edit of the draft passes the trigger or leaves the placements alone.
LEMMA EditsAreGuarded ==
    ASSUME NEW expected, ManualOperation(expected)
    PROVE  placement' = placement \/ NonParticipantGuard(placement')
<1>1. CASE \E confirm \in BOOLEAN : PlacementEdit(expected, confirm)
  <2>1. PICK confirm, moves : ChangeAssignments(expected, confirm, moves)
    BY <1>1 DEF PlacementEdit, MoveAssignment, SwapAssignments
  <2>2. QED
    BY <2>1 DEF ChangeAssignments, ReplaceDraft
<1>2. CASE \E removed : RemoveAssignments(expected, removed)
  BY <1>2 DEF RemoveAssignments, ReplaceDraft
<1>3. CASE OtherEdit(expected)
  BY <1>2, <1>3 DEF OtherEdit, RemoveUnpinnedAssignments, RemoveAssignment, PinAssignment,
         UnpinAssignment, AddAssignmentExclusion, RemoveAssignmentExclusion
<1>4. QED
  BY <1>1, <1>3 DEF ManualOperation

\* A declaration is begun only for a student without a placement.
LEMMA RosterOperationsKeepDeclared ==
    ASSUME DeclaredHoldNoPlacement, RosterOperation
    PROVE  DeclaredHoldNoPlacement'
<1>1. placement' = placement
  BY DEF RosterOperation, InsertNonParticipation, CommitNonParticipation, DeleteNonParticipation,
         AddMembership, DeleteMembership, draftVars
<1>2. Placed(placement)' = Placed(placement)
  BY <1>1 DEF Placed
<1>3. \A s \in Placed(placement) : s \notin absent' \cup declaring'
  BY DEF RosterOperation, InsertNonParticipation, CommitNonParticipation, DeleteNonParticipation,
         AddMembership, DeleteMembership, DeclaredHoldNoPlacement
<1>4. QED
  BY <1>2, <1>3 DEF DeclaredHoldNoPlacement

\* Every step that spares the declarations in progress keeps the invariant.
LEMMA DeclaredStep ==
    ASSUME DeclaredHoldNoPlacement, Next, Placed(placement') \cap declaring = {}
    PROVE  DeclaredHoldNoPlacement'
<1>1. ASSUME NEW expected \in 0..MaxRevision, ManualOperation(expected)
      PROVE  DeclaredHoldNoPlacement'
  <2>1. UNCHANGED rosterVars
    BY <1>1, ManualOperationsAreNumbered
  <2>2. placement' = placement \/ NonParticipantGuard(placement')
    BY <1>1, EditsAreGuarded
  <2>3. QED
    BY <2>1, <2>2, GuardedPlacementsKeepDeclared
<1>2. CASE CatalogOperation
  <2>1. placement' = placement /\ UNCHANGED rosterVars
    BY <1>2 DEF CatalogOperation, CreateOffering, UpdateOffering, DeleteOffering, draftVars
  <2>2. QED
    BY <2>1, GuardedPlacementsKeepDeclared
<1>3. QED
  BY <1>1, <1>2, RosterOperationsKeepDeclared DEF Next

\* At the start there is no placement.
LEMMA DeclaredInitially == Init => DeclaredHoldNoPlacement
BY DEF Init, DeclaredHoldNoPlacement, Placed

\* The triggers keep every non-participant out of the draft but for the one race:
\* as long as nobody is placed while their declaration is being committed, no
\* sequence of edits, declarations and withdrawals leaves one placed
\* (prevent_assignment_for_non_participant, in the assignment editing migration).
THEOREM OnlyOpenDeclarationsAreOvertaken ==
    Spec /\ PlacementsWaitForDeclarations => []NonParticipantsHoldNoPlacement
<1>1. DeclaredHoldNoPlacement /\ [Next]_vars /\ [Placed(placement') \cap declaring = {}]_vars
          => DeclaredHoldNoPlacement'
  <2>1. CASE UNCHANGED vars
    BY <2>1 DEF vars, draftVars, rosterVars, DeclaredHoldNoPlacement, Placed
  <2>2. QED
    BY <2>1, DeclaredStep
<1>2. DeclaredHoldNoPlacement => NonParticipantsHoldNoPlacement
  BY DEF DeclaredHoldNoPlacement, NonParticipantsHoldNoPlacement
<1>3. QED
  BY <1>1, <1>2, DeclaredInitially, PTL DEF Spec, PlacementsWaitForDeclarations

================================================================================
