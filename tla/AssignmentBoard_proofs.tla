------------------------- MODULE AssignmentBoard_proofs -------------------------
(***************************************************************************)
(* Boards for every number of organizers, students and offerings: a load   *)
(* torn by other editors shows the draft if its revision is still current, *)
(* and a confirmation that is accepted was warned about every exclusion it *)
(* overrides.                                                              *)
(***************************************************************************)
EXTENDS AssignmentBoard, AssignmentDraft_proofs

--------------------------------------------------------------------------------
(* The inductive invariant.                                                *)

\* The phases in which a board has read the rows named.
ShowsAssignments == {"assignments", "exclusions", "ready", "warned"}
ShowsExclusions == {"exclusions", "ready", "warned"}
ShowsOverrides == {"ready", "warned"}

ViewFields == {"phase", "revision", "placement", "pinned", "override", "exclusion"}

BoardsAreShaped ==
    /\ DOMAIN view = Boards /\ DOMAIN warning = Boards
    /\ \A b \in Boards : DOMAIN view[b] = ViewFields /\ DOMAIN warning[b] = {"moves", "rules"}
    /\ \A b \in Boards : \E M \in SUBSET Students : warning[b].moves \in [M -> Offerings]

\* What each statement of a load has seen is the draft's for as long as the
\* revision read by the first one is, except that exclusions go with their offering.
LoadIsCurrent(b) ==
    view[b].revision = revision =>
        /\ view[b].phase \in ShowsAssignments =>
               view[b].placement = placement /\ view[b].pinned = pinned
        /\ view[b].phase \in ShowsExclusions =>
               exclusion = {e \in view[b].exclusion : e[2] \in DOMAIN catalog}
        /\ view[b].phase \in ShowsOverrides => view[b].override = override

\* No board is ahead of the session, and the exclusions it holds name offerings
\* that are listed or were.
ViewIsPast(b) ==
    /\ view[b].revision \in 0..revision
    /\ \A e \in view[b].exclusion : e[2] \in DOMAIN catalog \cup retired

\* A warning names every exclusion in the way of its moves.
WarningIsComplete(b) ==
    view[b].phase = "warned" /\ view[b].revision = revision =>
        \A s \in DOMAIN warning[b].moves :
            <<s, warning[b].moves[s]>> \in exclusion => "exclusion" \in warning[b].rules[s]

\* The edits a board can be warned about when p is the draft: a move, or a swap.
IsAnEdit(p, moves) ==
    \/ \E s \in Students, o \in Offerings : moves = [x \in {s} |-> o]
    \/ \E s, t \in Placed(p) :
           s # t /\ moves = [x \in {s, t} |-> IF x = s THEN p[t] ELSE p[s]]

\* A warning that is current is about an edit of the current draft.
WarningIsAnEdit(b) ==
    view[b].phase = "warned" /\ view[b].revision = revision =>
        IsAnEdit(placement, warning[b].moves)

BoardIsSound(b) ==
    LoadIsCurrent(b) /\ ViewIsPast(b) /\ WarningIsComplete(b) /\ WarningIsAnEdit(b)

BoardInv ==
    /\ Consistent
    /\ BoardsAreShaped
    /\ \A b \in Boards : BoardIsSound(b)

--------------------------------------------------------------------------------
(* Edits of the draft as the boards see them.                              *)

\* An edit that takes a revision leaves no board current; the board it came from
\* starts afresh.
LEMMA NumberedEditSound ==
    ASSUME BoardInv, Consistent', BoardsAreShaped',
           revision' = revision + 1, UNCHANGED catalogVars,
           \A b \in Boards : view'[b] = view[b] \/ view'[b] = Empty
    PROVE  BoardInv'
<1> SUFFICES ASSUME NEW b \in Boards
             PROVE  BoardIsSound(b)'
  BY DEF BoardInv
<1>1. revision \in Nat
  BY DraftAssumption DEF BoardInv, Consistent, TypeOK, DraftAssumption
<1>2. /\ view'[b].revision \in 0..revision
      /\ \A e \in view'[b].exclusion : e[2] \in DOMAIN catalog \cup retired
  <2>1. CASE view'[b] = view[b]
    BY <2>1 DEF BoardInv, BoardIsSound, ViewIsPast
  <2>2. CASE view'[b] = Empty
    BY <1>1, <2>2 DEF Empty
  <2>3. QED
    BY <2>1, <2>2
<1>3. view'[b].revision # revision'
  BY <1>1, <1>2
<1>4. ViewIsPast(b)'
  BY <1>1, <1>2 DEF ViewIsPast, catalogVars
<1>5. QED
  BY <1>3, <1>4 DEF BoardIsSound, LoadIsCurrent, WarningIsComplete, WarningIsAnEdit

\* A roster or catalog transaction leaves every board as right as it was.
LEMMA OtherTransactionSound ==
    ASSUME BoardInv, Next, RosterOperation \/ CatalogOperation, UNCHANGED boardVars
    PROVE  BoardInv'
<1>1. Consistent'
  BY RosterOperationConsistent, CatalogOperationConsistent DEF BoardInv
<1>2. BoardsAreShaped'
  BY DEF BoardInv, BoardsAreShaped, boardVars
<1> SUFFICES ASSUME NEW b \in Boards
             PROVE  BoardIsSound(b)'
  BY <1>1, <1>2 DEF BoardInv
<1>3. /\ UNCHANGED <<revision, placement, pinned, override>>
      /\ exclusion' = {e \in exclusion : e[2] \in DOMAIN catalog'}
  BY OtherTransactionsKeepTheDraft DEF BoardInv
<1>4. view' = view /\ warning' = warning
  BY DEF boardVars
<1>5. /\ DOMAIN catalog \subseteq DOMAIN catalog' \cup retired'
      /\ retired \subseteq retired'
      /\ DOMAIN catalog' \cap retired \subseteq DOMAIN catalog
  BY IdentitiesAreIssuedOnce
<1>6. ViewIsPast(b)'
  BY <1>3, <1>4, <1>5 DEF BoardInv, BoardIsSound, ViewIsPast
<1>7. ASSUME exclusion = {e \in view[b].exclusion : e[2] \in DOMAIN catalog}
      PROVE  exclusion' = {e \in view[b].exclusion : e[2] \in DOMAIN catalog'}
  BY <1>3, <1>5, <1>7 DEF BoardInv, BoardIsSound, ViewIsPast
<1>8. LoadIsCurrent(b)'
  BY <1>3, <1>4, <1>7 DEF BoardInv, BoardIsSound, LoadIsCurrent
<1>9. WarningIsComplete(b)'
  BY <1>3, <1>4 DEF BoardInv, BoardIsSound, WarningIsComplete
<1>10. WarningIsAnEdit(b)'
  BY <1>3, <1>4 DEF BoardInv, BoardIsSound, WarningIsAnEdit
<1>11. QED
  BY <1>6, <1>8, <1>9, <1>10 DEF BoardIsSound

--------------------------------------------------------------------------------
(* Steps of one board.                                                     *)

\* When one board moves and the draft does not, the others stay sound.
LEMMA OneBoardMoves ==
    ASSUME BoardInv, NEW b \in Boards, UNCHANGED vars, BoardsAreShaped',
           \A c \in Boards \ {b} : view'[c] = view[c] /\ warning'[c] = warning[c],
           BoardIsSound(b)'
    PROVE  BoardInv'
<1>1. UNCHANGED <<revision, placement, pinned, override, exclusion, catalog, retired>>
  BY DEF vars, draftVars, catalogVars
<1>2. Consistent'
  BY ConsistentStep DEF BoardInv
<1>3. \A c \in Boards \ {b} : BoardIsSound(c)'
  BY <1>1 DEF BoardInv, BoardIsSound, LoadIsCurrent, ViewIsPast, WarningIsComplete,
              WarningIsAnEdit
<1>4. QED
  BY <1>2, <1>3 DEF BoardInv

\* What the steps below use of an unchanged draft.
LEMMA DraftIsUnchanged ==
    ASSUME UNCHANGED vars
    PROVE  UNCHANGED <<revision, placement, pinned, override, exclusion, catalog, retired>>
BY DEF vars, draftVars, catalogVars

\* The first statement of a load takes the session's revision and nothing else.
LEMMA LoadSessionSound ==
    ASSUME BoardInv, NEW b \in Boards, LoadSession(b)
    PROVE  BoardInv'
<1>1. BoardsAreShaped /\ revision \in Nat
  BY DraftAssumption DEF BoardInv, Consistent, TypeOK, DraftAssumption
<1>2. /\ view'[b] = [Empty EXCEPT !.phase = "session", !.revision = revision]
      /\ DOMAIN view' = Boards /\ warning' = warning
      /\ \A c \in Boards \ {b} : view'[c] = view[c]
  BY <1>1 DEF LoadSession, BoardsAreShaped
<1>3. /\ DOMAIN view'[b] = ViewFields
      /\ view'[b].phase = "session" /\ view'[b].revision = revision
      /\ view'[b].exclusion = {}
  BY <1>2 DEF Empty, ViewFields
<1>4. BoardsAreShaped'
  BY <1>1, <1>2, <1>3 DEF BoardsAreShaped
<1>5. UNCHANGED <<revision, placement, pinned, override, exclusion, catalog, retired>>
  BY DraftIsUnchanged DEF LoadSession
<1>6. BoardIsSound(b)'
  BY <1>1, <1>3, <1>5 DEF BoardIsSound, LoadIsCurrent, ViewIsPast, WarningIsComplete, WarningIsAnEdit,
         ShowsAssignments, ShowsExclusions, ShowsOverrides
<1>7. QED
  BY <1>2, <1>4, <1>6, OneBoardMoves DEF LoadSession

\* The second statement reads placements and pins, whose revision is at least
\* the board's.
LEMMA LoadAssignmentsSound ==
    ASSUME BoardInv, NEW b \in Boards, LoadAssignments(b)
    PROVE  BoardInv'
<1>1. BoardsAreShaped /\ BoardIsSound(b)
  BY DEF BoardInv
<1>2. /\ view' = [view EXCEPT ![b].phase = "assignments",
                              ![b].placement = placement, ![b].pinned = pinned]
      /\ warning' = warning /\ UNCHANGED vars
  BY DEF LoadAssignments
<1>3. /\ DOMAIN view' = Boards
      /\ \A c \in Boards \ {b} : view'[c] = view[c]
      /\ DOMAIN view'[b] = ViewFields
      /\ view'[b].phase = "assignments"
      /\ view'[b].placement = placement /\ view'[b].pinned = pinned
      /\ view'[b].revision = view[b].revision /\ view'[b].exclusion = view[b].exclusion
  BY <1>1, <1>2 DEF BoardsAreShaped, ViewFields
<1>4. BoardsAreShaped'
  BY <1>1, <1>2, <1>3 DEF BoardsAreShaped
<1>5. UNCHANGED <<revision, placement, pinned, override, exclusion, catalog, retired>>
  BY <1>2, DraftIsUnchanged
<1>6. BoardIsSound(b)'
  BY <1>1, <1>3, <1>5 DEF BoardIsSound, LoadIsCurrent, ViewIsPast, WarningIsComplete, WarningIsAnEdit,
         ShowsAssignments, ShowsExclusions, ShowsOverrides
<1>7. QED
  BY <1>2, <1>3, <1>4, <1>6, OneBoardMoves

\* The third statement reads the exclusions.
LEMMA LoadExclusionsSound ==
    ASSUME BoardInv, NEW b \in Boards, LoadExclusions(b)
    PROVE  BoardInv'
<1>1. BoardsAreShaped /\ BoardIsSound(b)
  BY DEF BoardInv
<1>2. /\ view[b].phase = "assignments"
      /\ view' = [view EXCEPT ![b].phase = "exclusions", ![b].exclusion = exclusion]
      /\ warning' = warning /\ UNCHANGED vars
  BY DEF LoadExclusions
<1>3. /\ DOMAIN view' = Boards
      /\ \A c \in Boards \ {b} : view'[c] = view[c]
      /\ DOMAIN view'[b] = ViewFields
      /\ view'[b].phase = "exclusions" /\ view'[b].exclusion = exclusion
      /\ view'[b].revision = view[b].revision
      /\ view'[b].placement = view[b].placement /\ view'[b].pinned = view[b].pinned
  BY <1>1, <1>2 DEF BoardsAreShaped, ViewFields
<1>4. BoardsAreShaped'
  BY <1>1, <1>2, <1>3 DEF BoardsAreShaped
<1>5. UNCHANGED <<revision, placement, pinned, override, exclusion, catalog, retired>>
  BY <1>2, DraftIsUnchanged
<1>6. \A e \in exclusion : e[2] \in DOMAIN catalog
  BY DEF BoardInv, Consistent, DraftNamesListedOfferings
<1>7. BoardIsSound(b)'
  BY <1>1, <1>2, <1>3, <1>5, <1>6 DEF BoardIsSound, LoadIsCurrent, ViewIsPast,
         WarningIsComplete, WarningIsAnEdit, ShowsAssignments, ShowsExclusions, ShowsOverrides
<1>8. QED
  BY <1>2, <1>3, <1>4, <1>7, OneBoardMoves

\* The last statement reads the overrides and completes the board.
LEMMA LoadOverridesSound ==
    ASSUME BoardInv, NEW b \in Boards, LoadOverrides(b)
    PROVE  BoardInv'
<1>1. BoardsAreShaped /\ BoardIsSound(b)
  BY DEF BoardInv
<1>2. /\ view[b].phase = "exclusions"
      /\ view' = [view EXCEPT ![b].phase = "ready", ![b].override = override]
      /\ warning' = warning /\ UNCHANGED vars
  BY DEF LoadOverrides
<1>3. /\ DOMAIN view' = Boards
      /\ \A c \in Boards \ {b} : view'[c] = view[c]
      /\ DOMAIN view'[b] = ViewFields
      /\ view'[b].phase = "ready" /\ view'[b].override = override
      /\ view'[b].revision = view[b].revision /\ view'[b].exclusion = view[b].exclusion
      /\ view'[b].placement = view[b].placement /\ view'[b].pinned = view[b].pinned
  BY <1>1, <1>2 DEF BoardsAreShaped, ViewFields
<1>4. BoardsAreShaped'
  BY <1>1, <1>2, <1>3 DEF BoardsAreShaped
<1>5. UNCHANGED <<revision, placement, pinned, override, exclusion, catalog, retired>>
  BY <1>2, DraftIsUnchanged
<1>6. BoardIsSound(b)'
  BY <1>1, <1>2, <1>3, <1>5 DEF BoardIsSound, LoadIsCurrent, ViewIsPast,
         WarningIsComplete, WarningIsAnEdit, ShowsAssignments, ShowsExclusions, ShowsOverrides
<1>7. QED
  BY <1>2, <1>3, <1>4, <1>6, OneBoardMoves

\* Dismissing the dialog leaves the board as it was loaded.
LEMMA DismissWarningSound ==
    ASSUME BoardInv, NEW b \in Boards, DismissWarning(b)
    PROVE  BoardInv'
<1>1. BoardsAreShaped /\ BoardIsSound(b)
  BY DEF BoardInv
<1>2. /\ view[b].phase = "warned"
      /\ view' = [view EXCEPT ![b].phase = "ready"]
      /\ warning' = [warning EXCEPT ![b] = NoWarning] /\ UNCHANGED vars
  BY DEF DismissWarning
<1>3. /\ DOMAIN view' = Boards /\ DOMAIN warning' = Boards
      /\ \A c \in Boards \ {b} : view'[c] = view[c] /\ warning'[c] = warning[c]
      /\ DOMAIN view'[b] = ViewFields
      /\ view'[b].phase = "ready" /\ view'[b].override = view[b].override
      /\ view'[b].revision = view[b].revision /\ view'[b].exclusion = view[b].exclusion
      /\ view'[b].placement = view[b].placement /\ view'[b].pinned = view[b].pinned
      /\ warning'[b] = NoWarning
  BY <1>1, <1>2 DEF BoardsAreShaped, ViewFields
<1>4. BoardsAreShaped'
  <2>1. DOMAIN NoWarning = {"moves", "rules"} /\ NoWarning.moves \in [{} -> Offerings]
    BY DEF NoWarning
  <2>2. QED
    BY <1>1, <1>3, <2>1 DEF BoardsAreShaped
<1>5. UNCHANGED <<revision, placement, pinned, override, exclusion, catalog, retired>>
  BY <1>2, DraftIsUnchanged
<1>6. BoardIsSound(b)'
  BY <1>1, <1>2, <1>3, <1>5 DEF BoardIsSound, LoadIsCurrent, ViewIsPast,
         WarningIsComplete, WarningIsAnEdit, ShowsAssignments, ShowsExclusions, ShowsOverrides
<1>7. QED
  BY <1>2, <1>3, <1>4, <1>6, OneBoardMoves

\* A warning is given at the current revision, and names the exclusion of every
\* move that meets one.
LEMMA WarnedMoveSound ==
    ASSUME BoardInv, NEW b \in Boards, NEW M \in SUBSET Students,
           NEW moves \in [M -> Offerings], WarnedMove(b, moves),
           IsAnEdit(placement, moves)
    PROVE  BoardInv'
<1> DEFINE final == [s \in Students |-> IF s \in DOMAIN moves THEN moves[s] ELSE placement[s]]
           rules == [s \in DOMAIN moves |-> Broken(final, s)]
<1>1. BoardsAreShaped /\ BoardIsSound(b)
  BY DEF BoardInv
<1>2. /\ view[b].phase = "ready"
      /\ view' = [view EXCEPT ![b].phase = "warned"]
      /\ warning' = [warning EXCEPT ![b] = [moves |-> moves, rules |-> rules]]
      /\ UNCHANGED vars
  BY DEF WarnedMove
<1>3. \A s \in DOMAIN moves :
          <<s, moves[s]>> \in exclusion => "exclusion" \in rules[s]
  BY DEF Broken, Rules
<1> HIDE DEF final, rules
<1>4. /\ DOMAIN view' = Boards /\ DOMAIN warning' = Boards
      /\ \A c \in Boards \ {b} : view'[c] = view[c] /\ warning'[c] = warning[c]
      /\ DOMAIN view'[b] = ViewFields
      /\ view'[b].phase = "warned" /\ view'[b].override = view[b].override
      /\ view'[b].revision = view[b].revision /\ view'[b].exclusion = view[b].exclusion
      /\ view'[b].placement = view[b].placement /\ view'[b].pinned = view[b].pinned
      /\ DOMAIN warning'[b] = {"moves", "rules"}
      /\ warning'[b].moves = moves /\ warning'[b].rules = rules
  BY <1>1, <1>2 DEF BoardsAreShaped, ViewFields
<1>5. BoardsAreShaped'
  BY <1>1, <1>4 DEF BoardsAreShaped
<1>6. UNCHANGED <<revision, placement, pinned, override, exclusion, catalog, retired>>
  BY <1>2, DraftIsUnchanged
<1>7. LoadIsCurrent(b)' /\ ViewIsPast(b)'
  BY <1>1, <1>2, <1>4, <1>6 DEF BoardIsSound, LoadIsCurrent, ViewIsPast,
         ShowsAssignments, ShowsExclusions, ShowsOverrides
<1>8. WarningIsComplete(b)'
  BY <1>3, <1>4, <1>6 DEF WarningIsComplete
<1>9. WarningIsAnEdit(b)'
  BY <1>4, <1>6 DEF WarningIsAnEdit
<1>10. QED
  BY <1>2, <1>4, <1>5, <1>7, <1>8, <1>9, OneBoardMoves DEF BoardIsSound

\* Single moves and swaps are the moves a board is warned about.
LEMMA ReceiveWarningSound ==
    ASSUME BoardInv, NEW b \in Boards, ReceiveWarning(b)
    PROVE  BoardInv'
<1>1. ASSUME NEW s \in Students, NEW o \in Offerings, WarnedMove(b, [x \in {s} |-> o])
      PROVE  BoardInv'
  <2>1. [x \in {s} |-> o] \in [{s} -> Offerings] /\ {s} \in SUBSET Students
    OBVIOUS
  <2>2. IsAnEdit(placement, [x \in {s} |-> o])
    BY DEF IsAnEdit
  <2>3. QED
    BY <1>1, <2>1, <2>2, WarnedMoveSound
<1>2. ASSUME NEW s \in Placed(placement), NEW t \in Placed(placement), s # t,
             WarnedMove(b, [x \in {s, t} |-> IF x = s THEN placement[t] ELSE placement[s]])
      PROVE  BoardInv'
  <2> DEFINE moves == [x \in {s, t} |-> IF x = s THEN placement[t] ELSE placement[s]]
  <2>1. moves \in [{s, t} -> Offerings] /\ {s, t} \in SUBSET Students
    BY DEF BoardInv, Consistent, TypeOK, Placed
  <2>2. WarnedMove(b, moves)
    BY <1>2
  <2>3. IsAnEdit(placement, moves)
    BY <1>2 DEF IsAnEdit
  <2> HIDE DEF moves
  <2>4. QED
    BY <2>1, <2>2, <2>3, WarnedMoveSound
<1>3. QED
  BY <1>1, <1>2 DEF ReceiveWarning

\* A board that edits reloads, whatever it held.
LEMMA RefetchShape ==
    ASSUME BoardsAreShaped, NEW b \in Boards, Refetch(b)
    PROVE  /\ BoardsAreShaped'
           /\ \A c \in Boards : view'[c] = view[c] \/ view'[c] = Empty
           /\ \A c \in Boards \ {b} : view'[c] = view[c]
<1>1. /\ view' = [view EXCEPT ![b] = Empty] /\ warning' = [warning EXCEPT ![b] = NoWarning]
      /\ DOMAIN view = Boards /\ DOMAIN warning = Boards
  BY DEF Refetch, BoardsAreShaped
<1>2. /\ DOMAIN view' = Boards /\ DOMAIN warning' = Boards
      /\ view'[b] = Empty /\ warning'[b] = NoWarning
      /\ \A c \in Boards \ {b} : view'[c] = view[c] /\ warning'[c] = warning[c]
  BY <1>1
<1>3. /\ DOMAIN Empty = ViewFields /\ DOMAIN NoWarning = {"moves", "rules"}
      /\ NoWarning.moves \in [{} -> Offerings]
  BY DEF Empty, ViewFields, NoWarning
<1>4. QED
  BY <1>2, <1>3 DEF BoardsAreShaped

\* An edit from a board is an edit of the draft at the revision it loaded.
LEMMA SaveEditSound ==
    ASSUME BoardInv, NEW b \in Boards, SaveEdit(b)
    PROVE  BoardInv'
<1>1. \/ PlacementEdit(view[b].revision, FALSE)
      \/ OtherEdit(view[b].revision)
  BY DEF SaveEdit
<1>2. Consistent'
  BY <1>1, PlacementEditConsistent, OtherEditConsistent DEF BoardInv
<1>3. revision' = revision + 1 /\ UNCHANGED catalogVars
  <2>1. ManualOperation(view[b].revision)
    BY <1>1 DEF ManualOperation
  <2>2. QED
    BY <2>1, ManualOperationsAreNumbered
<1>4. BoardsAreShaped' /\ \A c \in Boards : view'[c] = view[c] \/ view'[c] = Empty
  BY RefetchShape DEF BoardInv, SaveEdit
<1>5. QED
  BY <1>2, <1>3, <1>4, NumberedEditSound

\* So is a confirmed move.
LEMMA ConfirmOverrideSound ==
    ASSUME BoardInv, NEW b \in Boards, ConfirmOverride(b)
    PROVE  BoardInv'
<1>1. PICK M \in SUBSET Students : warning[b].moves \in [M -> Offerings]
  BY DEF BoardInv, BoardsAreShaped
<1>2. ChangeAssignments(view[b].revision, TRUE, warning[b].moves) /\ Refetch(b)
  BY DEF ConfirmOverride
<1>3. Consistent'
  BY <1>1, <1>2, ChangeAssignmentsConsistent DEF BoardInv
<1>4. revision' = revision + 1 /\ UNCHANGED catalogVars
  BY <1>2 DEF ChangeAssignments, AdvanceDraftRevision
<1>5. BoardsAreShaped' /\ \A c \in Boards : view'[c] = view[c] \/ view'[c] = Empty
  BY <1>2, RefetchShape DEF BoardInv
<1>6. QED
  BY <1>3, <1>4, <1>5, NumberedEditSound

\* Edits of any other caller make the boards stale or leave them right.
LEMMA OtherCallerSound ==
    ASSUME BoardInv, Next, UNCHANGED boardVars
    PROVE  BoardInv'
<1>1. CASE RosterOperation \/ CatalogOperation
  BY <1>1, OtherTransactionSound
<1>2. ASSUME NEW expected \in 0..MaxRevision, ManualOperation(expected)
      PROVE  BoardInv'
  <2>1. revision' = revision + 1 /\ UNCHANGED catalogVars
    BY <1>2, ManualOperationsAreNumbered
  <2>2. Consistent'
    BY ConsistentStep DEF BoardInv
  <2>3. BoardsAreShaped' /\ \A c \in Boards : view'[c] = view[c]
    BY DEF BoardInv, BoardsAreShaped, boardVars
  <2>4. QED
    BY <2>1, <2>2, <2>3, NumberedEditSound
<1>3. QED
  BY <1>1, <1>2 DEF Next

\* Nothing happens.
LEMMA BoardStutter ==
    ASSUME BoardInv, UNCHANGED allVars
    PROVE  BoardInv'
<1>1. /\ UNCHANGED vars /\ view' = view /\ warning' = warning
      /\ UNCHANGED <<revision, placement, pinned, override, exclusion, catalog, retired>>
  BY DraftIsUnchanged DEF allVars, boardVars
<1>2. Consistent' /\ BoardsAreShaped'
  BY <1>1, ConsistentStep DEF BoardInv, BoardsAreShaped
<1>3. \A b \in Boards : BoardIsSound(b)'
  BY <1>1 DEF BoardInv, BoardIsSound, LoadIsCurrent, ViewIsPast, WarningIsComplete,
              WarningIsAnEdit
<1>4. QED
  BY <1>2, <1>3 DEF BoardInv

--------------------------------------------------------------------------------
(* What holds of boards.                                                   *)

\* Every step of a board or of another caller preserves the invariant.
LEMMA BoardInvStep == BoardInv /\ [BoardNext]_allVars => BoardInv'
<1> SUFFICES ASSUME BoardInv, [BoardNext]_allVars
             PROVE  BoardInv'
  OBVIOUS
<1>1. ASSUME NEW b \in Boards, BoardStep(b)
      PROVE  BoardInv'
  BY <1>1, LoadSessionSound, LoadAssignmentsSound, LoadExclusionsSound, LoadOverridesSound,
     SaveEditSound, ReceiveWarningSound, ConfirmOverrideSound, DismissWarningSound DEF BoardStep
<1>2. QED
  BY <1>1, OtherCallerSound, BoardStutter DEF BoardNext

\* Boards start empty.
LEMMA BoardInvInit == BoardInit => BoardInv
<1> SUFFICES ASSUME BoardInit
             PROVE  BoardInv
  OBVIOUS
<1>1. Consistent
  BY InitConsistent DEF BoardInit
<1>2. /\ DOMAIN Empty = ViewFields /\ DOMAIN NoWarning = {"moves", "rules"}
      /\ NoWarning.moves \in [{} -> Offerings] /\ {} \in SUBSET Students
      /\ Empty.phase = "closed" /\ Empty.revision = 0 /\ Empty.exclusion = {}
  BY DEF Empty, ViewFields, NoWarning
<1>3. BoardsAreShaped
  BY <1>2 DEF BoardInit, BoardsAreShaped
<1>4. \A b \in Boards : BoardIsSound(b)
  BY <1>2 DEF BoardInit, Init, BoardIsSound, LoadIsCurrent, ViewIsPast, WarningIsComplete,
         WarningIsAnEdit, ShowsAssignments, ShowsExclusions, ShowsOverrides
<1>5. QED
  BY <1>1, <1>3, <1>4 DEF BoardInv

\* However many boards load and edit one session's draft, each of them knows the
\* draft as of its revision, whichever edits came between its statements.
THEOREM BoardsAreSound == BoardSpec => []BoardInv
BY BoardInvInit, BoardInvStep, PTL DEF BoardSpec

\* A load torn by an edit is harmless: if the revision it read first is still the
\* session's, all it read since is the draft (GetAssignmentWorkspace).
THEOREM CurrentBoardsShowTheDraft == BoardSpec => []CurrentRevisionShowsTheDraft
<1>1. BoardInv => CurrentRevisionShowsTheDraft
  BY DEF BoardInv, BoardIsSound, LoadIsCurrent, CurrentRevisionShowsTheDraft,
         ShowsAssignments, ShowsExclusions, ShowsOverrides
<1>2. QED
  BY <1>1, BoardsAreSound, PTL

\* Only a confirmation takes a warned board back to an empty one.
LEMMA ClosedByConfirmation ==
    ASSUME BoardInv, [BoardNext]_allVars, NEW b \in Boards,
           view[b].phase = "warned", view'[b].phase = "closed"
    PROVE  ConfirmOverride(b)
<1>1. BoardsAreShaped
  BY DEF BoardInv
<1>2. view' # view
  OBVIOUS
<1>3. PICK c \in Boards : BoardStep(c)
  BY <1>2 DEF BoardNext, allVars, boardVars
<1>4. c = b
  <2> SUFFICES ASSUME c # b
               PROVE  view'[b] = view[b]
    OBVIOUS
  <2>1. CASE SaveEdit(c) \/ ConfirmOverride(c)
    BY <1>1, <2>1 DEF BoardsAreShaped, SaveEdit, ConfirmOverride, Refetch
  <2>2. CASE ReceiveWarning(c)
    BY <1>1, <2>2 DEF BoardsAreShaped, ReceiveWarning, WarnedMove
  <2>3. CASE DismissWarning(c)
    BY <1>1, <2>3 DEF BoardsAreShaped, DismissWarning
  <2>4. CASE LoadSession(c) \/ LoadAssignments(c) \/ LoadExclusions(c) \/ LoadOverrides(c)
    BY <1>1, <2>4 DEF BoardsAreShaped, LoadSession, LoadAssignments, LoadExclusions, LoadOverrides
  <2>5. QED
    BY <1>3, <2>1, <2>2, <2>3, <2>4 DEF BoardStep
<1>5. ASSUME DismissWarning(b)
      PROVE  view'[b].phase = "ready"
  BY <1>1, <1>5 DEF BoardsAreShaped, ViewFields, DismissWarning
<1>6. /\ ~LoadSession(b) /\ ~LoadAssignments(b) /\ ~LoadExclusions(b) /\ ~LoadOverrides(b)
      /\ ~SaveEdit(b) /\ ~ReceiveWarning(b)
  BY DEF LoadSession, LoadAssignments, LoadExclusions, LoadOverrides, SaveEdit,
         ReceiveWarning, WarnedMove
<1>7. QED
  BY <1>3, <1>4, <1>5, <1>6 DEF BoardStep

\* No accepted confirmation overrides an exclusion its warning did not name:
\* adding an exclusion takes a revision, so the warned board would be stale.
THEOREM ConfirmationsWereShown == BoardSpec => ConfirmedExclusionsWereShown
<1> DEFINE Shown(b) ==
        view[b].phase = "warned" /\ view'[b].phase = "closed" =>
            \A s \in DOMAIN warning[b].moves :
                "exclusion" \in Broken(placement, s)' =>
                    "exclusion" \in warning[b].rules[s]
<1>1. ASSUME BoardInv, [BoardNext]_allVars, NEW b \in Boards
      PROVE  Shown(b)
  <2> SUFFICES ASSUME view[b].phase = "warned", view'[b].phase = "closed",
                      NEW s \in DOMAIN warning[b].moves, "exclusion" \in Broken(placement, s)'
               PROVE  "exclusion" \in warning[b].rules[s]
    OBVIOUS
  <2>1. ChangeAssignments(view[b].revision, TRUE, warning[b].moves)
    BY <1>1, ClosedByConfirmation DEF ConfirmOverride
  <2>2. s \in Students
    BY <1>1 DEF BoardInv, BoardsAreShaped
  <2>3. /\ view[b].revision = revision /\ exclusion' = exclusion
        /\ placement'[s] = warning[b].moves[s]
    BY <2>1, <2>2 DEF ChangeAssignments, AdvanceDraftRevision, ReplaceDraft
  <2>4. <<s, warning[b].moves[s]>> \in exclusion
    BY <2>3 DEF Broken
  <2>5. QED
    BY <1>1, <2>3, <2>4 DEF BoardInv, BoardIsSound, WarningIsComplete
<1>2. BoardInv /\ [BoardNext]_allVars => [\A b \in Boards : Shown(b)]_allVars
  BY <1>1
<1>3. QED
  BY <1>2, BoardsAreSound, PTL DEF BoardSpec, ConfirmedExclusionsWereShown

--------------------------------------------------------------------------------
(* Boards edit the draft and nothing else: they implement AssignmentDraft. *)

\* A confirmation sends the move or swap it was warned about, at the revision of
\* the warning, so it is an edit of the draft like any other.
LEMMA ConfirmationIsAnEdit ==
    ASSUME BoardInv, NEW b \in Boards, ConfirmOverride(b)
    PROVE  PlacementEdit(view[b].revision, TRUE)
<1>1. ChangeAssignments(view[b].revision, TRUE, warning[b].moves)
  BY DEF ConfirmOverride
<1>2. IsAnEdit(placement, warning[b].moves)
  BY <1>1 DEF ConfirmOverride, BoardInv, BoardIsSound, WarningIsAnEdit, ChangeAssignments,
              AdvanceDraftRevision
<1>3. ASSUME NEW s \in Students, NEW o \in Offerings, warning[b].moves = [x \in {s} |-> o]
      PROVE  PlacementEdit(view[b].revision, TRUE)
  BY <1>1, <1>3 DEF PlacementEdit, MoveAssignment
<1>4. ASSUME NEW s \in Placed(placement), NEW t \in Placed(placement), s # t,
             warning[b].moves = [x \in {s, t} |-> IF x = s THEN placement[t] ELSE placement[s]]
      PROVE  PlacementEdit(view[b].revision, TRUE)
  <2>1. SwapAssignments(view[b].revision, TRUE, s, t)
    BY <1>1, <1>4 DEF SwapAssignments
  <2>2. s \in Students /\ t \in Students
    BY DEF Placed
  <2>3. QED
    BY <2>1, <2>2 DEF PlacementEdit
<1>5. QED
  BY <1>2, <1>3, <1>4 DEF IsAnEdit

\* Whatever a board does is an edit of the draft or leaves it alone.
LEMMA BoardStepEditsTheDraft ==
    ASSUME BoardInv, [BoardNext]_allVars
    PROVE  [Next]_vars
<1>1. revision \in 0..MaxRevision
  BY DEF BoardInv, Consistent, TypeOK
<1>2. ASSUME NEW b \in Boards, ManualOperation(view[b].revision)
      PROVE  Next
  BY <1>1, <1>2, ManualOperationsAreNumbered DEF Next
<1>3. ASSUME NEW b \in Boards, BoardStep(b)
      PROVE  [Next]_vars
  <2>1. CASE SaveEdit(b)
    BY <1>2, <2>1 DEF SaveEdit, ManualOperation
  <2>2. CASE ConfirmOverride(b)
    BY <1>2, <2>2, ConfirmationIsAnEdit DEF ManualOperation
  <2>3. CASE UNCHANGED vars
    BY <2>3
  <2>4. QED
    BY <1>3, <2>1, <2>2, <2>3 DEF BoardStep, LoadSession, LoadAssignments, LoadExclusions,
           LoadOverrides, ReceiveWarning, WarnedMove, DismissWarning
<1>4. QED
  BY <1>3 DEF BoardNext, allVars

\* Organizers at boards, warned or not, do to the draft only what the operations
\* of the draft allow: the boards implement AssignmentDraft.
THEOREM BoardsImplementTheDraft == BoardSpec => Spec
<1>1. BoardInit => Init
  BY DEF BoardInit
<1>2. BoardInv /\ [BoardNext]_allVars => [Next]_vars
  BY BoardStepEditsTheDraft
<1>3. QED
  BY <1>1, <1>2, BoardsAreSound, PTL DEF BoardSpec, Spec

\* With any number of boards the overrides saved with a new placement are those
\* of the rules it breaks, no matter which warning the organizer confirmed.
THEOREM BoardPlacementsAccounted == BoardSpec => NewPlacementsAreAccountedFor
BY BoardsImplementTheDraft, NewPlacementsAccounted, PTL

--------------------------------------------------------------------------------
(* The shape of what a board holds.  The override rows it shows are bounded *)
(* by the revision because those of the draft are (OverridesAreCounted).    *)

Drafted == [Students -> Offerings \cup {Unplaced}]
Overridden == [Students -> [Rules -> 0..MaxRevision]]

BoardView == [phase : Phases, revision : 0..MaxRevision, placement : Drafted,
              pinned : SUBSET Students, override : Overridden,
              exclusion : SUBSET (Students \X Offerings)]

\* What one board holds is of its shape.
BoardIsTyped(b) ==
    view[b] \in BoardView /\ (warning[b] # NoWarning) = (view[b].phase = "warned")

BoardsAreTyped ==
    view \in [Boards -> BoardView] /\ \A b \in Boards : BoardIsTyped(b)

\* What a board reads of a draft is of the board's shape.
LEMMA DraftFitsABoard ==
    ASSUME Consistent, OverridesWithinRevision
    PROVE  /\ revision \in 0..MaxRevision /\ placement \in Drafted
           /\ pinned \in SUBSET Students /\ override \in Overridden
           /\ exclusion \in SUBSET (Students \X Offerings)
<1>1. TypeOK /\ MaxRevision \in Nat
  BY DraftAssumption DEF Consistent, DraftAssumption
<1>2. ASSUME NEW s \in Students
      PROVE  override[s] \in [Rules -> 0..MaxRevision]
  <2>1. override[s] \in [Rules -> Nat] /\ revision \in 0..MaxRevision
    BY <1>1 DEF TypeOK
  <2>2. \A r \in Rules : override[s][r] \in 0..MaxRevision
    BY <1>1, <2>1 DEF OverridesWithinRevision
  <2>3. QED
    BY <2>1, <2>2
<1>3. DOMAIN override = Students /\ override = [s \in Students |-> override[s]]
  BY <1>1 DEF TypeOK
<1>4. override \in Overridden
  BY <1>2, <1>3 DEF Overridden
<1>5. QED
  BY <1>1, <1>4 DEF TypeOK, Drafted

\* An unloaded board is of its shape and has no warning.
LEMMA EmptyIsABoard == Empty \in BoardView /\ Empty.phase = "closed"
<1>1. MaxRevision \in Nat
  BY DraftAssumption DEF DraftAssumption
<1>2. [s \in Students |-> Unplaced] \in Drafted
  BY DEF Drafted
<1>3. [s \in Students |-> NoOverrides] \in Overridden
  BY <1>1 DEF Overridden, NoOverrides
<1>4. QED
  BY <1>1, <1>2, <1>3 DEF Empty, BoardView, Phases

\* When one board moves, the rest of the boards keep their shape.
LEMMA OneBoardKeepsShape ==
    ASSUME BoardsAreTyped, NEW b \in Boards, NEW v \in BoardView,
           view' = [view EXCEPT ![b] = v],
           \A c \in Boards \ {b} : warning'[c] = warning[c],
           (warning'[b] # NoWarning) = (v.phase = "warned")
    PROVE  BoardsAreTyped'
<1>1. view' \in [Boards -> BoardView] /\ view'[b] = v
  BY DEF BoardsAreTyped
<1>2. \A c \in Boards \ {b} : view'[c] = view[c]
  BY DEF BoardsAreTyped
<1>3. \A c \in Boards : BoardIsTyped(c)'
  BY <1>1, <1>2 DEF BoardsAreTyped, BoardIsTyped
<1>4. QED
  BY <1>1, <1>3 DEF BoardsAreTyped

\* The four statements of a load fill the board's fields.
LEMMA LoadKeepsShape ==
    ASSUME BoardsAreTyped, Consistent, OverridesWithinRevision, NEW b \in Boards,
           \/ LoadSession(b) \/ LoadAssignments(b) \/ LoadExclusions(b) \/ LoadOverrides(b)
    PROVE  BoardsAreTyped'
<1>1. /\ view[b] \in BoardView /\ view \in [Boards -> BoardView]
      /\ (warning[b] # NoWarning) = (view[b].phase = "warned")
  BY DEF BoardsAreTyped, BoardIsTyped
<1>2. warning' = warning
  BY DEF LoadSession, LoadAssignments, LoadExclusions, LoadOverrides
<1>3. ASSUME NEW v \in BoardView, view' = [view EXCEPT ![b] = v],
             v.phase # "warned", view[b].phase # "warned"
      PROVE  BoardsAreTyped'
  BY <1>1, <1>2, <1>3, OneBoardKeepsShape
<1>4. CASE LoadSession(b)
  <2>1. [Empty EXCEPT !.phase = "session", !.revision = revision] \in BoardView
    BY DraftFitsABoard, EmptyIsABoard DEF BoardView, Phases
  <2>2. [Empty EXCEPT !.phase = "session", !.revision = revision].phase = "session"
    BY EmptyIsABoard DEF BoardView
  <2>3. QED
    BY <1>3, <1>4, <2>1, <2>2 DEF LoadSession
<1>5. CASE LoadAssignments(b)
  <2> DEFINE v == [view[b] EXCEPT !.phase = "assignments",
                                  !.placement = placement, !.pinned = pinned]
  <2>1. v \in BoardView /\ v.phase = "assignments"
    BY <1>1, DraftFitsABoard DEF BoardView, Phases
  <2>2. view' = [view EXCEPT ![b] = v]
    BY <1>1, <1>5 DEF LoadAssignments
  <2>3. QED
    BY <1>3, <1>5, <2>1, <2>2 DEF LoadAssignments
<1>6. CASE LoadExclusions(b)
  <2> DEFINE v == [view[b] EXCEPT !.phase = "exclusions", !.exclusion = exclusion]
  <2>1. v \in BoardView /\ v.phase = "exclusions"
    BY <1>1, DraftFitsABoard DEF BoardView, Phases
  <2>2. view' = [view EXCEPT ![b] = v]
    BY <1>1, <1>6 DEF LoadExclusions
  <2>3. QED
    BY <1>3, <1>6, <2>1, <2>2 DEF LoadExclusions
<1>7. CASE LoadOverrides(b)
  <2> DEFINE v == [view[b] EXCEPT !.phase = "ready", !.override = override]
  <2>1. v \in BoardView /\ v.phase = "ready"
    BY <1>1, DraftFitsABoard DEF BoardView, Phases
  <2>2. view' = [view EXCEPT ![b] = v]
    BY <1>1, <1>7 DEF LoadOverrides
  <2>3. QED
    BY <1>3, <1>7, <2>1, <2>2 DEF LoadOverrides
<1>8. QED
  BY <1>4, <1>5, <1>6, <1>7

\* A board that edits starts afresh, with no warning.
LEMMA RefetchKeepsShape ==
    ASSUME BoardsAreTyped, BoardsAreShaped, NEW b \in Boards, Refetch(b)
    PROVE  BoardsAreTyped'
<1>1. DOMAIN warning = Boards
  BY DEF BoardsAreShaped
<1>2. warning'[b] = NoWarning /\ \A c \in Boards \ {b} : warning'[c] = warning[c]
  BY <1>1 DEF Refetch
<1>3. QED
  BY <1>2, EmptyIsABoard, OneBoardKeepsShape DEF Refetch

\* A warning is about an edit that moves somebody, and is no empty one.
LEMMA WarningKeepsShape ==
    ASSUME BoardsAreTyped, BoardsAreShaped, NEW b \in Boards, NEW moves, WarnedMove(b, moves)
    PROVE  BoardsAreTyped'
<1>1. /\ view[b] \in BoardView /\ view \in [Boards -> BoardView] /\ DOMAIN warning = Boards
  BY DEF BoardsAreTyped, BoardIsTyped, BoardsAreShaped
<1>2. PICK rules : /\ DOMAIN moves # {}
                   /\ view' = [view EXCEPT ![b].phase = "warned"]
                   /\ warning' = [warning EXCEPT ![b] = [moves |-> moves, rules |-> rules]]
  BY DEF WarnedMove
<1> DEFINE v == [view[b] EXCEPT !.phase = "warned"]
<1>3. v \in BoardView /\ v.phase = "warned" /\ view' = [view EXCEPT ![b] = v]
  BY <1>1, <1>2 DEF BoardView, Phases
<1>4. /\ warning'[b].moves = moves
      /\ \A c \in Boards \ {b} : warning'[c] = warning[c]
  BY <1>1, <1>2
<1>5. DOMAIN NoWarning.moves = {}
  BY DEF NoWarning
<1>6. warning'[b] # NoWarning
  BY <1>2, <1>4, <1>5
<1>7. QED
  BY <1>3, <1>4, <1>6, OneBoardKeepsShape

\* A warning that is dismissed leaves a loaded board without one.
LEMMA DismissKeepsShape ==
    ASSUME BoardsAreTyped, BoardsAreShaped, NEW b \in Boards, DismissWarning(b)
    PROVE  BoardsAreTyped'
<1>1. /\ view[b] \in BoardView /\ view \in [Boards -> BoardView] /\ DOMAIN warning = Boards
  BY DEF BoardsAreTyped, BoardIsTyped, BoardsAreShaped
<1> DEFINE v == [view[b] EXCEPT !.phase = "ready"]
<1>2. v \in BoardView /\ v.phase = "ready" /\ view' = [view EXCEPT ![b] = v]
  BY <1>1 DEF DismissWarning, BoardView, Phases
<1>3. warning'[b] = NoWarning /\ \A c \in Boards \ {b} : warning'[c] = warning[c]
  BY <1>1 DEF DismissWarning
<1>4. QED
  BY <1>2, <1>3, OneBoardKeepsShape

\* Every step keeps what the boards hold of its shape.
LEMMA BoardsTypedStep ==
    ASSUME BoardsAreTyped, BoardInv, OverridesWithinRevision, [BoardNext]_allVars
    PROVE  BoardsAreTyped'
<1>1. Consistent /\ BoardsAreShaped
  BY DEF BoardInv
<1>2. ASSUME NEW b \in Boards, BoardStep(b)
      PROVE  BoardsAreTyped'
  <2>1. CASE SaveEdit(b) \/ ConfirmOverride(b)
    BY <1>1, <2>1, RefetchKeepsShape DEF SaveEdit, ConfirmOverride
  <2>2. CASE ReceiveWarning(b)
    BY <1>1, <2>2, WarningKeepsShape DEF ReceiveWarning
  <2>3. QED
    BY <1>1, <1>2, <2>1, <2>2, LoadKeepsShape, DismissKeepsShape DEF BoardStep
<1>3. CASE UNCHANGED boardVars
  BY <1>3 DEF boardVars, BoardsAreTyped, BoardIsTyped
<1>4. QED
  BY <1>2, <1>3 DEF BoardNext, allVars

\* Boards start unloaded.
LEMMA BoardsTypedInit == BoardInit => BoardsAreTyped
BY EmptyIsABoard DEF BoardInit, BoardsAreTyped, BoardIsTyped

\* What a board holds is of its shape in every reachable state: it has a warning
\* exactly while one is shown (AssignmentBoardPage's pending override), and no more
\* override rows than the draft has had edits.
THEOREM BoardsTypeCorrect == BoardSpec => []BoardTypeOK
<1>1. BoardsAreTyped => BoardTypeOK
  BY DEF BoardsAreTyped, BoardIsTyped, BoardView, BoardTypeOK, Drafted, Overridden
<1>2. BoardSpec => []OverridesWithinRevision
  BY BoardsImplementTheDraft, OverridesAreCounted, PTL
<1>3. BoardsAreTyped /\ BoardInv /\ OverridesWithinRevision /\ [BoardNext]_allVars
          => BoardsAreTyped'
  BY BoardsTypedStep
<1>4. QED
  BY <1>1, <1>2, <1>3, BoardsTypedInit, BoardsAreSound, PTL DEF BoardSpec
================================================================================
