---------------------------- MODULE AssignmentBoard ----------------------------
(***************************************************************************)
(* Organizers at the assignment board.  A board loads the workspace of a   *)
(* session with one read transaction of several statements, each of which  *)
(* sees what was committed when it ran (READ COMMITTED), and sends every   *)
(* edit with the draft revision it loaded.  An edit that breaks a hard     *)
(* rule comes back as a warning; the organizer resubmits it confirmed,     *)
(* with the same revision.                                                 *)
(*                                                                         *)
(* Besides the boards in Boards, any other caller may edit the draft, the  *)
(* roster and the catalog at any time.                                     *)
(***************************************************************************)
EXTENDS AssignmentDraft

CONSTANTS Boards

VARIABLES
    view,      \* what each board has loaded, and how far the load has come
    warning    \* the edit each board was warned about: its moves and the rules named

boardVars == <<view, warning>>
allVars == <<vars, boardVars>>

Phases == {"closed", "session", "assignments", "exclusions", "ready", "warned"}

Empty == [phase |-> "closed", revision |-> 0,
          placement |-> [s \in Students |-> Unplaced], pinned |-> {},
          override |-> [s \in Students |-> NoOverrides], exclusion |-> {}]

NoWarning == [moves |-> [s \in {} |-> Unplaced], rules |-> [s \in {} |-> {}]]

--------------------------------------------------------------------------------
(* GetAssignmentWorkspace reads the session row first, the draft after it. *)

LoadSession(b) ==
    /\ view[b].phase \in {"closed", "ready"}
    /\ view' = [view EXCEPT ![b] = [Empty EXCEPT !.phase = "session", !.revision = revision]]
    /\ UNCHANGED <<warning, vars>>

LoadAssignments(b) ==
    /\ view[b].phase = "session"
    /\ view' = [view EXCEPT ![b].phase = "assignments",
                            ![b].placement = placement, ![b].pinned = pinned]
    /\ UNCHANGED <<warning, vars>>

\* Mutant of LoadExclusions: the revision is taken from a later statement.
LoadRevisionLate(b) ==
    /\ view[b].phase = "assignments"
    /\ view' = [view EXCEPT ![b].phase = "exclusions", ![b].exclusion = exclusion,
                            ![b].revision = revision]
    /\ UNCHANGED <<warning, vars>>

LoadExclusions(b) ==
    /\ view[b].phase = "assignments"
    /\ view' = [view EXCEPT ![b].phase = "exclusions", ![b].exclusion = exclusion]
    /\ UNCHANGED <<warning, vars>>

\* Override rows are shown on the placement they belong to.
LoadOverrides(b) ==
    /\ view[b].phase = "exclusions"
    /\ view' = [view EXCEPT ![b].phase = "ready", ![b].override = override]
    /\ UNCHANGED <<warning, vars>>

Refetch(b) == view' = [view EXCEPT ![b] = Empty] /\ warning' = [warning EXCEPT ![b] = NoWarning]

SaveEdit(b) ==
    /\ view[b].phase = "ready"
    /\ PlacementEdit(view[b].revision, FALSE) \/ OtherEdit(view[b].revision)
    /\ Refetch(b)

\* A refused edit names the rules its final state breaks (HardRuleViolation).
WarnedMove(b, moves) ==
    LET final == [s \in Students |-> IF s \in DOMAIN moves THEN moves[s] ELSE placement[s]]
        rules == [s \in DOMAIN moves |-> Broken(final, s)]
    IN  /\ view[b].phase = "ready"
        /\ view[b].revision = revision
        /\ DOMAIN moves \subseteq member \ absent
        /\ \A s \in DOMAIN moves : moves[s] \in DOMAIN catalog
        /\ \E s \in DOMAIN moves : rules[s] # {}
        /\ view' = [view EXCEPT ![b].phase = "warned"]
        /\ warning' = [warning EXCEPT ![b] = [moves |-> moves, rules |-> rules]]
        /\ UNCHANGED vars

ReceiveWarning(b) ==
    \/ \E s \in Students, o \in Offerings : WarnedMove(b, [x \in {s} |-> o])
    \/ \E s, t \in Placed(placement) :
           /\ s # t
           /\ WarnedMove(b, [x \in {s, t} |-> IF x = s THEN placement[t] ELSE placement[s]])

ConfirmOverride(b) ==
    /\ view[b].phase = "warned"
    /\ ChangeAssignments(view[b].revision, TRUE, warning[b].moves)
    /\ Refetch(b)

\* Mutant of DismissWarning: the dialog closes and the override stays armed.
DismissDialogOnly(b) ==
    /\ view[b].phase = "warned"
    /\ view' = [view EXCEPT ![b].phase = "ready"]
    /\ UNCHANGED <<warning, vars>>

DismissWarning(b) ==
    /\ view[b].phase = "warned"
    /\ view' = [view EXCEPT ![b].phase = "ready"]
    /\ warning' = [warning EXCEPT ![b] = NoWarning]
    /\ UNCHANGED vars

--------------------------------------------------------------------------------
BoardInit ==
    /\ Init
    /\ view = [b \in Boards |-> Empty]
    /\ warning = [b \in Boards |-> NoWarning]

BoardStep(b) ==
    \/ LoadSession(b)
    \/ LoadAssignments(b)
    \/ LoadExclusions(b)
    \/ LoadOverrides(b)
    \/ SaveEdit(b)
    \/ ReceiveWarning(b)
    \/ ConfirmOverride(b)
    \/ DismissWarning(b)

BoardNext ==
    \/ \E b \in Boards : BoardStep(b)
    \/ Next /\ UNCHANGED boardVars

BoardSpec == BoardInit /\ [][BoardNext]_allVars

--------------------------------------------------------------------------------
(* Properties.                                                             *)

\* The shape of what a board holds.
BoardTypeOK ==
    /\ view \in [Boards -> [phase : Phases, revision : 0..MaxRevision,
                            placement : [Students -> Offerings \cup {Unplaced}],
                            pinned : SUBSET Students,
                            override : [Students -> [Rules -> 0..MaxRevision]],
                            exclusion : SUBSET (Students \X Offerings)]]
    /\ \A b \in Boards : (warning[b] # NoWarning) = (view[b].phase = "warned")

\* A load torn by an edit is harmless: a board whose revision number is still
\* the session's shows the session's draft, whatever was committed between the
\* statements of its load.  It rests on the revision being read first and on
\* every edit of placements, pins, overrides and exclusions advancing it.
CurrentRevisionShowsTheDraft ==
    \A b \in Boards :
        view[b].phase \in {"ready", "warned"} /\ view[b].revision = revision =>
            /\ view[b].placement = placement
            /\ view[b].pinned = pinned
            /\ view[b].override = override
            /\ exclusion = {e \in view[b].exclusion : e[2] \in DOMAIN catalog}

\* An exclusion is never overridden unseen: when board b's confirmation is
\* accepted, every placement it saves against an exclusion was named so in the
\* warning, because adding an exclusion advances the revision.
ConfirmedExclusionsWereShown ==
    [][\A b \in Boards :
          view[b].phase = "warned" /\ view'[b].phase = "closed" =>
              \A s \in DOMAIN warning[b].moves :
                  "exclusion" \in Broken(placement, s)' =>
                      "exclusion" \in warning[b].rules[s]]_allVars

================================================================================
