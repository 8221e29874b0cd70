------------------------------ MODULE AtomicSolve ------------------------------
(***************************************************************************)
(* What a solve run promises the people editing the draft: it is as if the *)
(* run had read the whole draft in one instant, and its answer either      *)
(* replaces that very draft, changing nothing about the pinned placements, *)
(* or leaves the draft alone.                                              *)
(***************************************************************************)
CONSTANTS Students, Offerings, Unplaced, Solves, Rules, Counts

VARIABLES
    placement, pinned, override,    \* the draft
    basis                           \* how the draft a run has read relates to it

atomicVars == <<placement, pinned, override, basis>>

Draft ==
    /\ placement \in [Students -> Offerings \cup {Unplaced}]
    /\ pinned \in SUBSET Students
    /\ override \in [Students -> [Rules -> Counts]]

Outdated == [k \in Solves |-> IF basis[k] = "current" THEN "stale" ELSE basis[k]]

AtomicInit == Draft /\ basis = [k \in Solves |-> "none"]

\* A run that is overtaken while it reads has missed the current draft.
Read(k) ==
    /\ basis[k] = "none"
    /\ \E b \in {"current", "stale"} : basis' = [basis EXCEPT ![k] = b]
    /\ UNCHANGED <<placement, pinned, override>>

Apply(k) ==
    /\ basis[k] = "current"
    /\ placement' \in [Students -> Offerings \cup {Unplaced}]
    /\ \A s \in pinned : placement'[s] = placement[s]
    /\ UNCHANGED <<pinned, override>>
    /\ basis' = [Outdated EXCEPT ![k] = "none"]

Discard(k) ==
    /\ basis[k] # "none"
    /\ basis' = [basis EXCEPT ![k] = "none"]
    /\ UNCHANGED <<placement, pinned, override>>

\* People edit as they like; no run that has read the draft before may apply.
Edit ==
    /\ Draft'
    /\ basis' = Outdated

AtomicNext == Edit \/ \E k \in Solves : Read(k) \/ Apply(k) \/ Discard(k)

AtomicSpec == AtomicInit /\ [][AtomicNext]_atomicVars

================================================================================
