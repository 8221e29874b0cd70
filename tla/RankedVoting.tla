------------------------------ MODULE RankedVoting -------------------------------
(***************************************************************************)
(* Ranked choices of one session.  SubmitRankedChoices is one transaction: *)
(* it locks the session row and checks state and deadline, reads roster    *)
(* and catalog and judges the answers by them, and inserts the submission. *)
(* Other transactions run in between.  Those that need the session row     *)
(* wait; those that do not (deleting an offering, leaving the program,     *)
(* changing a grade window) go on, and foreign keys settle what they may   *)
(* still do.                                                               *)
(*                                                                         *)
(* A solve reads the answers before it reads the catalog they speak of.    *)
(*                                                                         *)
(* Answers without a rank (interested, not interested, no response) are    *)
(* one value, 0: they are validated alike, and of the two that a solve     *)
(* names to the sidecar nothing is said here that is not said of ranks.    *)
(* The channel and the guardian's link to the student are left out.        *)
(***************************************************************************)
EXTENDS SessionLifecycle

CONSTANTS
    MaxBallots,  \* bound on submissions, numbered as their transactions begin
    Unread       \* marks a solve that has not read the answers

ASSUME VotingAssumption == MaxBallots \in Nat /\ Unread \notin Offerings

VARIABLES
    ballots,     \* how far each submission is, whose it is, its answers
    choices      \* offerings each solve has read a ranked answer for, or Unread

votingVars == <<sessionVars, ballots, choices>>

Ballots == 1..MaxBallots

NoBallot == [phase |-> "none", voter |-> {}, ranks |-> <<>>]

Cast(b) == ballots[b].phase = "cast"

\* Mutant of SessionLocked: the session is read without FOR UPDATE.
SessionUnlocked == FALSE

SessionLocked == \E b \in Ballots : ballots[b].phase \in {"locked", "composed"}

BallotStep(b, from, to) ==
    /\ ballots[b].phase = from
    /\ ballots' = [ballots EXCEPT ![b].phase = to]
    /\ UNCHANGED <<sessionVars, choices>>

--------------------------------------------------------------------------------
(* SubmitRankedChoices.                                                    *)

\* submitted_at is the time the transaction began: numbers are in its order.
BeginSubmission(b, s) ==
    /\ ballots[b].phase = "none"
    /\ \A c \in 1..b - 1 : ballots[c].phase # "none"
    /\ ballots' = [ballots EXCEPT ![b] = [phase |-> "begun", voter |-> {s}, ranks |-> <<>>]]
    /\ UNCHANGED <<sessionVars, choices>>

\* GetSessionForUpdate also waits for a row inserted under the session.
LockSession(b) ==
    /\ ~SessionLocked
    /\ declaring = {}
    /\ ranked # NotConfigured
    /\ state = "voting_open"
    /\ now < ranked.deadline
    /\ BallotStep(b, "begun", "locked")

gradeEligibleOfferings(s) == {o \in DOMAIN catalog : Grade[s] \in catalog[o].window}

\* Offerings the form hides from the student are answered with no response.
completeHiddenRankedChoiceResponses(s, responses) ==
    [o \in DOMAIN responses \cup (DOMAIN catalog \ gradeEligibleOfferings(s)) |->
        IF o \in DOMAIN responses THEN responses[o] ELSE 0]

RankedIn(ranks) == {o \in DOMAIN ranks : ranks[o] > 0}

\* Mutant of ValidateRankedChoiceResponseSetWithDepth: the depth is not asked for.
ValidForAnyDepth(ranks) ==
    /\ DOMAIN catalog # {}
    /\ DOMAIN ranks = DOMAIN catalog
    /\ \A o \in RankedIn(ranks) :
           /\ ranks[o] <= Cardinality(DOMAIN catalog)
           /\ \A p \in RankedIn(ranks) \ {o} : ranks[p] # ranks[o]

\* One answer for every offering, ranks distinct and within depth and catalog.
ValidateRankedChoiceResponseSetWithDepth(ranks) ==
    /\ DOMAIN catalog # {}
    /\ DOMAIN ranks = DOMAIN catalog
    /\ \A o \in RankedIn(ranks) :
           /\ ranks[o] <= ranked.depth
           /\ ranks[o] <= Cardinality(DOMAIN catalog)
           /\ \A p \in RankedIn(ranks) \ {o} : ranks[p] # ranks[o]

\* Roster and catalog are read by statements of their own; what can happen to
\* them in between, under the lock, is caught again by the insertion.
ComposeResponses(b, responses) ==
    \E s \in ballots[b].voter :
        LET ranks == completeHiddenRankedChoiceResponses(s, responses)
        IN  /\ ballots[b].phase = "locked"
            /\ s \in member \ absent
            /\ ValidateRankedChoiceResponseSetWithDepth(ranks)
            /\ ballots' = [ballots EXCEPT ![b] =
                   [phase |-> "composed", voter |-> {s}, ranks |-> ranks]]
            /\ UNCHANGED <<sessionVars, choices>>

\* The rows refer to the membership and to each offering; the commit unlocks.
CreateRankedChoiceSubmission(b) ==
    /\ ballots[b].voter \subseteq member
    /\ DOMAIN ballots[b].ranks \subseteq DOMAIN catalog
    /\ BallotStep(b, "composed", "cast")

\* A check, a read or an insertion fails, or the client is gone.
AbandonSubmission(b) ==
    /\ ballots[b].phase \in {"begun", "locked", "composed"}
    /\ ballots' = [ballots EXCEPT ![b] = [phase |-> "abandoned", voter |-> {}, ranks |-> <<>>]]
    /\ UNCHANGED <<sessionVars, choices>>

--------------------------------------------------------------------------------
(* The answers a solve reads.                                              *)

\* The submission with the latest submitted_at replaces the earlier ones.
Latest(b) == Cast(b) /\ \A c \in Ballots : Cast(c) /\ c > b => ballots[c].voter # ballots[b].voter

ListCurrentSessionResultAnswers(k) ==
    /\ solve[k].phase = "roster"
    /\ choices[k] = {Unread}
    /\ choices' = [choices EXCEPT ![k] =
           UNION {RankedIn(ballots[b].ranks) : b \in
               {b \in Ballots : Latest(b) /\ ballots[b].voter \subseteq Participants(solve[k].request)}}]
    /\ UNCHANGED <<sessionVars, ballots>>

--------------------------------------------------------------------------------
(* Everything else that happens to the session, beside the ballots.        *)

\* What a transaction that locks the session row, or inserts a row under it,
\* shows of itself.
NeedsTheSessionRow ==
    \/ <<state, stale, ranked, revision>>' # <<state, stale, ranked, revision>>
    \/ declaring' \ declaring # {}
    \/ DOMAIN catalog' \ DOMAIN catalog # {}
    \/ Cardinality(dates') > Cardinality(dates)
    \/ \E d \in SUBSET Dates : UpdateSession(d, ranked)

\* Mutant of BallotsRestrict: an offering takes its answers along.
MembershipsRestrict == \A b \in Ballots : Cast(b) => ballots[b].voter \subseteq member'

\* The foreign keys of submissions and answers restrict deletion.
BallotsRestrict ==
    \A b \in Ballots : Cast(b) =>
        /\ ballots[b].voter \subseteq member'
        /\ DOMAIN ballots[b].ranks \subseteq DOMAIN catalog'

\* A solve goes on from the roster to the catalog by way of the answers.
SessionStep ==
    /\ SessionNext
    /\ SessionLocked => ~NeedsTheSessionRow
    /\ BallotsRestrict
    /\ \A k \in Solves : solve'[k].phase = "offerings" => choices[k] # {Unread}
    /\ choices' = [k \in Solves |-> IF solve'[k].phase = "idle" THEN {Unread} ELSE choices[k]]
    /\ UNCHANGED ballots

VotingInit ==
    /\ SessionInit
    /\ ballots = [b \in Ballots |-> NoBallot]
    /\ choices = [k \in Solves |-> {Unread}]

SubmissionStep(b) ==
    \/ \E s \in Students : BeginSubmission(b, s)
    \/ LockSession(b)
    \/ \E S \in SUBSET Offerings : \E responses \in [S -> 0..Cardinality(Offerings)] :
           ComposeResponses(b, responses)
    \/ CreateRankedChoiceSubmission(b)
    \/ AbandonSubmission(b)

VotingNext ==
    \/ SessionStep
    \/ \E b \in Ballots : SubmissionStep(b)
    \/ \E k \in Solves : ListCurrentSessionResultAnswers(k)

VotingSpec == VotingInit /\ [][VotingNext]_votingVars

--------------------------------------------------------------------------------
(* Properties.                                                             *)

\* The shape of the session row and of the submissions to it.
VotingTypeOK ==
    /\ LifecycleTypeOK
    /\ \A b \in Ballots :
           /\ ballots[b].phase \in {"none", "begun", "locked", "composed", "cast", "abandoned"}
           /\ ballots[b].voter \subseteq Students
           /\ DOMAIN ballots[b].ranks \subseteq Offerings
    /\ \A k \in Solves : choices[k] \subseteq Offerings \cup {Unread}

\* A ballot enters the session only while voting is open, for a student who
\* still takes part, and answers for the catalog as it is when the ballot
\* commits: no class opened, closed or deleted since it was judged.  (The
\* deadline is looked at when the row is locked and may pass before the commit.)
BallotsFitTheSession ==
    [][\A b \in Ballots : ~Cast(b) /\ Cast(b)' =>
          /\ state' = "voting_open"
          /\ ballots'[b].voter \subseteq (member \ absent)'
          /\ DOMAIN ballots'[b].ranks = DOMAIN catalog']_votingVars

\* Whatever voting has become since, no ballot holds a rank beyond the depth
\* the session is configured with, nor a rank twice.
BallotsStayWithinTheDepth ==
    \A b \in Ballots : Cast(b) => \A o \in RankedIn(ballots[b].ranks) :
        /\ ballots[b].ranks[o] <= ranked.depth
        /\ \A p \in RankedIn(ballots[b].ranks) \ {o} : ballots[b].ranks[p] # ballots[b].ranks[o]

\* The sidecar rejects a request whose ranked choices name a class the request
\* does not list.  The answers are read earlier than the catalog, and every
\* class they name is still there when the catalog is read.
ChoicesNameListedOfferings ==
    \A k \in Solves : solve[k].phase = "offerings" =>
        choices[k] \subseteq DOMAIN solve[k].request.offerings

================================================================================
