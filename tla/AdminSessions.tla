----------------------------- MODULE AdminSessions -----------------------------
(***************************************************************************)
(* The second factor of one administrator and the administrative sessions  *)
(* it buys (EnrollMFA, VerifyMFA, ResetMFA, ResolveSession of              *)
(* backend/internal/identity/adult_auth.go).  Enrolling and verifying read *)
(* the state in one transaction or statement and write in a later one;     *)
(* enrolments, verifications and an owner's resets overlap.                *)
(*                                                                         *)
(* A secret is named by the generation it was stored with, and a recovery  *)
(* code by its secret and a number.                                        *)
(***************************************************************************)
EXTENDS Naturals, FiniteSets

CONSTANTS
    Enrolments,     \* enrolments in progress at a time
    Verifications,  \* verifications in progress at a time
    AdminSessionIds,\* identifiers of administrative sessions
    CodeNumbers,    \* the recovery codes issued with one secret
    MaxGeneration,  \* bound on users.mfa_generation
    NoSession

ASSUME SecondFactorAssumption == MaxGeneration \in Nat

VARIABLES
    mfa,        \* the state in users: generation, and whether a secret is stored
    recovery,   \* the mfa_recovery_codes rows: code -> whether it was used
    belongs,    \* the user is a member of the organization
    enrolling,  \* enrolments that have found no secret
    verifying,  \* verification -> what it has read and proved
    adminSessions,  \* session id -> row, or NoSession
    spent       \* history: recovery code -> sessions it has bought

adminVars == <<mfa, recovery, belongs, enrolling, verifying, adminSessions, spent>>

Generations == 0..MaxGeneration
RecoveryCodes == Generations \X CodeNumbers

Waiting == [at |-> "waiting", generation |-> 0, proof |-> 0]

AdminSessionRows == [generation : Generations, proof : Generations, revoked : BOOLEAN]

AdminInit ==
    /\ mfa = [generation |-> 0, enrolled |-> FALSE]
    /\ recovery = [c \in {} |-> FALSE]
    /\ belongs = TRUE
    /\ enrolling = {}
    /\ verifying = [v \in Verifications |-> Waiting]
    /\ adminSessions = [s \in AdminSessionIds |-> NoSession]
    /\ spent = [c \in RecoveryCodes |-> 0]

-----------------------------------------------------------------------------
(* Enrolment.                                                              *)

ReadForEnrolment(e) ==
    /\ e \notin enrolling
    /\ belongs
    /\ ~mfa.enrolled
    /\ enrolling' = enrolling \cup {e}
    /\ UNCHANGED <<mfa, recovery, belongs, verifying, adminSessions, spent>>

CreateMFARecoveryCodes(generation) == {generation} \X CodeNumbers

SetMFASecret ==
    /\ mfa.generation < MaxGeneration
    /\ mfa' = [generation |-> mfa.generation + 1, enrolled |-> TRUE]

\* Mutant of DeleteMFARecoveryCodes: the table is taken to be empty.
DeleteNoCodes == recovery

\* The rows that are left of the codes stored before.
DeleteMFARecoveryCodes == [c \in {} |-> FALSE]

\* The row lock of SetMFASecret orders overlapping enrolments; neither is refused.
EnrollMFA(e) ==
    /\ e \in enrolling
    /\ SetMFASecret
    /\ LET kept == DeleteMFARecoveryCodes
           issued == CreateMFARecoveryCodes(mfa'.generation)
       IN  recovery' = [c \in issued \cup DOMAIN kept |->
                          IF c \in issued THEN FALSE ELSE kept[c]]
    /\ enrolling' = enrolling \ {e}
    /\ UNCHANGED <<belongs, verifying, adminSessions, spent>>

EnrolmentFails(e) ==
    /\ e \in enrolling
    /\ enrolling' = enrolling \ {e}
    /\ UNCHANGED <<mfa, recovery, belongs, verifying, adminSessions, spent>>

-----------------------------------------------------------------------------
(* Verification.                                                           *)

Verifying(v, at, generation, proof) ==
    verifying' = [verifying EXCEPT ![v] =
                    [at |-> at, generation |-> generation, proof |-> proof]]

ReadMFAState(v) ==
    /\ verifying[v] = Waiting
    /\ belongs
    /\ mfa.enrolled
    /\ Verifying(v, "read", mfa.generation, 0)
    /\ UNCHANGED <<mfa, recovery, belongs, enrolling, adminSessions, spent>>

\* The code is compared with the secret that was read, not with the one stored now.
VerifyTOTP(v) ==
    /\ verifying[v].at = "read"
    /\ Verifying(v, "proved", verifying[v].generation, verifying[v].generation)
    /\ UNCHANGED <<mfa, recovery, belongs, enrolling, adminSessions, spent>>

\* Mutant of Unused: a stored code is good however often it was used.
Stored(c) == c \in DOMAIN recovery

Unused(c) == c \in DOMAIN recovery /\ ~recovery[c]

\* A recovery code is looked up among those stored now.
ConsumeMFARecoveryCode(v) ==
    /\ verifying[v].at = "read"
    /\ \E c \in RecoveryCodes :
         /\ Unused(c)
         /\ recovery' = [recovery EXCEPT ![c] = TRUE]
         /\ spent' = [spent EXCEPT ![c] = @ + 1]
         /\ Verifying(v, "proved", verifying[v].generation, c[1])
    /\ UNCHANGED <<mfa, belongs, enrolling, adminSessions>>

CreateAdministrativeSession(v) ==
    /\ verifying[v].at = "proved"
    /\ \E s \in AdminSessionIds :
         /\ adminSessions[s] = NoSession
         /\ adminSessions' = [adminSessions EXCEPT ![s] =
              [generation |-> verifying[v].generation, proof |-> verifying[v].proof,
               revoked |-> FALSE]]
    /\ verifying' = [verifying EXCEPT ![v] = Waiting]
    /\ UNCHANGED <<mfa, recovery, belongs, enrolling, spent>>

\* A wrong code, an account without a link, or a transaction that fails.
VerificationFails(v) ==
    /\ verifying[v] # Waiting
    /\ verifying' = [verifying EXCEPT ![v] = Waiting]
    /\ UNCHANGED <<mfa, recovery, belongs, enrolling, adminSessions, spent>>

-----------------------------------------------------------------------------
(* Reset, removal and the end of sessions.                                 *)

RevokeAdministrativeSessions ==
    [s \in AdminSessionIds |->
       IF adminSessions[s] = NoSession THEN NoSession
       ELSE [adminSessions[s] EXCEPT !.revoked = TRUE]]

ResetMFA ==
    /\ belongs
    /\ mfa.generation < MaxGeneration
    /\ mfa' = [generation |-> mfa.generation + 1, enrolled |-> FALSE]
    /\ recovery' = [c \in {} |-> FALSE]
    /\ adminSessions' = RevokeAdministrativeSessions
    /\ UNCHANGED <<belongs, enrolling, verifying, spent>>

\* An administrator is removed, or invited again and claims the invitation.
ChangeMembership ==
    /\ belongs' = ~belongs
    /\ UNCHANGED <<mfa, recovery, enrolling, verifying, adminSessions, spent>>

\* Signing out, and the two ways of expiring.
RevokeSession(s) ==
    /\ adminSessions[s] # NoSession /\ ~adminSessions[s].revoked
    /\ adminSessions' = [adminSessions EXCEPT ![s].revoked = TRUE]
    /\ UNCHANGED <<mfa, recovery, belongs, enrolling, verifying, spent>>

\* Mutant of ResolveSession: the generation is not compared.
ResolveAnyGeneration(s) ==
    adminSessions[s] # NoSession /\ ~adminSessions[s].revoked /\ belongs

\* Each request with the session's bearer is judged by the state of that moment.
ResolveSession(s) ==
    /\ adminSessions[s] # NoSession /\ ~adminSessions[s].revoked
    /\ adminSessions[s].generation = mfa.generation
    /\ belongs

AdminNext ==
    \/ \E e \in Enrolments : ReadForEnrolment(e) \/ EnrollMFA(e) \/ EnrolmentFails(e)
    \/ \E v \in Verifications :
         \/ ReadMFAState(v) \/ VerifyTOTP(v) \/ ConsumeMFARecoveryCode(v)
         \/ CreateAdministrativeSession(v) \/ VerificationFails(v)
    \/ ResetMFA
    \/ ChangeMembership
    \/ \E s \in AdminSessionIds : RevokeSession(s)

AdminSpec == AdminInit /\ [][AdminNext]_adminVars

-----------------------------------------------------------------------------
(* Properties.                                                             *)

\* The second factor, its codes and its sessions are of their shape.
AdminTypeOK ==
    /\ mfa \in [generation : Generations, enrolled : BOOLEAN]
    /\ DOMAIN recovery \subseteq RecoveryCodes
    /\ enrolling \subseteq Enrolments
    /\ verifying \in [Verifications ->
         [at : {"waiting", "read", "proved"}, generation : Generations, proof : Generations]]
    /\ adminSessions \in [AdminSessionIds -> AdminSessionRows \cup {NoSession}]

\* A session that is let in was bought with the secret stored now or a code
\* issued with it, also when a reset or an enrolment overtook its verification
\* (SPEC 9.3: a reset invalidates sessions and prior recovery codes).
SessionsProveTheSecretInForce ==
    \A s \in AdminSessionIds :
        ResolveSession(s) => mfa.enrolled /\ adminSessions[s].proof = mfa.generation

\* Of two enrolments that both found no secret, only the later one's codes stay.
CodesBelongToTheSecretInForce ==
    \A c \in DOMAIN recovery : mfa.enrolled /\ c[1] = mfa.generation

\* A recovery code is accepted once, by whichever verification gets to it.
RecoveryCodesAreAcceptedOnce == \A c \in RecoveryCodes : spent[c] <= 1
=============================================================================
