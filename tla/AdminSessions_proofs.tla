-------------------------- MODULE AdminSessions_proofs --------------------------
(***************************************************************************)
(* Who may sign in and administer, for every number of people, codes and   *)
(* overlapping requests. The second factor: what is let in has proved the  *)
(* secret in force, and a recovery code is accepted once. Codes sent to a  *)
(* mailbox: how far overlapping requests and guesses get past the limits,  *)
(* and that a code signs in once. Administrators: a claim consumes a live  *)
(* invitation, and requests one at a time leave an owner.                  *)
(***************************************************************************)
EXTENDS AdminSessions, AdultSignIn, Administrators, FiniteSetTheorems, TLAPS

SpentCounts == spent \in [RecoveryCodes -> Nat]

\* A session is of a generation that was stored, and one of the generation in
\* force that is not revoked has proved its secret.
SessionsWereProved ==
    \A s \in AdminSessionIds : adminSessions[s] # NoSession =>
        /\ adminSessions[s].generation <= mfa.generation
        /\ adminSessions[s].generation = mfa.generation /\ ~adminSessions[s].revoked =>
               mfa.enrolled /\ adminSessions[s].proof = mfa.generation

\* So will be those that the verifications in progress create.
VerificationsHaveRead ==
    \A v \in Verifications :
        /\ verifying[v].generation <= mfa.generation
        /\ verifying[v].at # "waiting" /\ verifying[v].generation = mfa.generation =>
               mfa.enrolled
        /\ verifying[v].at = "proved" /\ verifying[v].generation = mfa.generation =>
               verifying[v].proof = mfa.generation

\* What can still be spent, now or after a later enrolment, has bought nothing.
UnusedCodesBoughtNothing ==
    \A c \in RecoveryCodes :
        Unused(c) \/ c[1] > mfa.generation => spent[c] = 0

SecondFactorInv ==
    /\ AdminTypeOK
    /\ SpentCounts
    /\ SessionsWereProved
    /\ VerificationsHaveRead
    /\ CodesBelongToTheSecretInForce
    /\ UnusedCodesBoughtNothing
    /\ RecoveryCodesAreAcceptedOnce

-----------------------------------------------------------------------------
(* Preservation.                                                           *)

\* Nothing is enrolled, verified or spent at first.
LEMMA SecondFactorInit == AdminInit => SecondFactorInv
<1> SUFFICES ASSUME AdminInit PROVE SecondFactorInv
  OBVIOUS
<1> USE DEF AdminInit
<1>1. 0 \in Generations
  BY SecondFactorAssumption DEF Generations
<1>2. AdminTypeOK
  BY <1>1 DEF AdminTypeOK, Waiting
<1>3. SpentCounts /\ UnusedCodesBoughtNothing /\ RecoveryCodesAreAcceptedOnce
  BY DEF SpentCounts, UnusedCodesBoughtNothing, RecoveryCodesAreAcceptedOnce
<1>4. SessionsWereProved /\ VerificationsHaveRead /\ CodesBelongToTheSecretInForce
  BY DEF SessionsWereProved, VerificationsHaveRead, CodesBelongToTheSecretInForce, Waiting
<1>5. QED
  BY <1>2, <1>3, <1>4 DEF SecondFactorInv

\* A step that leaves the stored state, its codes and the sessions alone keeps
\* the invariant if what it does to a verification is in order.
LEMMA VerificationSteps ==
    ASSUME SecondFactorInv,
           UNCHANGED <<mfa, recovery, adminSessions, spent>>,
           enrolling' \subseteq Enrolments,
           verifying' \in [Verifications ->
             [at : {"waiting", "read", "proved"}, generation : Generations,
              proof : Generations]],
           VerificationsHaveRead'
    PROVE  SecondFactorInv'
BY DEF SecondFactorInv, AdminTypeOK, SpentCounts, SessionsWereProved,
   CodesBelongToTheSecretInForce, UnusedCodesBoughtNothing, Unused,
   RecoveryCodesAreAcceptedOnce

\* A verification that ends leaves one that waits.
LEMMA WaitingAgain ==
    ASSUME SecondFactorInv, NEW v \in Verifications,
           verifying' = [verifying EXCEPT ![v] = Waiting], UNCHANGED mfa
    PROVE  /\ verifying' \in [Verifications ->
                [at : {"waiting", "read", "proved"}, generation : Generations,
                 proof : Generations]]
           /\ VerificationsHaveRead'
<1>1. mfa.generation \in Nat /\ 0 \in Generations
  BY SecondFactorAssumption DEF SecondFactorInv, AdminTypeOK, Generations
<1>2. QED
  BY <1>1 DEF SecondFactorInv, AdminTypeOK, VerificationsHaveRead, Waiting

\* Storing or removing the secret moves on to a generation nobody has seen:
\* nothing that was read, proved or created before belongs to it.
LEMMA NewGeneration ==
    ASSUME SecondFactorInv, mfa.generation < MaxGeneration,
           NEW enrolled \in BOOLEAN,
           mfa' = [generation |-> mfa.generation + 1, enrolled |-> enrolled],
           UNCHANGED <<verifying, spent>>,
           \A s \in AdminSessionIds :
               adminSessions'[s] # NoSession =>
                   /\ adminSessions[s] # NoSession
                   /\ adminSessions'[s].generation = adminSessions[s].generation
    PROVE  /\ mfa' \in [generation : Generations, enrolled : BOOLEAN]
           /\ SessionsWereProved' /\ VerificationsHaveRead'
           /\ SpentCounts' /\ RecoveryCodesAreAcceptedOnce'
<1>1. /\ mfa.generation \in 0..MaxGeneration
      /\ mfa'.generation = mfa.generation + 1
      /\ mfa' \in [generation : Generations, enrolled : BOOLEAN]
  BY SecondFactorAssumption DEF SecondFactorInv, AdminTypeOK, Generations
<1>2. SessionsWereProved'
  <2> SUFFICES ASSUME NEW s \in AdminSessionIds, adminSessions'[s] # NoSession
               PROVE  /\ adminSessions'[s].generation <= mfa'.generation
                      /\ adminSessions'[s].generation # mfa'.generation
    BY <1>1 DEF SessionsWereProved
  <2>1. adminSessions[s] \in AdminSessionRows
    BY DEF SecondFactorInv, AdminTypeOK
  <2>2. adminSessions[s].generation <= mfa.generation
    BY DEF SecondFactorInv, SessionsWereProved
  <2>3. QED
    BY <1>1, <2>1, <2>2 DEF AdminSessionRows, Generations
<1>3. VerificationsHaveRead'
  <2> SUFFICES ASSUME NEW v \in Verifications
               PROVE  /\ verifying[v].generation <= mfa'.generation
                      /\ verifying[v].generation # mfa'.generation
    BY <1>1 DEF VerificationsHaveRead
  <2>1. verifying[v].generation \in 0..MaxGeneration
    BY DEF SecondFactorInv, AdminTypeOK, Generations
  <2>2. verifying[v].generation <= mfa.generation
    BY DEF SecondFactorInv, VerificationsHaveRead
  <2>3. QED
    BY <1>1, <2>1, <2>2
<1>4. QED
  BY <1>1, <1>2, <1>3 DEF SecondFactorInv, SpentCounts, RecoveryCodesAreAcceptedOnce

-----------------------------------------------------------------------------
(* Enrolment and reset.                                                    *)

\* The codes of an enrolment are those of the secret it stores, and fresh.
LEMMA EnrolmentInv ==
    ASSUME SecondFactorInv, NEW e \in Enrolments, EnrollMFA(e)
    PROVE  SecondFactorInv'
<1>1. /\ mfa.generation < MaxGeneration
      /\ mfa' = [generation |-> mfa.generation + 1, enrolled |-> TRUE]
      /\ UNCHANGED <<verifying, adminSessions, spent>>
      /\ enrolling' = enrolling \ {e}
  BY DEF EnrollMFA, SetMFASecret
<1>2. DOMAIN recovery' = {mfa'.generation} \X CodeNumbers
  BY DEF EnrollMFA, DeleteMFARecoveryCodes, CreateMFARecoveryCodes
<1>3. /\ mfa' \in [generation : Generations, enrolled : BOOLEAN]
      /\ SessionsWereProved' /\ VerificationsHaveRead'
      /\ SpentCounts' /\ RecoveryCodesAreAcceptedOnce'
  BY <1>1, NewGeneration
<1>4. mfa.generation \in Nat /\ mfa'.generation = mfa.generation + 1 /\ mfa'.enrolled
  BY <1>1 DEF SecondFactorInv, AdminTypeOK, Generations
<1>5. CodesBelongToTheSecretInForce'
  BY <1>2, <1>4 DEF CodesBelongToTheSecretInForce
<1>6. UnusedCodesBoughtNothing'
  <2> SUFFICES ASSUME NEW c \in RecoveryCodes,
                      c \in DOMAIN recovery' \/ c[1] > mfa'.generation
               PROVE  c[1] > mfa.generation
    BY <1>1 DEF UnusedCodesBoughtNothing, Unused, SecondFactorInv
  <2>1. c[1] \in Nat
    BY DEF RecoveryCodes, Generations
  <2>2. c \in DOMAIN recovery' => c[1] = mfa'.generation
    BY <1>2
  <2>3. QED
    BY <1>4, <2>1, <2>2
<1>7. AdminTypeOK'
  <2>1. DOMAIN recovery' \subseteq RecoveryCodes
    BY <1>2, <1>3 DEF RecoveryCodes
  <2>2. QED
    BY <1>1, <1>3, <2>1 DEF SecondFactorInv, AdminTypeOK
<1>8. QED
  BY <1>3, <1>5, <1>6, <1>7 DEF SecondFactorInv

\* A reset revokes what was created and outruns what is being verified.
LEMMA ResetInv ==
    ASSUME SecondFactorInv, ResetMFA
    PROVE  SecondFactorInv'
<1>1. /\ mfa.generation < MaxGeneration
      /\ mfa' = [generation |-> mfa.generation + 1, enrolled |-> FALSE]
      /\ recovery' = [c \in {} |-> FALSE]
      /\ adminSessions' = RevokeAdministrativeSessions
      /\ UNCHANGED <<enrolling, verifying, spent>>
  BY DEF ResetMFA
<1>2. \A s \in AdminSessionIds :
        /\ adminSessions'[s] \in AdminSessionRows \cup {NoSession}
        /\ adminSessions'[s] # NoSession =>
             /\ adminSessions[s] # NoSession
             /\ adminSessions'[s].generation = adminSessions[s].generation
  <2> TAKE s \in AdminSessionIds
  <2>1. CASE adminSessions[s] = NoSession
    BY <1>1, <2>1 DEF RevokeAdministrativeSessions
  <2>2. CASE adminSessions[s] # NoSession
    <3>1. adminSessions[s] \in AdminSessionRows
      BY <2>2 DEF SecondFactorInv, AdminTypeOK
    <3>2. adminSessions'[s] = [adminSessions[s] EXCEPT !.revoked = TRUE]
      BY <1>1, <2>2 DEF RevokeAdministrativeSessions
    <3>3. QED
      BY <2>2, <3>1, <3>2 DEF AdminSessionRows
  <2>3. QED
    BY <2>1, <2>2
<1>3. /\ mfa' \in [generation : Generations, enrolled : BOOLEAN]
      /\ SessionsWereProved' /\ VerificationsHaveRead'
      /\ SpentCounts' /\ RecoveryCodesAreAcceptedOnce'
  BY <1>1, <1>2, NewGeneration
<1>4. CodesBelongToTheSecretInForce'
  BY <1>1 DEF CodesBelongToTheSecretInForce
<1>5. UnusedCodesBoughtNothing'
  <2> SUFFICES ASSUME NEW c \in RecoveryCodes, c[1] > mfa'.generation
               PROVE  c[1] > mfa.generation
    BY <1>1 DEF UnusedCodesBoughtNothing, Unused, SecondFactorInv
  <2>1. c[1] \in Nat /\ mfa.generation \in Nat
    BY DEF RecoveryCodes, Generations, SecondFactorInv, AdminTypeOK
  <2>2. QED
    BY <1>1, <2>1
<1>6. adminSessions' \in [AdminSessionIds -> AdminSessionRows \cup {NoSession}]
  BY <1>1, <1>2 DEF RevokeAdministrativeSessions
<1>7. AdminTypeOK'
  BY <1>1, <1>3, <1>6 DEF SecondFactorInv, AdminTypeOK
<1>8. QED
  BY <1>3, <1>4, <1>5, <1>7 DEF SecondFactorInv

-----------------------------------------------------------------------------
(* Verification and sessions.                                              *)

\* A recovery code proves the secret in force, and is spent for good.
LEMMA RecoveryInv ==
    ASSUME SecondFactorInv, NEW v \in Verifications, ConsumeMFARecoveryCode(v)
    PROVE  SecondFactorInv'
<1> PICK c \in RecoveryCodes :
      /\ Unused(c)
      /\ recovery' = [recovery EXCEPT ![c] = TRUE]
      /\ spent' = [spent EXCEPT ![c] = @ + 1]
      /\ Verifying(v, "proved", verifying[v].generation, c[1])
  BY DEF ConsumeMFARecoveryCode
<1>1. verifying[v].at = "read" /\ UNCHANGED <<mfa, enrolling, adminSessions>>
  BY DEF ConsumeMFARecoveryCode
<1>2. spent[c] = 0 /\ mfa.enrolled /\ c[1] = mfa.generation /\ c[1] \in Generations
  BY DEF SecondFactorInv, UnusedCodesBoughtNothing, CodesBelongToTheSecretInForce, Unused,
     RecoveryCodes
<1>3. /\ DOMAIN recovery' = DOMAIN recovery
      /\ \A d \in DOMAIN recovery : recovery'[d] = IF d = c THEN TRUE ELSE recovery[d]
  BY DEF Unused
<1>4. SpentCounts' /\ RecoveryCodesAreAcceptedOnce'
  BY <1>2 DEF SecondFactorInv, SpentCounts, RecoveryCodesAreAcceptedOnce
<1>5. UnusedCodesBoughtNothing'
  <2> SUFFICES ASSUME NEW d \in RecoveryCodes, Unused(d)' \/ d[1] > mfa.generation
               PROVE  spent'[d] = 0
    BY <1>1 DEF UnusedCodesBoughtNothing
  <2>1. d # c
    BY <1>2, <1>3 DEF Unused, SecondFactorInv, AdminTypeOK, Generations
  <2>2. Unused(d) \/ d[1] > mfa.generation
    BY <1>3, <2>1 DEF Unused
  <2>3. spent[d] = 0 /\ spent'[d] = spent[d]
    BY <2>1, <2>2 DEF SecondFactorInv, UnusedCodesBoughtNothing, SpentCounts
  <2>4. QED
    BY <2>3
<1>6. verifying' = [verifying EXCEPT ![v] =
        [at |-> "proved", generation |-> verifying[v].generation, proof |-> c[1]]]
  BY DEF Verifying
<1>7. VerificationsHaveRead'
  BY <1>1, <1>2, <1>6 DEF SecondFactorInv, AdminTypeOK, VerificationsHaveRead
<1>8. CodesBelongToTheSecretInForce' /\ SessionsWereProved'
  BY <1>1, <1>3 DEF SecondFactorInv, CodesBelongToTheSecretInForce, SessionsWereProved
<1>9. AdminTypeOK'
  BY <1>1, <1>2, <1>3, <1>6 DEF SecondFactorInv, AdminTypeOK
<1>10. QED
  BY <1>4, <1>5, <1>7, <1>8, <1>9 DEF SecondFactorInv

\* A session is created with what its verification has read and proved.
LEMMA SessionInv ==
    ASSUME SecondFactorInv, NEW v \in Verifications, CreateAdministrativeSession(v)
    PROVE  SecondFactorInv'
<1> DEFINE row == [generation |-> verifying[v].generation, proof |-> verifying[v].proof,
                   revoked |-> FALSE]
<1> PICK s \in AdminSessionIds :
      adminSessions[s] = NoSession /\ adminSessions' = [adminSessions EXCEPT ![s] = row]
  BY DEF CreateAdministrativeSession
<1>1. /\ verifying[v].at = "proved"
      /\ verifying' = [verifying EXCEPT ![v] = Waiting]
      /\ UNCHANGED <<mfa, recovery, enrolling, spent>>
  BY DEF CreateAdministrativeSession
<1>2. row \in AdminSessionRows
  BY DEF SecondFactorInv, AdminTypeOK, AdminSessionRows
<1>3. /\ row.generation <= mfa.generation
      /\ row.generation = mfa.generation => mfa.enrolled /\ row.proof = mfa.generation
  BY <1>1 DEF SecondFactorInv, VerificationsHaveRead
<1>4. adminSessions' \in [AdminSessionIds -> AdminSessionRows \cup {NoSession}]
  BY <1>2 DEF SecondFactorInv, AdminTypeOK
<1>5. SessionsWereProved'
  <2> SUFFICES ASSUME NEW t \in AdminSessionIds, adminSessions'[t] # NoSession
               PROVE  /\ adminSessions'[t].generation <= mfa.generation
                      /\ adminSessions'[t].generation = mfa.generation
                           /\ ~adminSessions'[t].revoked =>
                           mfa.enrolled /\ adminSessions'[t].proof = mfa.generation
    BY <1>1 DEF SessionsWereProved
  <2>1. CASE t = s
    <3>1. adminSessions'[t] = row
      BY <2>1 DEF SecondFactorInv, AdminTypeOK
    <3>2. QED
      BY <1>3, <3>1
  <2>2. CASE t # s
    BY <2>2 DEF SecondFactorInv, AdminTypeOK, SessionsWereProved
  <2>3. QED
    BY <2>1, <2>2
<1>6. /\ verifying' \in [Verifications ->
           [at : {"waiting", "read", "proved"}, generation : Generations,
            proof : Generations]]
      /\ VerificationsHaveRead'
  BY <1>1, WaitingAgain
<1>7. QED
  BY <1>1, <1>4, <1>5, <1>6 DEF SecondFactorInv, AdminTypeOK, SpentCounts,
     CodesBelongToTheSecretInForce, UnusedCodesBoughtNothing, Unused,
     RecoveryCodesAreAcceptedOnce

\* Ending a session only takes it out of consideration.
LEMMA RevocationInv ==
    ASSUME SecondFactorInv, NEW s \in AdminSessionIds, RevokeSession(s)
    PROVE  SecondFactorInv'
<1>1. /\ adminSessions[s] # NoSession
      /\ adminSessions' = [adminSessions EXCEPT ![s].revoked = TRUE]
      /\ UNCHANGED <<mfa, recovery, enrolling, verifying, spent>>
  BY DEF RevokeSession
<1>2. adminSessions[s] \in AdminSessionRows
  BY <1>1 DEF SecondFactorInv, AdminTypeOK
<1>3. \A t \in AdminSessionIds :
        adminSessions'[t] = IF t = s THEN [adminSessions[s] EXCEPT !.revoked = TRUE]
                            ELSE adminSessions[t]
  BY <1>1 DEF SecondFactorInv, AdminTypeOK
<1>4. [adminSessions[s] EXCEPT !.revoked = TRUE] \in AdminSessionRows
  BY <1>2 DEF AdminSessionRows
<1>5. adminSessions' \in [AdminSessionIds -> AdminSessionRows \cup {NoSession}]
  BY <1>1, <1>4 DEF SecondFactorInv, AdminTypeOK
<1>6. SessionsWereProved'
  BY <1>1, <1>2, <1>3 DEF SecondFactorInv, SessionsWereProved, AdminSessionRows
<1>7. QED
  BY <1>1, <1>5, <1>6 DEF SecondFactorInv, AdminTypeOK, SpentCounts, VerificationsHaveRead,
     CodesBelongToTheSecretInForce, UnusedCodesBoughtNothing, Unused,
     RecoveryCodesAreAcceptedOnce

\* Every step keeps the invariant.
LEMMA SecondFactorStep == SecondFactorInv /\ [AdminNext]_adminVars => SecondFactorInv'
<1> SUFFICES ASSUME SecondFactorInv, [AdminNext]_adminVars PROVE SecondFactorInv'
  OBVIOUS
<1>1. ASSUME NEW e \in Enrolments, ReadForEnrolment(e) PROVE SecondFactorInv'
  BY <1>1, VerificationSteps DEF ReadForEnrolment, SecondFactorInv, AdminTypeOK,
     VerificationsHaveRead
<1>2. ASSUME NEW e \in Enrolments, EnrollMFA(e) PROVE SecondFactorInv'
  BY <1>2, EnrolmentInv
<1>3. ASSUME NEW e \in Enrolments, EnrolmentFails(e) PROVE SecondFactorInv'
  BY <1>3, VerificationSteps DEF EnrolmentFails, SecondFactorInv, AdminTypeOK,
     VerificationsHaveRead
<1>4. ASSUME NEW v \in Verifications, ReadMFAState(v) PROVE SecondFactorInv'
  <2>1. /\ verifying' = [verifying EXCEPT ![v] =
             [at |-> "read", generation |-> mfa.generation, proof |-> 0]]
        /\ mfa.enrolled
        /\ UNCHANGED <<mfa, recovery, enrolling, adminSessions, spent>>
    BY <1>4 DEF ReadMFAState, Verifying
  <2>2. mfa.generation \in Generations /\ mfa.generation \in Nat /\ 0 \in Generations
    BY SecondFactorAssumption DEF SecondFactorInv, AdminTypeOK, Generations
  <2>3. VerificationsHaveRead'
    BY <2>1, <2>2 DEF SecondFactorInv, AdminTypeOK, VerificationsHaveRead
  <2>4. QED
    BY <2>1, <2>2, <2>3, VerificationSteps DEF SecondFactorInv, AdminTypeOK
<1>5. ASSUME NEW v \in Verifications, VerifyTOTP(v) PROVE SecondFactorInv'
  <2>1. /\ verifying[v].at = "read"
        /\ verifying' = [verifying EXCEPT ![v] =
             [at |-> "proved", generation |-> verifying[v].generation,
              proof |-> verifying[v].generation]]
        /\ UNCHANGED <<mfa, recovery, enrolling, adminSessions, spent>>
    BY <1>5 DEF VerifyTOTP, Verifying
  <2>2. VerificationsHaveRead'
    BY <2>1 DEF SecondFactorInv, AdminTypeOK, VerificationsHaveRead
  <2>3. QED
    BY <2>1, <2>2, VerificationSteps DEF SecondFactorInv, AdminTypeOK
<1>6. ASSUME NEW v \in Verifications, ConsumeMFARecoveryCode(v) PROVE SecondFactorInv'
  BY <1>6, RecoveryInv
<1>7. ASSUME NEW v \in Verifications, CreateAdministrativeSession(v) PROVE SecondFactorInv'
  BY <1>7, SessionInv
<1>8. ASSUME NEW v \in Verifications, VerificationFails(v) PROVE SecondFactorInv'
  BY <1>8, WaitingAgain, VerificationSteps DEF VerificationFails, SecondFactorInv, AdminTypeOK
<1>9. CASE ResetMFA
  BY <1>9, ResetInv
<1>10. CASE ChangeMembership
  BY <1>10, VerificationSteps DEF ChangeMembership, SecondFactorInv, AdminTypeOK,
     VerificationsHaveRead
<1>11. ASSUME NEW s \in AdminSessionIds, RevokeSession(s) PROVE SecondFactorInv'
  BY <1>11, RevocationInv
<1>12. CASE UNCHANGED adminVars
  BY <1>12, VerificationSteps DEF adminVars, SecondFactorInv, AdminTypeOK,
     VerificationsHaveRead
<1>13. QED
  BY <1>1, <1>2, <1>3, <1>4, <1>5, <1>6, <1>7, <1>8, <1>9, <1>10, <1>11, <1>12 DEF AdminNext

-----------------------------------------------------------------------------
(* The results.                                                            *)

\* The inductive invariant holds of every behaviour.
THEOREM SecondFactorInvariant == AdminSpec => []SecondFactorInv
BY SecondFactorInit, SecondFactorStep, PTL DEF AdminSpec

\* Rows, codes and verifications keep their shape.
THEOREM AdminTypeCorrect == AdminSpec => []AdminTypeOK
<1>1. SecondFactorInv => AdminTypeOK
  BY DEF SecondFactorInv
<1>2. QED
  BY <1>1, SecondFactorInvariant, PTL

\* A session that ResolveSession lets in has proved the secret in force, however
\* resets, enrolments and verifications overlapped.
THEOREM SessionsAreProved == AdminSpec => []SessionsProveTheSecretInForce
<1>1. SecondFactorInv => SessionsProveTheSecretInForce
  BY DEF SecondFactorInv, SessionsWereProved, SessionsProveTheSecretInForce, ResolveSession
<1>2. QED
  BY <1>1, SecondFactorInvariant, PTL

\* Recovery codes in the table are those issued with the secret in force.
THEOREM CodesBelong == AdminSpec => []CodesBelongToTheSecretInForce
<1>1. SecondFactorInv => CodesBelongToTheSecretInForce
  BY DEF SecondFactorInv
<1>2. QED
  BY <1>1, SecondFactorInvariant, PTL

\* No recovery code is accepted by two verifications.
THEOREM CodesAreAcceptedOnce == AdminSpec => []RecoveryCodesAreAcceptedOnce
<1>1. SecondFactorInv => RecoveryCodesAreAcceptedOnce
  BY DEF SecondFactorInv
<1>2. QED
  BY <1>1, SecondFactorInvariant, PTL

-----------------------------------------------------------------------------
(* Codes sent to a guardian's mailbox.                                     *)

\* What the two limits and the single session count.
RecentCodes == {c \in StoredCodes : codes[c].age < Window}
RequestsUnderway == {r \in Requesters : requesting[r]}
Holding(table, stage, c) == {v \in Attempters : table[v] = [at |-> stage, code |-> c]}
At(stage, c) == Holding(attempts, stage, c)

\* An attempt rests, or is about a code that is stored.
SignInShaped ==
    /\ SignInTypeOK
    /\ DOMAIN attempts = Attempters
    /\ \A v \in Attempters :
         \/ attempts[v] = Resting
         \/ /\ attempts[v].at \in {"read", "verified", "missed"}
            /\ attempts[v].code \in StoredCodes
            /\ attempts[v] = [at |-> attempts[v].at, code |-> attempts[v].code]

\* Requests that have counted, with the codes that are recent, leave the slack.
RequestsLeaveSlack ==
    Cardinality(RecentCodes) + Cardinality(RequestsUnderway)
      <= Limit + Cardinality(Requesters) - 1

\* As long as a code can be spent, its comparisons are those that were counted
\* and those whose count is still to come.  It was verified once if it was
\* consumed, and that verification has bought its session or is about to.
CodeIsSound(c) ==
    /\ Spendable(c) => codes[c].guesses <= codes[c].attempts + Cardinality(At("missed", c))
    /\ codes[c].guesses <= MaxAttempts + Cardinality(Attempters) - 1
    /\ codes[c].verified = IF codes[c].consumed THEN 1 ELSE 0
    /\ codes[c].direct + Cardinality(At("verified", c)) <= codes[c].verified

\* The inductive invariant.
SignInInv ==
    /\ SignInShaped
    /\ RequestsLeaveSlack
    /\ \A c \in StoredCodes : CodeIsSound(c)

\* The bounds are numbers and the sets that are counted are finite.
LEMMA CountsAreNumbers ==
    /\ Limit \in Nat \ {0} /\ MaxAttempts \in Nat \ {0} /\ MaxSessions \in Nat \ {0}
    /\ Window \in Nat \ {0} /\ Validity \in Nat \ {0} /\ Oldest \in Nat \ {0}
    /\ Cardinality(Requesters) \in Nat /\ Cardinality(Attempters) \in Nat
BY SignInAssumption, FS_CardinalityType DEF Oldest

\* Whatever set of codes, requests or attempts is counted, its count is a
\* number.
LEMMA CountedSetsAreFinite ==
    /\ \A S \in SUBSET Codes : IsFiniteSet(S) /\ Cardinality(S) \in Nat
    /\ \A S \in SUBSET Requesters :
         IsFiniteSet(S) /\ Cardinality(S) \in Nat /\ Cardinality(S) <= Cardinality(Requesters)
    /\ \A S \in SUBSET Attempters :
         IsFiniteSet(S) /\ Cardinality(S) \in Nat /\ Cardinality(S) <= Cardinality(Attempters)
BY SignInAssumption, FS_Subset, FS_CardinalityType

\* One more and one less.
LEMMA OneMore ==
    ASSUME NEW S, IsFiniteSet(S), NEW x
    PROVE  /\ Cardinality(S \cup {x}) <= Cardinality(S) + 1
           /\ x \notin S => Cardinality(S \cup {x}) = Cardinality(S) + 1
           /\ x \in S => Cardinality(S \ {x}) = Cardinality(S) - 1
<1>1. Cardinality(S) \in Nat
  BY FS_CardinalityType
<1>2. Cardinality(S \cup {x}) = IF x \in S THEN Cardinality(S) ELSE Cardinality(S) + 1
  BY FS_AddElement
<1>3. Cardinality(S \ {x}) = IF x \in S THEN Cardinality(S) - 1 ELSE Cardinality(S)
  BY FS_RemoveElement
<1>4. QED
  BY <1>1, <1>2, <1>3

\* Fewer elements count for less.
LEMMA FewerCountLess ==
    ASSUME NEW S, IsFiniteSet(S), NEW T \in SUBSET S
    PROVE  Cardinality(T) <= Cardinality(S)
BY FS_Subset

\* The stages of attempts are sets of attempters.
LEMMA StagesAreFinite ==
    \A stage, c :
      /\ IsFiniteSet(At(stage, c)) /\ Cardinality(At(stage, c)) \in Nat
      /\ Cardinality(At(stage, c)) <= Cardinality(Attempters)
BY CountedSetsAreFinite DEF At, Holding

\* A stored code has a row.
LEMMA RowsOfCodes ==
    ASSUME SignInInv
    PROVE  \A c \in StoredCodes :
             /\ c \in Codes /\ codes[c] \in CodeRows
             /\ codes[c].age \in Nat /\ codes[c].attempts \in Nat /\ codes[c].guesses \in Nat
             /\ codes[c].verified \in Nat /\ codes[c].direct \in Nat
BY CountsAreNumbers DEF SignInInv, SignInShaped, SignInTypeOK, StoredCodes, CodeRows

\* At the start no code is stored and nobody is at a count.
LEMMA SignInStart == SignInInit => SignInInv
<1> SUFFICES ASSUME SignInInit PROVE SignInInv
  OBVIOUS
<1> USE CountsAreNumbers
<1>1. StoredCodes = {} /\ RecentCodes = {} /\ RequestsUnderway = {}
  BY DEF SignInInit, StoredCodes, RecentCodes, RequestsUnderway
<1>2. SignInShaped
  BY DEF SignInInit, SignInShaped, SignInTypeOK, Resting
<1>3. RequestsLeaveSlack
  BY <1>1, FS_EmptySet DEF RequestsLeaveSlack
<1>4. QED
  BY <1>1, <1>2, <1>3 DEF SignInInv

-----------------------------------------------------------------------------
(* What leaves the counts alone.                                           *)

\* Fewer recent codes and fewer requests leave at least the slack there was.
LEMMA SlackIsKept ==
    ASSUME SignInInv, RecentCodes' \subseteq RecentCodes,
           RequestsUnderway' \subseteq RequestsUnderway
    PROVE  RequestsLeaveSlack'
<1>1. /\ IsFiniteSet(RecentCodes) /\ Cardinality(RecentCodes) \in Nat
      /\ IsFiniteSet(RequestsUnderway) /\ Cardinality(RequestsUnderway) \in Nat
  BY CountedSetsAreFinite DEF RecentCodes, RequestsUnderway, StoredCodes
<1>2. Cardinality(RecentCodes') <= Cardinality(RecentCodes) /\ Cardinality(RecentCodes') \in Nat
  BY <1>1, FewerCountLess, FS_Subset, FS_CardinalityType
<1>3. /\ Cardinality(RequestsUnderway') <= Cardinality(RequestsUnderway)
      /\ Cardinality(RequestsUnderway') \in Nat
  BY <1>1, FewerCountLess, FS_Subset, FS_CardinalityType
<1>4. QED
  BY <1>1, <1>2, <1>3, CountsAreNumbers DEF SignInInv, RequestsLeaveSlack

\* Codes that only age, are revoked or are forgotten stay sound.
LEMMA CodesStaySound ==
    ASSUME SignInInv, UNCHANGED attempts,
           \A c \in StoredCodes' :
             /\ c \in StoredCodes /\ (Spendable(c)' => Spendable(c))
             /\ codes'[c].guesses = codes[c].guesses
             /\ codes'[c].attempts = codes[c].attempts
             /\ codes'[c].consumed = codes[c].consumed
             /\ codes'[c].verified = codes[c].verified
             /\ codes'[c].direct = codes[c].direct
    PROVE  \A c \in StoredCodes' : CodeIsSound(c)'
<1> SUFFICES ASSUME NEW c \in StoredCodes' PROVE CodeIsSound(c)'
  OBVIOUS
<1>1. CodeIsSound(c)
  BY DEF SignInInv
<1>2. \A stage : At(stage, c)' = At(stage, c)
  BY DEF At, Holding
<1>3. QED
  BY <1>1, <1>2 DEF CodeIsSound

\* Attempts that move past no count leave the codes sound.
LEMMA AttemptsStaySound ==
    ASSUME SignInInv, NEW v \in Attempters, NEW row,
           attempts' = [attempts EXCEPT ![v] = row], attempts[v].at # "missed",
           row.at \notin {"missed", "verified"}, UNCHANGED codes
    PROVE  \A c \in StoredCodes' : CodeIsSound(c)'
<1> SUFFICES ASSUME NEW c \in StoredCodes PROVE CodeIsSound(c)'
  BY DEF StoredCodes
<1>1. CodeIsSound(c)
  BY DEF SignInInv
<1>2. \A w \in Attempters : attempts'[w] = IF w = v THEN row ELSE attempts[w]
  BY DEF SignInInv, SignInShaped
<1>3. At("missed", c)' = At("missed", c)
  BY <1>2 DEF At, Holding
<1>4. At("verified", c)' \subseteq At("verified", c)
  BY <1>2 DEF At, Holding
<1>5. Cardinality(At("verified", c)') <= Cardinality(At("verified", c))
  BY <1>4, StagesAreFinite, FewerCountLess
<1>6. Cardinality(At("verified", c)') \in Nat
  BY <1>4, StagesAreFinite, FS_Subset, FS_CardinalityType
<1>7. Spendable(c)' = Spendable(c)
  BY DEF Spendable
<1>8. QED
  BY <1>1, <1>3, <1>5, <1>6, <1>7, StagesAreFinite, RowsOfCodes DEF CodeIsSound

-----------------------------------------------------------------------------
(* Requests.                                                               *)

\* A count that leaves room is of codes fewer than the limit.
LEMMA CountKeepsInv ==
    ASSUME SignInInv, NEW r \in Requesters, CountRequests(r)
    PROVE  SignInInv'
<1>1. /\ ~(Cardinality(RecentCodes) >= Limit)
      /\ requesting' = [requesting EXCEPT ![r] = TRUE]
      /\ UNCHANGED <<codes, attempts, eligible>>
  BY DEF CountRequests, LimitReached, CountRecent, RecentCodes
<1>2. SignInShaped'
  BY <1>1 DEF SignInInv, SignInShaped, SignInTypeOK, StoredCodes
<1>3. RequestsLeaveSlack'
  <2>1. RecentCodes' = RecentCodes
    BY <1>1 DEF RecentCodes, StoredCodes
  <2>2. Cardinality(RecentCodes) \in Nat
    BY CountedSetsAreFinite DEF RecentCodes, StoredCodes
  <2>3. /\ Cardinality(RequestsUnderway') \in Nat
        /\ Cardinality(RequestsUnderway') <= Cardinality(Requesters)
    BY CountedSetsAreFinite DEF RequestsUnderway
  <2>4. QED
    BY <1>1, <2>1, <2>2, <2>3, CountsAreNumbers DEF RequestsLeaveSlack
<1>4. \A c \in StoredCodes' : CodeIsSound(c)'
  BY <1>1, CodesStaySound DEF StoredCodes, Spendable
<1>5. QED
  BY <1>2, <1>3, <1>4 DEF SignInInv

\* The code a request inserts takes the place of the request.
LEMMA RequestKeepsInv ==
    ASSUME SignInInv, NEW r \in Requesters, RequestAdultOTP(r)
    PROVE  SignInInv'
<1> USE CountsAreNumbers
<1> PICK c \in Codes \ StoredCodes : ~InUse(c) /\ codes' = [codes EXCEPT ![c] = NewCode]
  BY DEF RequestAdultOTP
<1>1. /\ requesting[r]
      /\ requesting' = [requesting EXCEPT ![r] = FALSE]
      /\ UNCHANGED <<attempts, eligible>>
  BY DEF RequestAdultOTP
<1>2. NewCode \in CodeRows /\ NewCode # NoCode
  <2>1. NewCode \in CodeRows
    BY DEF NewCode, CodeRows
  <2>2. QED
    BY <2>1, CodesAssumption
<1>3. \A d \in Codes : codes'[d] = IF d = c THEN NewCode ELSE codes[d]
  BY DEF SignInInv, SignInShaped, SignInTypeOK
<1>4. StoredCodes' = StoredCodes \cup {c}
  BY <1>2, <1>3 DEF StoredCodes
<1>5. SignInShaped'
  BY <1>1, <1>2, <1>4 DEF SignInInv, SignInShaped, SignInTypeOK
<1>6. RequestsLeaveSlack'
  <2>1. RecentCodes' \subseteq RecentCodes \cup {c}
    BY <1>3, <1>4 DEF RecentCodes
  <2>2. RequestsUnderway' = RequestsUnderway \ {r} /\ r \in RequestsUnderway
    BY <1>1 DEF SignInInv, SignInShaped, SignInTypeOK, RequestsUnderway
  <2>3. /\ IsFiniteSet(RecentCodes) /\ Cardinality(RecentCodes) \in Nat
        /\ IsFiniteSet(RequestsUnderway) /\ Cardinality(RequestsUnderway) \in Nat
        /\ IsFiniteSet(RecentCodes \cup {c}) /\ Cardinality(RecentCodes \cup {c}) \in Nat
    BY CountedSetsAreFinite, FS_AddElement, FS_CardinalityType
       DEF RecentCodes, RequestsUnderway, StoredCodes
  <2>4. /\ Cardinality(RecentCodes') <= Cardinality(RecentCodes \cup {c})
        /\ Cardinality(RecentCodes') \in Nat
    BY <2>1, <2>3, FewerCountLess, FS_Subset, FS_CardinalityType
  <2>5. Cardinality(RecentCodes \cup {c}) <= Cardinality(RecentCodes) + 1
    BY <2>3, OneMore
  <2>6. Cardinality(RequestsUnderway') = Cardinality(RequestsUnderway) - 1
    BY <2>2, <2>3, OneMore
  <2>7. QED
    BY <2>3, <2>4, <2>5, <2>6 DEF SignInInv, RequestsLeaveSlack
<1>7. \A d \in StoredCodes' : CodeIsSound(d)'
  <2> SUFFICES ASSUME NEW d \in StoredCodes' PROVE CodeIsSound(d)'
    OBVIOUS
  <2>1. \A stage : At(stage, d)' = At(stage, d)
    BY <1>1 DEF At, Holding
  <2>2. CASE d = c
    <3>1. \A stage : At(stage, c) = {}
      BY DEF At, Holding, InUse
    <3>2. codes'[d] = NewCode
      BY <1>3, <2>2
    <3>3. Cardinality(At("missed", d)') = 0 /\ Cardinality(At("verified", d)') = 0
      BY <2>1, <2>2, <3>1, FS_EmptySet
    <3>4. QED
      BY <3>2, <3>3 DEF CodeIsSound, NewCode
  <2>3. CASE d # c
    <3>1. CodeIsSound(d) /\ codes'[d] = codes[d]
      BY <1>3, <1>4, <2>3 DEF SignInInv, StoredCodes
    <3>2. QED
      BY <2>1, <3>1 DEF CodeIsSound, Spendable
  <2>4. QED
    BY <2>2, <2>3
<1>8. QED
  BY <1>5, <1>6, <1>7 DEF SignInInv

-----------------------------------------------------------------------------
(* Attempts.                                                               *)

\* The row of one stored code is rewritten, and one attempt moves.
LEMMA AttemptsAreShaped ==
    ASSUME SignInInv, NEW v \in Attempters, NEW c \in StoredCodes, NEW row \in CodeRows,
           codes' = [codes EXCEPT ![c] = row], row.age = codes[c].age,
           NEW move, attempts' = [attempts EXCEPT ![v] = move],
           \/ move = Resting
           \/ \E stage \in {"read", "verified", "missed"} :
                move = [at |-> stage, code |-> c],
           UNCHANGED <<requesting, eligible>>
    PROVE  SignInShaped' /\ RequestsLeaveSlack' /\ StoredCodes' = StoredCodes
<1>1. \A d \in Codes : codes'[d] = IF d = c THEN row ELSE codes[d]
  BY DEF SignInInv, SignInShaped, SignInTypeOK
<1>2. row # NoCode /\ c \in Codes
  BY CodesAssumption DEF StoredCodes
<1>3. StoredCodes' = StoredCodes
  BY <1>1, <1>2 DEF StoredCodes
<1>4. \A w \in Attempters : attempts'[w] = IF w = v THEN move ELSE attempts[w]
  BY DEF SignInInv, SignInShaped
<1>5. Resting.at = "resting"
  BY DEF Resting
<1>6. \A w \in Attempters : attempts'[w].at \in {"resting", "read", "verified", "missed"}
  <2>1. move.at \in {"resting", "read", "verified", "missed"}
    BY <1>5
  <2>2. QED
    BY <1>4, <2>1 DEF SignInInv, SignInShaped, SignInTypeOK
<1>7. SignInTypeOK'
  BY <1>6 DEF SignInInv, SignInShaped, SignInTypeOK
<1>8. SignInShaped'
  <2>1. \/ move = Resting
        \/ /\ move.at \in {"read", "verified", "missed"} /\ move.code \in StoredCodes
           /\ move = [at |-> move.at, code |-> move.code]
    OBVIOUS
  <2>2. QED
    BY <1>3, <1>4, <1>7, <2>1 DEF SignInInv, SignInShaped
<1>9. RecentCodes' \subseteq RecentCodes
  BY <1>1, <1>3 DEF RecentCodes, StoredCodes
<1>10. RequestsLeaveSlack'
  BY <1>9, SlackIsKept DEF RequestsUnderway
<1>11. QED
  BY <1>1, <1>3, <1>4, <1>8, <1>10

\* The codes that an attempt does not write stay sound, as long as it has not
\* come to their counts or leaves them.
LEMMA OtherCodesStaySound ==
    ASSUME SignInInv, NEW v \in Attempters, NEW c \in StoredCodes,
           attempts[v].code = c, attempts[v] # Resting,
           DOMAIN attempts' = Attempters,
           \A w \in Attempters \ {v} : attempts'[w] = attempts[w],
           attempts'[v].code = c \/ attempts'[v] = Resting,
           NEW d \in StoredCodes, d # c, codes'[d] = codes[d]
    PROVE  CodeIsSound(d)'
<1>1. d # NoCode
  BY CodesAssumption DEF StoredCodes
<1>2. \A stage : At(stage, d)' = At(stage, d)
  BY <1>1 DEF At, Holding, Resting
<1>3. QED
  BY <1>2 DEF SignInInv, CodeIsSound, Spendable

\* Who is at a stage of a code.
LEMMA WhoHolds ==
    ASSUME NEW table, NEW v \in Attempters, NEW c, NEW stage
    PROVE  /\ table[v].at # stage => v \notin Holding(table, stage, c)
           /\ table[v] = [at |-> stage, code |-> c] => v \in Holding(table, stage, c)
BY DEF Holding

\* Whoever is at another stage is not among those who missed.
LEMMA NotAllMissed ==
    ASSUME SignInInv, NEW v \in Attempters, NEW c, attempts[v].at = "read"
    PROVE  Cardinality(At("missed", c)) <= Cardinality(Attempters) - 1
<1>1. v \notin At("missed", c) /\ At("missed", c) \subseteq Attempters
  BY DEF At, Holding
<1>2. At("missed", c) \cup {v} \subseteq Attempters
  BY <1>1
<1>3. /\ Cardinality(At("missed", c) \cup {v}) <= Cardinality(Attempters)
      /\ Cardinality(At("missed", c) \cup {v}) = Cardinality(At("missed", c)) + 1
  BY <1>1, <1>2, CountedSetsAreFinite, StagesAreFinite, OneMore
<1>4. QED
  BY <1>3, StagesAreFinite, CountsAreNumbers

\* An attempt at a code knows its stage.
LEMMA AttemptsKnowTheirCode ==
    ASSUME SignInInv, NEW v \in Attempters, attempts[v].at # "resting"
    PROVE  /\ attempts[v].code \in StoredCodes /\ attempts[v] # Resting
           /\ attempts[v] = [at |-> attempts[v].at, code |-> attempts[v].code]
           /\ DOMAIN attempts = Attempters
BY DEF SignInInv, SignInShaped, Resting

\* A code is consumed by one comparison, for one purchase.
LEMMA ConsumeKeepsInv ==
    ASSUME SignInInv, NEW v \in Attempters, ConsumeAdultOTP(v)
    PROVE  SignInInv'
<1> USE CountsAreNumbers
<1> PICK c \in StoredCodes : c = attempts[v].code
  BY DEF ConsumeAdultOTP
<1> DEFINE row == [codes[c] EXCEPT !.consumed = TRUE, !.guesses = @ + 1, !.verified = @ + 1]
           move == [at |-> "verified", code |-> c]
<1>1. /\ attempts[v].at = "read"
      /\ Spendable(c) /\ codes[c].verified < MaxSessions
      /\ codes' = [codes EXCEPT ![c] = row]
      /\ attempts' = [attempts EXCEPT ![v] = move]
      /\ UNCHANGED <<requesting, eligible>>
  BY DEF ConsumeAdultOTP, Reach
<1>2. attempts[v] # Resting /\ attempts[v] = [at |-> "read", code |-> c]
  BY <1>1, AttemptsKnowTheirCode
<1>3. /\ codes[c] \in CodeRows /\ codes[c].attempts \in Nat /\ codes[c].guesses \in Nat
      /\ codes[c].direct \in Nat /\ codes[c].verified = 0
      /\ codes[c].guesses <= codes[c].attempts + Cardinality(At("missed", c))
      /\ codes[c].attempts <= MaxAttempts - 1
      /\ codes[c].direct + Cardinality(At("verified", c)) <= 0
  BY <1>1, RowsOfCodes DEF SignInInv, CodeIsSound, Spendable
<1>4. codes[c].guesses + 1 <= MaxAttempts + Cardinality(Attempters) - 1
  BY <1>1, <1>3, NotAllMissed, StagesAreFinite
<1>5. /\ row \in CodeRows /\ row.age = codes[c].age /\ row.consumed
      /\ row.guesses = codes[c].guesses + 1 /\ row.verified = 1 /\ row.direct = codes[c].direct
  <2>1. /\ codes[c].guesses + 1 \in 0..MaxAttempts + Cardinality(Attempters)
        /\ codes[c].verified + 1 \in 0..MaxSessions
    BY <1>1, <1>3, <1>4
  <2>2. row = [age |-> codes[c].age, attempts |-> codes[c].attempts, consumed |-> TRUE,
                  revoked |-> codes[c].revoked, guesses |-> codes[c].guesses + 1,
                  verified |-> codes[c].verified + 1, direct |-> codes[c].direct]
    <3> DEFINE old == codes[c]
    <3>1. DOMAIN old = {"age", "attempts", "consumed", "revoked", "guesses", "verified", "direct"}
      BY <1>3 DEF CodeRows
    <3>2. row = [old EXCEPT !.consumed = TRUE, !.guesses = old.guesses + 1,
                            !.verified = old.verified + 1]
      OBVIOUS
    <3> HIDE DEF old, row
    <3>3. row = [age |-> old.age, attempts |-> old.attempts, consumed |-> TRUE,
                 revoked |-> old.revoked, guesses |-> old.guesses + 1,
                 verified |-> old.verified + 1, direct |-> old.direct]
      BY <3>1, <3>2
    <3>4. QED
      BY <3>3 DEF old
  <2>3. row \in CodeRows
    <3>1. /\ codes[c].age \in 0..Oldest /\ codes[c].attempts \in 0..MaxAttempts
          /\ codes[c].revoked \in BOOLEAN /\ codes[c].direct \in 0..MaxSessions
      BY <1>3 DEF CodeRows
    <3> HIDE DEF row
    <3>2. QED
      BY <2>1, <2>2, <3>1 DEF CodeRows
  <2>4. QED
    BY <1>3, <2>2, <2>3
<1>6. /\ move.at = "verified" /\ move.code = c /\ move # Resting
      /\ move = [at |-> "verified", code |-> c]
  BY DEF Resting
<1> HIDE DEF row, move
<1>7. SignInShaped' /\ RequestsLeaveSlack' /\ StoredCodes' = StoredCodes
  <2>1. \E stage \in {"read", "verified", "missed"} : move = [at |-> stage, code |-> c]
    BY <1>6
  <2>2. QED
    BY <1>1, <1>5, <2>1, AttemptsAreShaped
<1>8. Cardinality(Holding(attempts', "verified", c))
        = Cardinality(Holding(attempts, "verified", c)) + 1
  <2>1. \A w \in Attempters : attempts'[w] = IF w = v THEN move ELSE attempts[w]
    BY <1>1 DEF SignInInv, SignInShaped
  <2>2. v \notin Holding(attempts, "verified", c)
    BY <1>1, WhoHolds
  <2>3. v \in Holding(attempts', "verified", c)
    BY <1>6, <2>1, WhoHolds
  <2>4. Holding(attempts', "verified", c) = Holding(attempts, "verified", c) \cup {v}
    BY <2>1, <2>2, <2>3 DEF Holding
  <2>5. IsFiniteSet(Holding(attempts, "verified", c))
    BY StagesAreFinite DEF At
  <2>6. QED
    BY <2>2, <2>4, <2>5, OneMore
<1>9. CodeIsSound(c)'
  <2>1. codes'[c] = row
    BY <1>1 DEF SignInInv, SignInShaped, SignInTypeOK, StoredCodes
  <2>2. QED
    BY <1>3, <1>4, <1>5, <1>8, <2>1, StagesAreFinite DEF CodeIsSound, Spendable, At
<1>10. \A d \in StoredCodes \ {c} : CodeIsSound(d)'
  <2> SUFFICES ASSUME NEW d \in StoredCodes, d # c
               PROVE  CodeIsSound(d)'
    OBVIOUS
  <2>1. /\ DOMAIN attempts' = Attempters
        /\ \A w \in Attempters : attempts'[w] = IF w = v THEN move ELSE attempts[w]
        /\ \A e \in Codes : codes'[e] = IF e = c THEN row ELSE codes[e]
    BY <1>1 DEF SignInInv, SignInShaped, SignInTypeOK
  <2>2. attempts'[v].code = c
    BY <1>6, <2>1
  <2>3. \A w \in Attempters \ {v} : attempts'[w] = attempts[w]
    BY <2>1
  <2>4. d \in Codes /\ codes'[d] = codes[d]
    BY <2>1 DEF StoredCodes
  <2>5. attempts[v].code = c /\ attempts[v] # Resting
    BY <1>2
  <2>6. QED
    BY <2>1, <2>2, <2>3, <2>4, <2>5, OtherCodesStaySound
<1>11. QED
  BY <1>7, <1>9, <1>10 DEF SignInInv

\* A wrong guess at a code that can be spent is on its way to be counted.
LEMMA MissKeepsInv ==
    ASSUME SignInInv, NEW v \in Attempters, MissAdultOTP(v)
    PROVE  SignInInv'
<1> USE CountsAreNumbers
<1>0. attempts[v].at = "read" /\ attempts[v].at # "resting"
  BY DEF MissAdultOTP
<1> PICK c \in StoredCodes : c = attempts[v].code
  BY <1>0, AttemptsKnowTheirCode
<1> DEFINE row == IF Spendable(c) THEN [codes[c] EXCEPT !.guesses = @ + 1] ELSE codes[c]
           move == [at |-> "missed", code |-> c]
<1>a. codes[c] \in CodeRows /\ c \in Codes /\ CodeIsSound(c)
  BY RowsOfCodes DEF SignInInv
<1>1. /\ codes' = [codes EXCEPT ![c] = row]
      /\ attempts' = [attempts EXCEPT ![v] = move]
      /\ UNCHANGED <<requesting, eligible>>
  <2>1. codes = [codes EXCEPT ![c] = codes[c]]
    BY DEF SignInInv, SignInShaped, SignInTypeOK
  <2>2. codes' = [codes EXCEPT ![c] = row]
    BY <2>1 DEF MissAdultOTP
  <2>3. QED
    BY <2>2 DEF MissAdultOTP, Reach
<1>2. attempts[v] # Resting /\ attempts[v] = [at |-> "read", code |-> c]
  BY <1>0, AttemptsKnowTheirCode
<1>3. Spendable(c) => codes[c].guesses + 1 <= MaxAttempts + Cardinality(Attempters) - 1
  <2>1. /\ Cardinality(At("missed", c)) <= Cardinality(Attempters) - 1
        /\ Cardinality(At("missed", c)) \in Nat
    BY <1>0, NotAllMissed, StagesAreFinite
  <2>2. QED
    BY <1>a, <2>1, RowsOfCodes DEF CodeIsSound, Spendable
<1>4. /\ row \in CodeRows /\ row.age = codes[c].age /\ row.consumed = codes[c].consumed
      /\ row.attempts = codes[c].attempts /\ row.revoked = codes[c].revoked
      /\ row.verified = codes[c].verified /\ row.direct = codes[c].direct
      /\ row.guesses = IF Spendable(c) THEN codes[c].guesses + 1 ELSE codes[c].guesses
  <2>1. Spendable(c) => codes[c].guesses + 1 \in 0..MaxAttempts + Cardinality(Attempters)
    BY <1>3, RowsOfCodes
  <2>2. CASE Spendable(c)
    BY <1>a, <2>1, <2>2 DEF CodeRows
  <2>3. CASE ~Spendable(c)
    BY <1>a, <2>3
  <2>4. QED
    BY <2>2, <2>3
<1>5. move = [at |-> "missed", code |-> c] /\ move.at = "missed" /\ move.code = c
  OBVIOUS
<1> HIDE DEF row, move
<1>6. SignInShaped' /\ RequestsLeaveSlack' /\ StoredCodes' = StoredCodes
  <2>1. \E stage \in {"read", "verified", "missed"} : move = [at |-> stage, code |-> c]
    BY <1>5
  <2>2. QED
    BY <1>1, <1>4, <2>1, AttemptsAreShaped
<1>7. \A w \in Attempters : attempts'[w] = IF w = v THEN move ELSE attempts[w]
  BY <1>1 DEF SignInInv, SignInShaped
<1>8. Cardinality(Holding(attempts', "missed", c))
        = Cardinality(Holding(attempts, "missed", c)) + 1
  <2>1. v \notin Holding(attempts, "missed", c)
    BY <1>0, WhoHolds
  <2>2. v \in Holding(attempts', "missed", c)
    BY <1>5, <1>7, WhoHolds
  <2>3. Holding(attempts', "missed", c) = Holding(attempts, "missed", c) \cup {v}
    BY <1>7, <2>1, <2>2 DEF Holding
  <2>4. IsFiniteSet(Holding(attempts, "missed", c))
    BY StagesAreFinite DEF At
  <2>5. QED
    BY <2>1, <2>3, <2>4, OneMore
<1>9. Holding(attempts', "verified", c) = Holding(attempts, "verified", c)
  <2>1. v \notin Holding(attempts, "verified", c)
    BY <1>0, WhoHolds
  <2>2. v \notin Holding(attempts', "verified", c)
    BY <1>5, <1>7, WhoHolds
  <2>3. QED
    BY <1>7, <2>1, <2>2 DEF Holding
<1>10. CodeIsSound(c)'
  <2>1. codes'[c] = row
    BY <1>1, <1>a DEF SignInInv, SignInShaped, SignInTypeOK
  <2>2. Spendable(c)' <=> Spendable(c)
    BY <1>4, <2>1 DEF Spendable
  <2>3. Cardinality(Holding(attempts, "missed", c)) \in Nat
    BY StagesAreFinite DEF At
  <2>4. QED
    BY <1>a, <1>3, <1>4, <1>8, <1>9, <2>1, <2>2, <2>3, RowsOfCodes DEF CodeIsSound, At
<1>11. \A d \in StoredCodes \ {c} : CodeIsSound(d)'
  <2> SUFFICES ASSUME NEW d \in StoredCodes, d # c
               PROVE  CodeIsSound(d)'
    OBVIOUS
  <2>1. /\ DOMAIN attempts' = Attempters
        /\ \A e \in Codes : codes'[e] = IF e = c THEN row ELSE codes[e]
    BY <1>1 DEF SignInInv, SignInShaped, SignInTypeOK
  <2>2. attempts'[v].code = c
    BY <1>5, <1>7
  <2>3. \A w \in Attempters \ {v} : attempts'[w] = attempts[w]
    BY <1>7
  <2>4. d \in Codes /\ codes'[d] = codes[d]
    BY <2>1 DEF StoredCodes
  <2>5. attempts[v].code = c /\ attempts[v] # Resting
    BY <1>2
  <2>6. QED
    BY <2>1, <2>2, <2>3, <2>4, <2>5, OtherCodesStaySound
<1>12. QED
  BY <1>6, <1>10, <1>11 DEF SignInInv

\* The count of a miss takes the place of the attempt that missed.
LEMMA IncrementKeepsInv ==
    ASSUME SignInInv, NEW v \in Attempters, IncrementAdultOTPAttempts(v)
    PROVE  SignInInv'
<1> USE CountsAreNumbers
<1>0. attempts[v].at = "missed" /\ attempts[v].at # "resting"
  BY DEF IncrementAdultOTPAttempts
<1> PICK c \in StoredCodes : c = attempts[v].code
  BY <1>0, AttemptsKnowTheirCode
<1> DEFINE row == IF Spendable(c) THEN [codes[c] EXCEPT !.attempts = @ + 1] ELSE codes[c]
<1>a. codes[c] \in CodeRows /\ c \in Codes /\ CodeIsSound(c)
  BY RowsOfCodes DEF SignInInv
<1>1. /\ codes' = [codes EXCEPT ![c] = row]
      /\ attempts' = [attempts EXCEPT ![v] = Resting]
      /\ UNCHANGED <<requesting, eligible>>
  <2>1. codes = [codes EXCEPT ![c] = codes[c]]
    BY DEF SignInInv, SignInShaped, SignInTypeOK
  <2>2. codes' = [codes EXCEPT ![c] = row]
    BY <2>1 DEF IncrementAdultOTPAttempts
  <2>3. QED
    BY <2>2 DEF IncrementAdultOTPAttempts
<1>2. attempts[v] # Resting /\ attempts[v] = [at |-> "missed", code |-> c]
  BY <1>0, AttemptsKnowTheirCode
<1>3. /\ row \in CodeRows /\ row.age = codes[c].age /\ row.consumed = codes[c].consumed
      /\ row.guesses = codes[c].guesses /\ row.revoked = codes[c].revoked
      /\ row.verified = codes[c].verified /\ row.direct = codes[c].direct
      /\ row.attempts = IF Spendable(c) THEN codes[c].attempts + 1 ELSE codes[c].attempts
  <2>1. Spendable(c) => codes[c].attempts + 1 \in 0..MaxAttempts
    BY RowsOfCodes DEF Spendable
  <2>2. CASE Spendable(c)
    BY <1>a, <2>1, <2>2 DEF CodeRows
  <2>3. CASE ~Spendable(c)
    BY <1>a, <2>3
  <2>4. QED
    BY <2>2, <2>3
<1>4. Resting.at = "resting"
  BY DEF Resting
<1> HIDE DEF row
<1>5. SignInShaped' /\ RequestsLeaveSlack' /\ StoredCodes' = StoredCodes
  BY <1>1, <1>3, AttemptsAreShaped
<1>6. \A w \in Attempters : attempts'[w] = IF w = v THEN Resting ELSE attempts[w]
  BY <1>1 DEF SignInInv, SignInShaped
<1>7. Cardinality(Holding(attempts', "missed", c))
        = Cardinality(Holding(attempts, "missed", c)) - 1
  <2>1. v \in Holding(attempts, "missed", c)
    BY <1>2, WhoHolds
  <2>2. v \notin Holding(attempts', "missed", c)
    BY <1>4, <1>6, WhoHolds
  <2>3. Holding(attempts', "missed", c) = Holding(attempts, "missed", c) \ {v}
    BY <1>6, <2>1, <2>2 DEF Holding
  <2>4. IsFiniteSet(Holding(attempts, "missed", c))
    BY StagesAreFinite DEF At
  <2>5. QED
    BY <2>1, <2>3, <2>4, OneMore
<1>8. Holding(attempts', "verified", c) = Holding(attempts, "verified", c)
  <2>1. v \notin Holding(attempts, "verified", c)
    BY <1>0, WhoHolds
  <2>2. v \notin Holding(attempts', "verified", c)
    BY <1>4, <1>6, WhoHolds
  <2>3. QED
    BY <1>6, <2>1, <2>2 DEF Holding
<1>9. CodeIsSound(c)'
  <2>1. codes'[c] = row
    BY <1>1, <1>a DEF SignInInv, SignInShaped, SignInTypeOK
  <2>2. Spendable(c)' => Spendable(c) /\ codes'[c].attempts = codes[c].attempts + 1
    BY <1>3, <2>1 DEF Spendable
  <2>3. Cardinality(Holding(attempts, "missed", c)) \in Nat
    BY StagesAreFinite DEF At
  <2>4. Spendable(c)' =>
          codes'[c].guesses <= codes'[c].attempts + Cardinality(Holding(attempts', "missed", c))
    BY <1>a, <1>3, <1>7, <2>1, <2>2, <2>3, RowsOfCodes DEF CodeIsSound, At
  <2>5. QED
    BY <1>a, <1>3, <1>8, <2>1, <2>4 DEF CodeIsSound, At
<1>10. \A d \in StoredCodes \ {c} : CodeIsSound(d)'
  <2> SUFFICES ASSUME NEW d \in StoredCodes, d # c
               PROVE  CodeIsSound(d)'
    OBVIOUS
  <2>1. /\ DOMAIN attempts' = Attempters
        /\ \A e \in Codes : codes'[e] = IF e = c THEN row ELSE codes[e]
    BY <1>1 DEF SignInInv, SignInShaped, SignInTypeOK
  <2>2. attempts'[v] = Resting
    BY <1>6
  <2>3. \A w \in Attempters \ {v} : attempts'[w] = attempts[w]
    BY <1>6
  <2>4. d \in Codes /\ codes'[d] = codes[d]
    BY <2>1 DEF StoredCodes
  <2>5. attempts[v].code = c /\ attempts[v] # Resting
    BY <1>2
  <2>6. QED
    BY <2>1, <2>2, <2>3, <2>4, <2>5, OtherCodesStaySound
<1>11. QED
  BY <1>5, <1>9, <1>10 DEF SignInInv

\* The session takes the place of the attempt that verified.
LEMMA SessionKeepsInv ==
    ASSUME SignInInv, NEW v \in Attempters, createGuardianSession(v)
    PROVE  SignInInv'
<1> USE CountsAreNumbers
<1>0. attempts[v].at = "verified" /\ attempts[v].at # "resting"
  BY DEF createGuardianSession
<1> PICK c \in StoredCodes : c = attempts[v].code
  BY <1>0, AttemptsKnowTheirCode
<1> DEFINE row == [codes[c] EXCEPT !.direct = @ + 1]
<1>a. codes[c] \in CodeRows /\ c \in Codes /\ CodeIsSound(c)
  BY RowsOfCodes DEF SignInInv
<1>1. /\ codes' = [codes EXCEPT ![c] = row]
      /\ attempts' = [attempts EXCEPT ![v] = Resting]
      /\ UNCHANGED <<requesting, eligible>>
  BY DEF createGuardianSession
<1>2. attempts[v] # Resting /\ attempts[v] = [at |-> "verified", code |-> c]
  BY <1>0, AttemptsKnowTheirCode
<1>4. Resting.at = "resting"
  BY DEF Resting
<1>6. \A w \in Attempters : attempts'[w] = IF w = v THEN Resting ELSE attempts[w]
  BY <1>1 DEF SignInInv, SignInShaped
<1>7. /\ Cardinality(Holding(attempts', "verified", c))
           = Cardinality(Holding(attempts, "verified", c)) - 1
      /\ Cardinality(Holding(attempts', "verified", c)) \in Nat
      /\ Cardinality(Holding(attempts, "verified", c)) \in Nat
  <2>1. v \in Holding(attempts, "verified", c)
    BY <1>2, WhoHolds
  <2>2. v \notin Holding(attempts', "verified", c)
    BY <1>4, <1>6, WhoHolds
  <2>3. Holding(attempts', "verified", c) = Holding(attempts, "verified", c) \ {v}
    BY <1>6, <2>1, <2>2 DEF Holding
  <2>4. IsFiniteSet(Holding(attempts, "verified", c))
    BY StagesAreFinite DEF At
  <2>5. /\ Cardinality(Holding(attempts', "verified", c)) \in Nat
        /\ Cardinality(Holding(attempts, "verified", c)) \in Nat
    BY CountedSetsAreFinite DEF Holding
  <2>6. QED
    BY <2>1, <2>3, <2>4, <2>5, OneMore
<1>3. /\ row \in CodeRows /\ row.age = codes[c].age /\ row.consumed = codes[c].consumed
      /\ row.guesses = codes[c].guesses /\ row.revoked = codes[c].revoked
      /\ row.verified = codes[c].verified /\ row.direct = codes[c].direct + 1
      /\ row.attempts = codes[c].attempts
  <2>1. codes[c].direct + 1 \in 0..MaxSessions
    BY <1>a, <1>7, RowsOfCodes DEF CodeIsSound, At
  <2>2. QED
    BY <1>a, <2>1 DEF CodeRows
<1> HIDE DEF row
<1>5. SignInShaped' /\ RequestsLeaveSlack' /\ StoredCodes' = StoredCodes
  BY <1>1, <1>3, AttemptsAreShaped
<1>8. Holding(attempts', "missed", c) = Holding(attempts, "missed", c)
  <2>1. v \notin Holding(attempts, "missed", c)
    BY <1>0, WhoHolds
  <2>2. v \notin Holding(attempts', "missed", c)
    BY <1>4, <1>6, WhoHolds
  <2>3. QED
    BY <1>6, <2>1, <2>2 DEF Holding
<1>9. CodeIsSound(c)'
  <2>1. codes'[c] = row
    BY <1>1, <1>a DEF SignInInv, SignInShaped, SignInTypeOK
  <2>2. Spendable(c)' <=> Spendable(c)
    BY <1>3, <2>1 DEF Spendable
  <2>3. codes'[c].direct + Cardinality(Holding(attempts', "verified", c)) <= codes'[c].verified
    BY <1>a, <1>3, <1>7, <2>1, RowsOfCodes DEF CodeIsSound, At
  <2>4. QED
    BY <1>a, <1>3, <1>8, <2>1, <2>2, <2>3 DEF CodeIsSound, At
<1>10. \A d \in StoredCodes \ {c} : CodeIsSound(d)'
  <2> SUFFICES ASSUME NEW d \in StoredCodes, d # c
               PROVE  CodeIsSound(d)'
    OBVIOUS
  <2>1. /\ DOMAIN attempts' = Attempters
        /\ \A e \in Codes : codes'[e] = IF e = c THEN row ELSE codes[e]
    BY <1>1 DEF SignInInv, SignInShaped, SignInTypeOK
  <2>2. attempts'[v] = Resting
    BY <1>6
  <2>3. \A w \in Attempters \ {v} : attempts'[w] = attempts[w]
    BY <1>6
  <2>4. d \in Codes /\ codes'[d] = codes[d]
    BY <2>1 DEF StoredCodes
  <2>5. attempts[v].code = c /\ attempts[v] # Resting
    BY <1>2
  <2>6. QED
    BY <2>1, <2>2, <2>3, <2>4, <2>5, OtherCodesStaySound
<1>11. QED
  BY <1>5, <1>9, <1>10 DEF SignInInv

-----------------------------------------------------------------------------
(* The invariant.                                                          *)

\* A look-up, and the end of an attempt, come to no count.
LEMMA LookupKeepsInv ==
    ASSUME SignInInv, NEW v \in Attempters, GetAdultOTPByHash(v)
    PROVE  SignInInv'
<1> PICK c \in StoredCodes : Reach(v, "read", c)
  BY DEF GetAdultOTPByHash
<1> DEFINE move == [at |-> "read", code |-> c]
<1>1. /\ attempts[v].at = "resting"
      /\ attempts' = [attempts EXCEPT ![v] = move]
      /\ UNCHANGED <<codes, requesting, eligible>>
  <2>1. attempts[v] = Resting /\ UNCHANGED <<codes, requesting, eligible>>
    BY DEF GetAdultOTPByHash
  <2>2. Resting.at = "resting"
    BY DEF Resting
  <2>3. attempts' = [attempts EXCEPT ![v] = move]
    BY DEF Reach
  <2>4. QED
    BY <2>1, <2>2, <2>3
<1>2. move = [at |-> "read", code |-> c] /\ move.at = "read"
  OBVIOUS
<1> HIDE DEF move
<1>3. SignInShaped' /\ RequestsLeaveSlack'
  <2>1. \E stage \in {"read", "verified", "missed"} : move = [at |-> stage, code |-> c]
    BY <1>2
  <2>2. codes[c] \in CodeRows /\ codes' = [codes EXCEPT ![c] = codes[c]]
    BY <1>1, RowsOfCodes DEF SignInInv, SignInShaped, SignInTypeOK
  <2>3. QED
    BY <1>1, <2>1, <2>2, AttemptsAreShaped
<1>4. \A d \in StoredCodes' : CodeIsSound(d)'
  BY <1>1, <1>2, AttemptsStaySound
<1>5. QED
  BY <1>3, <1>4 DEF SignInInv

\* An attempt that ends before a miss leaves every count as it is.
LEMMA EndKeepsInv ==
    ASSUME SignInInv, NEW v \in Attempters, EndAttempt(v)
    PROVE  SignInInv'
<1>1. /\ attempts[v].at \in {"read", "verified"}
      /\ attempts' = [attempts EXCEPT ![v] = Resting]
      /\ UNCHANGED <<codes, requesting, eligible>>
  BY DEF EndAttempt
<1>2. Resting.at = "resting"
  BY DEF Resting
<1>3. SignInShaped' /\ RequestsLeaveSlack'
  <2> PICK c \in StoredCodes : c = attempts[v].code
    BY <1>1, AttemptsKnowTheirCode
  <2>1. codes[c] \in CodeRows /\ codes' = [codes EXCEPT ![c] = codes[c]]
    BY <1>1, RowsOfCodes DEF SignInInv, SignInShaped, SignInTypeOK
  <2>2. QED
    BY <1>1, <2>1, AttemptsAreShaped
<1>4. \A d \in StoredCodes' : CodeIsSound(d)'
  BY <1>1, <1>2, AttemptsStaySound
<1>5. QED
  BY <1>3, <1>4 DEF SignInInv

\* A request that fails gives its place back.
LEMMA FailureKeepsInv ==
    ASSUME SignInInv, NEW r \in Requesters, RequestFails(r)
    PROVE  SignInInv'
<1>1. /\ requesting' = [requesting EXCEPT ![r] = FALSE]
      /\ UNCHANGED <<codes, attempts, eligible>>
  BY DEF RequestFails
<1>2. SignInShaped'
  BY <1>1 DEF SignInInv, SignInShaped, SignInTypeOK, StoredCodes
<1>3. RequestsLeaveSlack'
  <2>1. RecentCodes' = RecentCodes
    BY <1>1 DEF RecentCodes, StoredCodes
  <2>2. RequestsUnderway' \subseteq RequestsUnderway
    BY <1>1 DEF SignInInv, SignInShaped, SignInTypeOK, RequestsUnderway
  <2>3. QED
    BY <2>1, <2>2, SlackIsKept
<1>4. \A c \in StoredCodes' : CodeIsSound(c)'
  BY <1>1, CodesStaySound DEF StoredCodes, Spendable
<1>5. QED
  BY <1>2, <1>3, <1>4 DEF SignInInv

\* Who is related to the guardian, revocation, and time, change no count and
\* make no code spendable again.
LEMMA ContextsKeepInv ==
    ASSUME SignInInv, FindGuardianLoginContexts
    PROVE  SignInInv'
<1>1. eligible' \in SUBSET Contexts /\ UNCHANGED <<codes, requesting, attempts>>
  BY DEF FindGuardianLoginContexts
<1>2. SignInShaped'
  BY <1>1 DEF SignInInv, SignInShaped, SignInTypeOK, StoredCodes
<1>3. RequestsLeaveSlack'
  BY <1>1 DEF SignInInv, RequestsLeaveSlack, RecentCodes, RequestsUnderway, StoredCodes
<1>4. \A c \in StoredCodes' : CodeIsSound(c)'
  BY <1>1, CodesStaySound DEF StoredCodes, Spendable
<1>5. QED
  BY <1>2, <1>3, <1>4 DEF SignInInv

\* Revoking the codes (RevokeGuardianSessionsAndOTPs) makes none spendable.
LEMMA RevocationKeepsInv ==
    ASSUME SignInInv, RevokeGuardianSessionsAndOTPs
    PROVE  SignInInv'
<1>1. UNCHANGED requesting /\ UNCHANGED attempts /\ UNCHANGED eligible
  BY DEF RevokeGuardianSessionsAndOTPs
<1>2. \A c \in StoredCodes :
        /\ codes'[c] = [codes[c] EXCEPT !.revoked = TRUE]
        /\ codes'[c] \in CodeRows /\ codes'[c].revoked = TRUE
        /\ codes'[c].age = codes[c].age /\ codes'[c].guesses = codes[c].guesses
        /\ codes'[c].attempts = codes[c].attempts /\ codes'[c].consumed = codes[c].consumed
        /\ codes'[c].verified = codes[c].verified /\ codes'[c].direct = codes[c].direct
  <2> SUFFICES ASSUME NEW c \in StoredCodes
               PROVE  /\ codes'[c] = [codes[c] EXCEPT !.revoked = TRUE]
                      /\ codes'[c] \in CodeRows /\ codes'[c].revoked = TRUE
                      /\ codes'[c].age = codes[c].age /\ codes'[c].guesses = codes[c].guesses
                      /\ codes'[c].attempts = codes[c].attempts
                      /\ codes'[c].consumed = codes[c].consumed
                      /\ codes'[c].verified = codes[c].verified
                      /\ codes'[c].direct = codes[c].direct
    OBVIOUS
  <2>1. codes[c] \in CodeRows /\ c \in Codes
    BY RowsOfCodes
  <2>2. codes'[c] = [codes[c] EXCEPT !.revoked = TRUE]
    BY <2>1 DEF RevokeGuardianSessionsAndOTPs
  <2>3. QED
    BY <2>1, <2>2 DEF CodeRows
<1>3. \A c \in Codes \ StoredCodes : codes'[c] = NoCode
  BY DEF RevokeGuardianSessionsAndOTPs
<1>4. StoredCodes' = StoredCodes
  <2>1. \A c \in StoredCodes : codes'[c] # NoCode /\ c \in Codes
    BY <1>2, CodesAssumption DEF StoredCodes
  <2>2. QED
    BY <1>3, <2>1 DEF StoredCodes
<1>5. SignInShaped'
  <2>1. codes' \in [Codes -> CodeRows \cup {NoCode}]
    BY <1>2, <1>3 DEF RevokeGuardianSessionsAndOTPs
  <2>2. QED
    BY <1>1, <1>4, <2>1 DEF SignInInv, SignInShaped, SignInTypeOK
<1>6. RequestsLeaveSlack'
  <2>1. RecentCodes' \subseteq RecentCodes
    BY <1>2, <1>4 DEF RecentCodes
  <2>2. QED
    BY <1>1, <2>1, SlackIsKept DEF RequestsUnderway
<1>7. \A c \in StoredCodes' : CodeIsSound(c)'
  <2>1. \A c \in StoredCodes' : c \in StoredCodes /\ (Spendable(c)' => Spendable(c))
    BY <1>2, <1>4 DEF Spendable
  <2>2. QED
    BY <1>1, <1>2, <2>1, CodesStaySound
<1>8. QED
  BY <1>5, <1>6, <1>7 DEF SignInInv

\* Time makes no code spendable and no code recent.
LEMMA TickKeepsInv ==
    ASSUME SignInInv, SignInTick
    PROVE  SignInInv'
<1> USE CountsAreNumbers
<1>1. UNCHANGED requesting /\ UNCHANGED attempts /\ UNCHANGED eligible
  BY DEF SignInTick
<1>2. \A c \in StoredCodes :
        /\ codes'[c] \in CodeRows /\ codes'[c].revoked = codes[c].revoked
        /\ codes'[c].age >= codes[c].age /\ codes'[c].guesses = codes[c].guesses
        /\ codes'[c].attempts = codes[c].attempts /\ codes'[c].consumed = codes[c].consumed
        /\ codes'[c].verified = codes[c].verified /\ codes'[c].direct = codes[c].direct
  <2> SUFFICES ASSUME NEW c \in StoredCodes
               PROVE  /\ codes'[c] \in CodeRows /\ codes'[c].revoked = codes[c].revoked
                      /\ codes'[c].age >= codes[c].age /\ codes'[c].guesses = codes[c].guesses
                      /\ codes'[c].attempts = codes[c].attempts
                      /\ codes'[c].consumed = codes[c].consumed
                      /\ codes'[c].verified = codes[c].verified
                      /\ codes'[c].direct = codes[c].direct
    OBVIOUS
  <2>1. codes[c] \in CodeRows /\ c \in Codes /\ codes[c].age \in 0..Oldest
    BY RowsOfCodes DEF CodeRows
  <2>2. CASE codes[c].age < Oldest
    <3>1. codes'[c] = [codes[c] EXCEPT !.age = @ + 1]
      BY <2>1, <2>2 DEF SignInTick
    <3>2. codes[c].age + 1 \in 0..Oldest
      BY <2>1, <2>2
    <3>3. QED
      BY <2>1, <3>1, <3>2 DEF CodeRows
  <2>3. CASE ~(codes[c].age < Oldest)
    <3>1. codes'[c] = codes[c]
      BY <2>1, <2>3 DEF SignInTick
    <3>2. QED
      BY <2>1, <3>1
  <2>4. QED
    BY <2>2, <2>3
<1>3. \A c \in Codes \ StoredCodes : codes'[c] = NoCode
  BY DEF SignInTick, StoredCodes
<1>4. StoredCodes' = StoredCodes
  <2>1. \A c \in StoredCodes : codes'[c] # NoCode /\ c \in Codes
    BY <1>2, CodesAssumption DEF StoredCodes
  <2>2. QED
    BY <1>3, <2>1 DEF StoredCodes
<1>5. SignInShaped'
  <2>1. codes' \in [Codes -> CodeRows \cup {NoCode}]
    BY <1>2, <1>3 DEF SignInTick
  <2>2. QED
    BY <1>1, <1>4, <2>1 DEF SignInInv, SignInShaped, SignInTypeOK
<1>6. \A c \in StoredCodes : codes[c].age \in Nat /\ codes'[c].age \in Nat
  BY <1>2 , RowsOfCodes DEF CodeRows
<1>7. RequestsLeaveSlack'
  <2>1. RecentCodes' \subseteq RecentCodes
    BY <1>2, <1>4, <1>6 DEF RecentCodes
  <2>2. QED
    BY <1>1, <2>1, SlackIsKept DEF RequestsUnderway
<1>8. \A c \in StoredCodes' : CodeIsSound(c)'
  <2>1. \A c \in StoredCodes' : c \in StoredCodes /\ (Spendable(c)' => Spendable(c))
    BY <1>2, <1>4, <1>6 DEF Spendable
  <2>2. QED
    BY <1>1, <1>2, <2>1, CodesStaySound
<1>9. QED
  BY <1>5, <1>7, <1>8 DEF SignInInv

\* No attempt is about a code that is forgotten.
LEMMA ForgettingKeepsInv ==
    ASSUME SignInInv, NEW c \in Codes, Forget(c)
    PROVE  SignInInv'
<1>1. /\ codes' = [codes EXCEPT ![c] = NoCode] /\ ~InUse(c)
      /\ UNCHANGED <<requesting, attempts, eligible>>
  BY DEF Forget
<1>2. \A d \in Codes : codes'[d] = IF d = c THEN NoCode ELSE codes[d]
  BY <1>1 DEF SignInInv, SignInShaped, SignInTypeOK
<1>3. StoredCodes' = StoredCodes \ {c}
  BY <1>2 DEF StoredCodes
<1>4. SignInShaped'
  BY <1>1, <1>3 DEF SignInInv, SignInShaped, SignInTypeOK, InUse
<1>5. RequestsLeaveSlack'
  <2>1. RecentCodes' \subseteq RecentCodes
    BY <1>2, <1>3 DEF RecentCodes, StoredCodes
  <2>2. QED
    BY <1>1, <2>1, SlackIsKept DEF RequestsUnderway
<1>6. \A d \in StoredCodes' : CodeIsSound(d)'
  <2>1. \A d \in StoredCodes' : d \in StoredCodes /\ codes'[d] = codes[d]
    BY <1>2, <1>3 DEF StoredCodes
  <2>2. QED
    BY <1>1, <2>1, CodesStaySound DEF Spendable
<1>7. QED
  BY <1>4, <1>5, <1>6 DEF SignInInv

\* Every step keeps the invariant.
LEMMA SignInStep == SignInInv /\ [SignInNext]_signInVars => SignInInv'
<1> SUFFICES ASSUME SignInInv, [SignInNext]_signInVars PROVE SignInInv'
  OBVIOUS
<1>1. ASSUME NEW r \in Requesters,
             CountRequests(r) \/ RequestAdultOTP(r) \/ RequestFails(r)
      PROVE  SignInInv'
  BY <1>1, CountKeepsInv, RequestKeepsInv, FailureKeepsInv
<1>2. ASSUME NEW v \in Attempters,
             \/ GetAdultOTPByHash(v) \/ ConsumeAdultOTP(v) \/ MissAdultOTP(v)
             \/ IncrementAdultOTPAttempts(v) \/ createGuardianSession(v) \/ EndAttempt(v)
      PROVE  SignInInv'
  BY <1>2, LookupKeepsInv, ConsumeKeepsInv, MissKeepsInv, IncrementKeepsInv,
     SessionKeepsInv, EndKeepsInv
<1>3. CASE FindGuardianLoginContexts
  BY <1>3, ContextsKeepInv
<1>4. CASE RevokeGuardianSessionsAndOTPs
  BY <1>4, RevocationKeepsInv
<1>5. CASE SignInTick
  BY <1>5, TickKeepsInv
<1>6. ASSUME NEW c \in Codes, Forget(c) PROVE SignInInv'
  BY <1>6, ForgettingKeepsInv
<1>7. CASE UNCHANGED signInVars
  <2>1. SignInShaped'
    BY <1>7 DEF signInVars, SignInInv, SignInShaped, SignInTypeOK, StoredCodes
  <2>2. RequestsLeaveSlack'
    BY <1>7 DEF signInVars, SignInInv, RequestsLeaveSlack, RecentCodes, RequestsUnderway,
       StoredCodes
  <2>3. \A c \in StoredCodes' : CodeIsSound(c)'
    BY <1>7, CodesStaySound DEF signInVars, StoredCodes, Spendable
  <2>4. QED
    BY <2>1, <2>2, <2>3 DEF SignInInv
<1>8. QED
  BY <1>1, <1>2, <1>3, <1>4, <1>5, <1>6, <1>7 DEF SignInNext

\* Sign-in keeps its invariant (every handler of a one-time code).
THEOREM SignInInvariant == SignInSpec => []SignInInv
BY SignInStart, SignInStep, PTL DEF SignInSpec

\* However requests overlap, the codes sent within a window exceed the limit by
\* less than there are requesters (RequestAdultOTP).
THEOREM RequestsAreLimited == SignInSpec => []RequestLimitSlack
<1>1. SignInInv => RequestLimitSlack
  <2> SUFFICES ASSUME SignInInv PROVE RequestLimitSlack
    OBVIOUS
  <2>1. CountRecent = Cardinality(RecentCodes)
    BY DEF CountRecent, RecentCodes
  <2>2. Cardinality(RecentCodes) \in Nat /\ Cardinality(RequestsUnderway) \in Nat
    BY CountedSetsAreFinite DEF RecentCodes, RequestsUnderway, StoredCodes
  <2>3. QED
    BY <2>1, <2>2, CountsAreNumbers DEF SignInInv, RequestsLeaveSlack, RequestLimitSlack
<1>2. QED
  BY <1>1, SignInInvariant, PTL

\* However attempts overlap, a code is compared with fewer guesses more than it
\* may be than there are attempters (VerifyAdultOTP).
THEOREM GuessesAreBounded == SignInSpec => []GuessesStayBounded
<1>1. SignInInv => GuessesStayBounded
  BY DEF SignInInv, CodeIsSound, GuessesStayBounded
<1>2. QED
  BY <1>1, SignInInvariant, PTL

\* A code signs in once, though its session is created in another transaction
\* than the one that consumed it (VerifyAdultOTP).
THEOREM OneSignInPerCode == SignInSpec => []CodesSignInOnce
<1>1. SignInInv => CodesSignInOnce
  <2> SUFFICES ASSUME SignInInv, NEW c \in StoredCodes
               PROVE  codes[c].verified <= 1 /\ codes[c].direct <= 1
    BY DEF CodesSignInOnce
  <2>1. Cardinality(At("verified", c)) \in Nat
    BY StagesAreFinite
  <2>2. QED
    BY <2>1, RowsOfCodes DEF SignInInv, CodeIsSound
<1>2. QED
  BY <1>1, SignInInvariant, PTL

-----------------------------------------------------------------------------
(* Who administers the organization.                                       *)

RequestRows ==
    {Idle, Authorized}
      \cup [at : {"invite"}, target : Accounts, token : {NoInvitation}, role : OrganizationRoles]
      \cup [at : {"resend", "revoke", "role", "remove"}, target : MemberIds,
            token : Invitations \cup {NoInvitation}, role : OrganizationRoles]

\* Every request and claim knows what it is about, and a claim is of the row of
\* the one who claims, as long as that row is there.
AdministrationShaped ==
    /\ AdministratorsTypeOK
    /\ requests \in [Accounts -> RequestRows]
    /\ DOMAIN claims = Accounts
    /\ \A a \in Accounts :
         claims[a] # Idle =>
           /\ claims[a].at = "read"
           /\ claims[a].member \in MemberIds
           /\ \/ claims[a].member \in MembershipsOf(a)
              \/ members[claims[a].member] = DeletedMember

\* A request that takes the ownership of a row away, or the row.
Demotes(a) ==
    \/ requests[a].at = "remove"
    \/ requests[a].at = "role" /\ requests[a].role # "owner"

OwnRows(a) == {m \in ClaimedBy(a) : members[m].role = "owner"}

\* Requests one at a time: who administers owns, and another owner is left to
\* each request that was let through.
SerialRequests ==
    ~overlapped =>
      /\ \A a, b \in Accounts : requests[a] # Idle /\ requests[b] # Idle => a = b
      /\ \A a \in Accounts :
           /\ requests[a] # Idle => OwnRows(a) # {}
           /\ Demotes(a) => Owners \ {requests[a].target} # {}

\* The inductive invariant.
AdministratorsInv ==
    /\ AdministrationShaped
    /\ SerialRequests
    /\ SerialAdministrationKeepsAnOwner

\* Idle is no stage of a request.
LEMMA RequestsAreTold ==
    /\ Idle.at = "idle" /\ Authorized.at = "authorized" /\ Idle # Authorized
    /\ \A row \in RequestRows :
         /\ row.at = "idle" <=> row = Idle
         /\ row.at = "invite" => row.target \in Accounts /\ row.role \in OrganizationRoles
         /\ row.at \in {"resend", "revoke", "role", "remove"} =>
              /\ row.target \in MemberIds
              /\ row.token \in Invitations \cup {NoInvitation}
              /\ row.role \in OrganizationRoles
BY DEF RequestRows, Idle, Authorized

\* At the start the founders own the organization and nothing is under way.
LEMMA AdministratorsStart == AdministratorsInit => AdministratorsInv
<1> SUFFICES ASSUME AdministratorsInit PROVE AdministratorsInv
  OBVIOUS
<1> DEFINE row(m) == [who |-> m, claimed |-> TRUE, role |-> "owner", token |-> NoInvitation]
<1>1. \A m \in Founders : row(m) \in MemberRows
  BY FoundersAssumption DEF MemberRows, OrganizationRoles
<1>2. \A m \in MemberIds : members[m] = IF m \in Founders THEN row(m) ELSE NoRow
  BY DEF AdministratorsInit
<1>3. Owners # {}
  <2> PICK m \in Founders : m \in MemberIds
    BY FoundersAssumption
  <2>1. members[m] = row(m) /\ members[m] \in MemberRows
    BY <1>1, <1>2
  <2>2. m \in Owners
    BY <2>1, RowsAssumption DEF Owners, IssuedIds
  <2>3. QED
    BY <2>2
<1>4. \A a \in Accounts : requests[a] = Idle /\ claims[a] = Idle
  BY DEF AdministratorsInit
<1>5. AdministratorsTypeOK
  <2>1. members \in [MemberIds -> MemberRows \cup {NoRow, DeletedMember}]
    BY <1>1 DEF AdministratorsInit
  <2>2. \A m \in IssuedIds : members[m].claimed => members[m].token = NoInvitation
    <3> TAKE m \in IssuedIds
    <3>1. m \in MemberIds /\ members[m] # NoRow
      BY DEF IssuedIds
    <3>2. members[m] = row(m)
      BY <1>2, <3>1
    <3>3. QED
      BY <3>2
  <2>3. QED
    BY <1>4, <2>1, <2>2, RequestsAreTold DEF AdministratorsInit, AdministratorsTypeOK
<1>6. AdministrationShaped
  BY <1>4, <1>5 DEF AdministratorsInit, AdministrationShaped, RequestRows
<1>7. SerialRequests
  BY <1>4, RequestsAreTold DEF SerialRequests, Demotes
<1>8. QED
  BY <1>3, <1>6, <1>7 DEF AdministratorsInv, SerialAdministrationKeepsAnOwner

-----------------------------------------------------------------------------
(* What happens to requests alone.                                         *)

\* A request moves on, or ends, and the rows stay.
LEMMA RequestsMove ==
    ASSUME AdministratorsInv, NEW a \in Accounts, NEW row \in RequestRows,
           requests' = [requests EXCEPT ![a] = row],
           UNCHANGED <<members, invitations, claims>>,
           overlapped' \in BOOLEAN, overlapped => overlapped',
           ~overlapped' /\ row # Idle =>
             /\ \A b \in Accounts \ {a} : requests[b] = Idle
             /\ OwnRows(a) # {}
             /\ row.at = "remove" \/ (row.at = "role" /\ row.role # "owner") =>
                  Owners \ {row.target} # {}
    PROVE  AdministratorsInv'
<1> USE RequestsAreTold
<1>1. \A b \in Accounts : requests'[b] = IF b = a THEN row ELSE requests[b]
  BY DEF AdministratorsInv, AdministrationShaped
<1>2. IssuedIds' = IssuedIds /\ Owners' = Owners /\ \A b : OwnRows(b)' = OwnRows(b)
  BY DEF IssuedIds, Owners, OwnRows, ClaimedBy, MembershipsOf
<1>3. AdministrationShaped'
  <2>1. requests' \in [Accounts -> RequestRows]
    BY DEF AdministratorsInv, AdministrationShaped
  <2>2. \A b \in Accounts : requests'[b].at \in
          {"idle", "authorized", "invite", "resend", "revoke", "role", "remove"}
    BY <2>1 DEF RequestRows, Idle, Authorized
  <2>3. AdministratorsTypeOK'
    BY <1>2, <2>2 DEF AdministratorsInv, AdministrationShaped, AdministratorsTypeOK
  <2>4. QED
    BY <2>1, <2>3 DEF AdministratorsInv, AdministrationShaped, MembershipsOf, IssuedIds
<1>4. SerialRequests'
  BY <1>1, <1>2 DEF AdministratorsInv, AdministrationShaped, SerialRequests, Demotes
<1>5. QED
  BY <1>2, <1>3, <1>4 DEF AdministratorsInv, SerialAdministrationKeepsAnOwner

\* Reading for an operation lets through what leaves the caller an owner.
LEMMA CarryKeepsInv ==
    ASSUME AdministratorsInv, NEW a \in Accounts, NEW op, NEW target, NEW token, NEW role,
           Carry(a, op, target, token, role),
           [at |-> op, target |-> target, token |-> token, role |-> role] \in RequestRows,
           ~overlapped /\ (op = "remove" \/ (op = "role" /\ role # "owner")) =>
             Owners \ {target} # {}
    PROVE  AdministratorsInv'
<1> DEFINE row == [at |-> op, target |-> target, token |-> token, role |-> role]
<1>1. /\ requests[a] = Authorized
      /\ requests' = [requests EXCEPT ![a] = row]
      /\ UNCHANGED <<members, invitations, claims, overlapped>>
  BY DEF Carry
<1>2. /\ row \in RequestRows /\ row.at = op /\ row.target = target /\ row.role = role
  OBVIOUS
<1>3. requests[a] # Idle /\ overlapped \in BOOLEAN
  BY <1>1, RequestsAreTold DEF AdministratorsInv, AdministrationShaped, AdministratorsTypeOK
<1> HIDE DEF row
<1>4. ~overlapped => OwnRows(a) # {} /\ \A b \in Accounts \ {a} : requests[b] = Idle
  BY <1>3 DEF AdministratorsInv, SerialRequests
<1>5. QED
  BY <1>1, <1>2, <1>3, <1>4, RequestsMove

\* Who has begun owns a row, and only another row of an owner, or its own with
\* another owner left, is taken.
LEMMA KeptOwners ==
    ASSUME AdministratorsInv, NEW a \in Accounts, requests[a] = Authorized, ~overlapped,
           NEW m \in IssuedIds, KeepsAnOwner(a, m)
    PROVE  Owners \ {m} # {}
<1>1. OwnRows(a) # {}
  BY RequestsAreTold DEF AdministratorsInv, SerialRequests
<1>2. PICK n \in OwnRows(a) : TRUE
  BY <1>1
<1>3. n \in Owners /\ n \in ClaimedBy(a)
  BY <1>2 DEF OwnRows, Owners, ClaimedBy, MembershipsOf
<1>4. CASE n # m
  BY <1>3, <1>4
<1>5. CASE n = m
  BY <1>3, <1>5 DEF KeepsAnOwner, hasAnotherOwner, Owners
<1>6. QED
  BY <1>4, <1>5

\* A request that reads the member it is about writes nothing.
LEMMA ReadsKeepInv ==
    ASSUME AdministratorsInv, NEW a \in Accounts,
           \/ ReadForInvite(a) \/ ReadForResend(a) \/ ReadForRevoke(a)
           \/ ReadForRole(a) \/ ReadForRemove(a)
    PROVE  AdministratorsInv'
<1>1. \A m \in IssuedIds : m \in MemberIds /\ members[m] \in MemberRows
  BY DEF AdministratorsInv, AdministrationShaped, AdministratorsTypeOK, IssuedIds
<1>2. \A m \in IssuedIds : members[m].token \in Invitations \cup {NoInvitation}
  BY <1>1 DEF MemberRows
<1>3. ASSUME NEW who \in Accounts, NEW role \in OtherRoles,
             Carry(a, "invite", who, NoInvitation, role)
      PROVE  AdministratorsInv'
  <2>1. [at |-> "invite", target |-> who, token |-> NoInvitation, role |-> role]
          \in RequestRows
    BY DEF RequestRows, OrganizationRoles
  <2>2. QED
    BY <1>3, <2>1, CarryKeepsInv
<1>4. ASSUME NEW m \in IssuedIds, NEW op \in {"resend", "revoke"},
             Carry(a, op, m, members[m].token, "owner")
      PROVE  AdministratorsInv'
  <2>1. [at |-> op, target |-> m, token |-> members[m].token, role |-> "owner"]
          \in RequestRows
    BY <1>1, <1>2 DEF RequestRows, OrganizationRoles
  <2>2. op # "remove" /\ op # "role"
    OBVIOUS
  <2>3. QED
    BY <1>4, <2>1, <2>2, CarryKeepsInv
<1>5. ASSUME NEW m \in IssuedIds, NEW role \in OrganizationRoles,
             role # "owner" => KeepsAnOwner(a, m),
             Carry(a, "role", m, NoInvitation, role)
      PROVE  AdministratorsInv'
  <2>1. [at |-> "role", target |-> m, token |-> NoInvitation, role |-> role]
          \in RequestRows
    BY <1>1 DEF RequestRows
  <2>2. requests[a] = Authorized
    BY <1>5 DEF Carry
  <2>3. ~overlapped /\ role # "owner" => Owners \ {m} # {}
    BY <1>5, <2>2, KeptOwners
  <2>4. QED
    BY <1>5, <2>1, <2>3, CarryKeepsInv
<1>6. ASSUME NEW m \in IssuedIds, KeepsAnOwner(a, m),
             Carry(a, "remove", m, members[m].token, "owner")
      PROVE  AdministratorsInv'
  <2>1. [at |-> "remove", target |-> m, token |-> members[m].token, role |-> "owner"]
          \in RequestRows
    BY <1>1, <1>2 DEF RequestRows, OrganizationRoles
  <2>2. requests[a] = Authorized
    BY <1>6 DEF Carry
  <2>3. ~overlapped => Owners \ {m} # {}
    BY <1>6, <2>2, KeptOwners
  <2>4. QED
    BY <1>6, <2>1, <2>3, CarryKeepsInv
<1>7. ReadForInvite(a) => AdministratorsInv'
  BY <1>3 DEF ReadForInvite
<1>8. ReadForResend(a) \/ ReadForRevoke(a) => AdministratorsInv'
  BY <1>4 DEF ReadForResend, ReadForRevoke, Pending
<1>9. ReadForRole(a) => AdministratorsInv'
  BY <1>5 DEF ReadForRole
<1>10. ReadForRemove(a) => AdministratorsInv'
  BY <1>6 DEF ReadForRemove
<1>11. QED
  BY <1>7, <1>8, <1>9, <1>10

-----------------------------------------------------------------------------
(* What happens to rows.                                                   *)

\* Rows change as the statements change them: one that is there keeps its person
\* or is deleted, one that was deleted stays so.
RowsHold ==
    /\ members' \in [MemberIds -> MemberRows \cup {NoRow, DeletedMember}]
    /\ \A m \in MemberIds :
         /\ members[m] = DeletedMember => members'[m] = DeletedMember
         /\ m \in IssuedIds =>
              \/ members'[m] = DeletedMember
              \/ m \in IssuedIds' /\ members'[m].who = members[m].who
    /\ \A m \in IssuedIds' : members'[m].claimed => members'[m].token = NoInvitation
    /\ invitations' \in [Invitations -> {"free", "live", "expired", "dead"}]

\* The write of a request: it ends, and other requests are not under way.
LEMMA CommitKeepsInv ==
    ASSUME AdministratorsInv, NEW a \in Accounts, RowsHold,
           requests' = [requests EXCEPT ![a] = Idle], requests[a] # Idle,
           UNCHANGED <<claims, overlapped>>,
           ~overlapped => Owners' # {}
    PROVE  AdministratorsInv'
<1> USE RequestsAreTold
<1>1. \A b \in Accounts : requests'[b] = IF b = a THEN Idle ELSE requests[b]
  BY DEF AdministratorsInv, AdministrationShaped
<1>2. requests' \in [Accounts -> RequestRows]
  BY DEF AdministratorsInv, AdministrationShaped, RequestRows
<1>3. \A b \in Accounts : requests'[b].at \in
        {"idle", "authorized", "invite", "resend", "revoke", "role", "remove"}
  BY <1>1 DEF AdministratorsInv, AdministrationShaped, AdministratorsTypeOK
<1>4. AdministratorsTypeOK'
  BY <1>3 DEF AdministratorsInv, AdministrationShaped, AdministratorsTypeOK, RowsHold
<1>5. AdministrationShaped'
  BY <1>2, <1>4 DEF AdministratorsInv, AdministrationShaped, RowsHold, MembershipsOf, IssuedIds
<1>6. ~overlapped => \A b \in Accounts : requests'[b] = Idle
  BY <1>1 DEF AdministratorsInv, SerialRequests
<1>7. SerialRequests'
  BY <1>6 DEF SerialRequests, Demotes
<1>8. QED
  BY <1>5, <1>7 DEF AdministratorsInv, SerialAdministrationKeepsAnOwner

\* A write from outside the administrators page changes no role and takes no row.
LEMMA OutsideKeepsInv ==
    ASSUME AdministratorsInv, RowsHold,
           UNCHANGED <<requests, overlapped>>,
           \A m \in IssuedIds :
             /\ m \in IssuedIds' /\ members'[m].role = members[m].role
             /\ members[m].claimed => members'[m].claimed,
           DOMAIN claims' = Accounts,
           \A a \in Accounts :
             claims'[a] # Idle =>
               \/ claims'[a] = claims[a]
               \/ /\ claims'[a].at = "read"
                  /\ claims'[a].member \in MembershipsOf(a)
    PROVE  AdministratorsInv'
<1>1. \A m \in IssuedIds : members'[m].who = members[m].who
  BY RowsAssumption DEF RowsHold, IssuedIds
<1>2. Owners \subseteq Owners' /\ \A a : OwnRows(a) \subseteq OwnRows(a)'
  BY <1>1 DEF Owners, OwnRows, ClaimedBy, MembershipsOf
<1>3. AdministratorsTypeOK'
  BY DEF AdministratorsInv, AdministrationShaped, AdministratorsTypeOK, RowsHold
<1>4. AdministrationShaped'
  <2>1. ASSUME NEW a \in Accounts, claims'[a] # Idle
        PROVE  /\ claims'[a].at = "read"
               /\ claims'[a].member \in MemberIds
               /\ \/ claims'[a].member \in MembershipsOf(a)'
                  \/ members'[claims'[a].member] = DeletedMember
    <3>1. /\ claims'[a].at = "read" /\ claims'[a].member \in MemberIds
          /\ \/ claims'[a].member \in MembershipsOf(a)
             \/ members[claims'[a].member] = DeletedMember
      BY <2>1 DEF AdministratorsInv, AdministrationShaped, MembershipsOf, IssuedIds
    <3>2. QED
      BY <1>1, <3>1 DEF MembershipsOf, RowsHold
  <2>2. QED
    BY <1>3, <2>1 DEF AdministratorsInv, AdministrationShaped
<1>5. SerialRequests'
  BY <1>2 DEF AdministratorsInv, SerialRequests, Demotes
<1>6. QED
  BY <1>2, <1>4, <1>5 DEF AdministratorsInv, SerialAdministrationKeepsAnOwner

\* One row is written: created in a place never used, changed, or deleted.
RowIsWritten(m, row) ==
    /\ m \in MemberIds
    /\ row \in MemberRows \cup {DeletedMember}
    /\ members' = [members EXCEPT ![m] = row]
    /\ invitations' \in [Invitations -> {"free", "live", "expired", "dead"}]
    /\ \/ members[m] = NoRow /\ row \in MemberRows
       \/ m \in IssuedIds /\ (row = DeletedMember \/ row.who = members[m].who)
    /\ row \in MemberRows /\ row.claimed => row.token = NoInvitation

\* What every such write keeps of the rows.
LEMMA OneRowIsWritten ==
    ASSUME AdministratorsInv, NEW m, NEW row, RowIsWritten(m, row)
    PROVE  /\ RowsHold
           /\ \A k \in MemberIds : members'[k] = IF k = m THEN row ELSE members[k]
           /\ row \in MemberRows => IssuedIds' = IssuedIds \cup {m}
<1> USE DEF RowIsWritten
<1>1. members \in [MemberIds -> MemberRows \cup {NoRow, DeletedMember}]
  BY DEF AdministratorsInv, AdministrationShaped, AdministratorsTypeOK
<1>2. \A k \in MemberIds : members'[k] = IF k = m THEN row ELSE members[k]
  BY <1>1
<1>3. IssuedIds' \subseteq IssuedIds \cup {m}
  BY <1>2 DEF IssuedIds
<1>4. row \in MemberRows => IssuedIds' = IssuedIds \cup {m}
  BY <1>2, RowsAssumption DEF IssuedIds
<1>5. IssuedIds \ {m} \subseteq IssuedIds'
  BY <1>2 DEF IssuedIds
<1>6. members' \in [MemberIds -> MemberRows \cup {NoRow, DeletedMember}]
  BY <1>1
<1>7. \A k \in IssuedIds' : members'[k].claimed => members'[k].token = NoInvitation
  <2> TAKE k \in IssuedIds'
  <2>1. CASE k = m
    BY <1>2, <2>1 DEF IssuedIds
  <2>2. CASE k # m
    BY <1>2, <1>3, <2>2 DEF AdministratorsInv, AdministrationShaped, AdministratorsTypeOK, IssuedIds
  <2>3. QED
    BY <2>1, <2>2
<1>8. \A k \in MemberIds :
        /\ members[k] = DeletedMember => members'[k] = DeletedMember
        /\ k \in IssuedIds =>
             \/ members'[k] = DeletedMember
             \/ k \in IssuedIds' /\ members'[k].who = members[k].who
  <2> TAKE k \in MemberIds
  <2>1. CASE k = m
    BY <1>2, <1>4, <2>1, RowsAssumption DEF IssuedIds
  <2>2. CASE k # m
    BY <1>2, <1>5, <2>2
  <2>3. QED
    BY <2>1, <2>2
<1>9. QED
  BY <1>2, <1>4, <1>6, <1>7, <1>8 DEF RowsHold

\* Tokens are created, revoked and consumed within their states.
LEMMA TokensHold ==
    ASSUME AdministratorsInv
    PROVE  /\ invitations \in [Invitations -> {"free", "live", "expired", "dead"}]
           /\ \A t \in Invitations :
                CreateAccessToken(invitations, t)
                  \in [Invitations -> {"free", "live", "expired", "dead"}]
           /\ \A t \in Invitations \cup {NoInvitation} :
                RevokeAccessToken(invitations, t)
                  \in [Invitations -> {"free", "live", "expired", "dead"}]
           /\ \A t \in Invitations \cup {NoInvitation}, n \in Invitations :
                RegenerateTenantAccessToken(t, n)
                  \in [Invitations -> {"free", "live", "expired", "dead"}]
BY DEF AdministratorsInv, AdministrationShaped, AdministratorsTypeOK, CreateAccessToken,
   RevokeAccessToken, RegenerateTenantAccessToken

\* Each write of a request, with the conditions its statements repeat.
LEMMA WritesKeepInv ==
    ASSUME AdministratorsInv, NEW a \in Accounts,
           \/ InviteAdministrator(a) \/ ResendAdministratorInvitation(a)
           \/ RevokeAdministratorInvitation(a)
           \/ ChangeAdministratorRole(a) \/ RemoveAdministrator(a)
    PROVE  AdministratorsInv'
<1> DEFINE request == requests[a]
<1>1. /\ requests' = [requests EXCEPT ![a] = Idle]
      /\ UNCHANGED <<claims, overlapped>>
      /\ request \in RequestRows
  BY DEF InviteAdministrator, ResendAdministratorInvitation, RevokeAdministratorInvitation,
     ChangeAdministratorRole, RemoveAdministrator, Commit, EndAdministration,
     AdministratorsInv, AdministrationShaped
<1>2. \A m \in IssuedIds :
        /\ m \in MemberIds /\ members[m] \in MemberRows
        /\ members[m].claimed => members[m].token = NoInvitation
  BY DEF AdministratorsInv, AdministrationShaped, AdministratorsTypeOK, IssuedIds
<1>3. ~overlapped => Owners # {}
  BY DEF AdministratorsInv, SerialAdministrationKeepsAnOwner
<1>4. ASSUME InviteAdministrator(a) PROVE AdministratorsInv'
  <2>1. request.at = "invite" /\ request # Idle
    BY <1>4, RequestsAreTold DEF InviteAdministrator, Commit
  <2> PICK m \in MemberIds, t \in Invitations :
        /\ invitations' = CreateAccessToken(invitations, t)
        /\ CreateOrganizationMember(m, request.target, request.role, t)
    BY <1>4 DEF InviteAdministrator
  <2> DEFINE row == [who |-> request.target, claimed |-> FALSE, role |-> request.role, token |-> t]
  <2>2. row \in MemberRows /\ ~row.claimed
    BY <1>1, <2>1, RequestsAreTold DEF MemberRows
  <2>3. members[m] = NoRow /\ members' = [members EXCEPT ![m] = row]
    BY DEF CreateOrganizationMember
  <2> HIDE DEF row
  <2>4. /\ RowsHold
        /\ \A k \in MemberIds : members'[k] = IF k = m THEN row ELSE members[k]
        /\ IssuedIds' = IssuedIds \cup {m}
    <3>1. invitations' \in [Invitations -> {"free", "live", "expired", "dead"}]
      BY <2>2, TokensHold
    <3>2. RowIsWritten(m, row)
      BY <2>2, <2>3, <3>1 DEF RowIsWritten
    <3>3. QED
      BY <2>2, <2>3, <3>2, OneRowIsWritten
  <2>5. Owners \subseteq Owners'
    BY <2>3, <2>4 DEF Owners, IssuedIds
  <2>6. QED
    BY <1>1, <1>3, <2>1, <2>4, <2>5, CommitKeepsInv
<1>5. ASSUME NEW t \in Invitations \cup {NoInvitation}, NEW m \in MemberIds,
             request # Idle, SetOrganizationMemberInvitation(m, t),
             invitations' \in [Invitations -> {"free", "live", "expired", "dead"}]
      PROVE  AdministratorsInv'
  <2> DEFINE row == [members[m] EXCEPT !.token = t]
  <2>1. m \in IssuedIds /\ ~members[m].claimed /\ members' = [members EXCEPT ![m] = row]
    BY <1>5 DEF SetOrganizationMemberInvitation, Pending
  <2>2. /\ row \in MemberRows /\ ~row.claimed
        /\ row.who = members[m].who /\ row.role = members[m].role
    BY <1>2, <2>1 DEF MemberRows
  <2> HIDE DEF row
  <2>3. /\ RowsHold
        /\ \A k \in MemberIds : members'[k] = IF k = m THEN row ELSE members[k]
        /\ IssuedIds' = IssuedIds \cup {m}
    <3>1. RowIsWritten(m, row)
      BY <1>5, <2>1, <2>2 DEF RowIsWritten
    <3>2. QED
      BY <2>2, <3>1, OneRowIsWritten
  <2>4. Owners \subseteq Owners'
    BY <1>2, <2>2, <2>3 DEF Owners
  <2>5. QED
    BY <1>1, <1>3, <1>5, <2>3, <2>4, CommitKeepsInv
<1>6. ASSUME ResendAdministratorInvitation(a) PROVE AdministratorsInv'
  <2>1. request.at = "resend" /\ request # Idle
    BY <1>6, RequestsAreTold DEF ResendAdministratorInvitation, Commit
  <2>2. PICK t \in Invitations :
        /\ invitations' = RegenerateTenantAccessToken(request.token, t)
        /\ SetOrganizationMemberInvitation(request.target, t)
    BY <1>6 DEF ResendAdministratorInvitation
  <2>3. /\ request.target \in MemberIds /\ request.token \in Invitations \cup {NoInvitation}
    BY <1>1, <2>1, RequestsAreTold
  <2>4. QED
    BY <1>5, <2>1, <2>2, <2>3, TokensHold
<1>7. ASSUME RevokeAdministratorInvitation(a) PROVE AdministratorsInv'
  <2>1. request.at = "revoke" /\ request # Idle
    BY <1>7, RequestsAreTold DEF RevokeAdministratorInvitation, Commit
  <2>2. /\ invitations' = RevokeAccessToken(invitations, request.token)
        /\ SetOrganizationMemberInvitation(request.target, NoInvitation)
    BY <1>7 DEF RevokeAdministratorInvitation
  <2>3. /\ request.target \in MemberIds /\ request.token \in Invitations \cup {NoInvitation}
    BY <1>1, <2>1, RequestsAreTold
  <2>4. QED
    BY <1>5, <2>1, <2>2, <2>3, TokensHold
<1>8. ASSUME ChangeAdministratorRole(a) PROVE AdministratorsInv'
  <2> DEFINE m == request.target
             row == [members[m] EXCEPT !.role = request.role]
  <2>1. request.at = "role" /\ request # Idle
    BY <1>8, RequestsAreTold DEF ChangeAdministratorRole, Commit
  <2>2. /\ m \in MemberIds /\ m \in IssuedIds /\ request.role \in OrganizationRoles
        /\ members' = [members EXCEPT ![m] = row] /\ invitations' = invitations
    BY <1>1, <1>8, <2>1, RequestsAreTold
       DEF ChangeAdministratorRole, UpdateOrganizationMemberRole
  <2>3. /\ row \in MemberRows /\ row.role = request.role
        /\ row.who = members[m].who
        /\ row.claimed => row.token = NoInvitation
    BY <1>2, <2>2 DEF MemberRows
  <2> HIDE DEF row
  <2>4. /\ RowsHold
        /\ \A k \in MemberIds : members'[k] = IF k = m THEN row ELSE members[k]
        /\ IssuedIds' = IssuedIds \cup {m}
    <3>1. invitations' \in [Invitations -> {"free", "live", "expired", "dead"}]
      BY <2>2, TokensHold
    <3>2. RowIsWritten(m, row)
      BY <2>2, <2>3, <3>1 DEF RowIsWritten
    <3>3. QED
      BY <2>2, <2>3, <3>2, OneRowIsWritten
  <2>5. Owners \ {m} \subseteq Owners'
    BY <1>2, <2>4 DEF Owners
  <2>9. request.role = "owner" => m \in Owners'
    BY <2>2, <2>3, <2>4 DEF Owners
  <2>6. ~overlapped => Owners' # {}
    BY <2>1, <2>5, <2>9 DEF AdministratorsInv, SerialRequests, Demotes
  <2>7. QED
    BY <1>1, <2>1, <2>4, <2>6, CommitKeepsInv
<1>9. ASSUME RemoveAdministrator(a) PROVE AdministratorsInv'
  <2> DEFINE m == request.target
  <2>1. request.at = "remove" /\ request # Idle
    BY <1>9, RequestsAreTold DEF RemoveAdministrator, Commit
  <2>2. /\ m \in MemberIds /\ m \in IssuedIds
        /\ request.token \in Invitations \cup {NoInvitation}
        /\ members' = [members EXCEPT ![m] = DeletedMember]
        /\ invitations' = RevokeAccessToken(invitations, request.token)
    BY <1>1, <1>9, <2>1, RequestsAreTold DEF RemoveAdministrator, DeleteOrganizationMember
  <2>3. /\ RowsHold
        /\ \A k \in MemberIds : members'[k] = IF k = m THEN DeletedMember ELSE members[k]
    <3>1. invitations' \in [Invitations -> {"free", "live", "expired", "dead"}]
      BY <2>2, TokensHold
    <3>2. DeletedMember \notin MemberRows
      BY RowsAssumption
    <3>3. RowIsWritten(m, DeletedMember)
      BY <2>2, <3>1, <3>2 DEF RowIsWritten
    <3>4. QED
      BY <3>3, OneRowIsWritten
  <2>4. Owners \ {m} \subseteq Owners'
    BY <1>2, <2>3 DEF Owners, IssuedIds
  <2>5. ~overlapped => Owners' # {}
    BY <2>1, <2>4 DEF AdministratorsInv, SerialRequests, Demotes
  <2>6. QED
    BY <1>1, <2>1, <2>3, <2>5, CommitKeepsInv
<1>10. QED
  BY <1>4, <1>6, <1>7, <1>8, <1>9

\* The command line, the clock and the invitees.
LEMMA OutsideStepsKeepInv ==
    ASSUME AdministratorsInv,
           \/ RegenerateAdminInvitation
           \/ \E t \in Invitations : ExpireInvitation(t)
           \/ \E a \in Accounts : ReadInvitation(a) \/ ClaimAdminInvitation(a) \/ AbandonClaim(a)
    PROVE  AdministratorsInv'
<1>1. \A m \in IssuedIds :
        /\ m \in MemberIds /\ members[m] \in MemberRows
        /\ members[m].claimed => members[m].token = NoInvitation
  BY DEF AdministratorsInv, AdministrationShaped, AdministratorsTypeOK, IssuedIds
<1>2. DOMAIN claims = Accounts
  BY DEF AdministratorsInv, AdministrationShaped
<1>3. members' = members /\ invitations' \in [Invitations -> {"free", "live", "expired", "dead"}]
        => RowsHold /\ IssuedIds' = IssuedIds
  BY DEF AdministratorsInv, AdministrationShaped, AdministratorsTypeOK, RowsHold, IssuedIds
<1>4. CASE RegenerateAdminInvitation
  <2> PICK m \in IssuedIds, t \in Invitations :
        /\ members[m].token # NoInvitation
        /\ invitations' = RegenerateTenantAccessToken(members[m].token, t)
        /\ members' = [members EXCEPT ![m].token = t]
        /\ UNCHANGED <<requests, claims, overlapped>>
    BY <1>4 DEF RegenerateAdminInvitation
  <2> DEFINE row == [members[m] EXCEPT !.token = t]
  <2>1. members' = [members EXCEPT ![m] = row] /\ m \in MemberIds
    BY <1>1
  <2>2. /\ row \in MemberRows /\ ~row.claimed /\ ~members[m].claimed
        /\ row.who = members[m].who /\ row.role = members[m].role
        /\ members[m].token \in Invitations \cup {NoInvitation}
    BY <1>1 DEF MemberRows
  <2> HIDE DEF row
  <2>3. /\ RowsHold
        /\ \A k \in MemberIds : members'[k] = IF k = m THEN row ELSE members[k]
        /\ IssuedIds' = IssuedIds \cup {m}
    <3>1. invitations' \in [Invitations -> {"free", "live", "expired", "dead"}]
      BY <2>2, TokensHold
    <3>2. RowIsWritten(m, row)
      BY <2>1, <2>2, <3>1 DEF RowIsWritten
    <3>3. QED
      BY <2>2, <3>2, OneRowIsWritten
  <2>4. \A k \in IssuedIds :
          /\ k \in IssuedIds' /\ members'[k].role = members[k].role
          /\ members[k].claimed => members'[k].claimed
    BY <1>1, <2>2, <2>3
  <2>5. QED
    BY <1>2, <2>3, <2>4, OutsideKeepsInv
<1>5. ASSUME NEW t \in Invitations, ExpireInvitation(t) PROVE AdministratorsInv'
  <2>1. /\ invitations' \in [Invitations -> {"free", "live", "expired", "dead"}]
        /\ UNCHANGED <<members, requests, claims, overlapped>>
    BY <1>5, TokensHold DEF ExpireInvitation
  <2>2. QED
    BY <1>2, <1>3, <2>1, OutsideKeepsInv
<1>6. ASSUME NEW a \in Accounts, ReadInvitation(a) PROVE AdministratorsInv'
  <2>1. PICK m \in MembershipsOf(a) :
          claims' = [claims EXCEPT ![a] = [at |-> "read", member |-> m, token |-> members[m].token]]
    BY <1>6 DEF ReadInvitation
  <2>2. UNCHANGED <<members, invitations, requests, overlapped>>
    BY <1>6 DEF ReadInvitation
  <2>3. DOMAIN claims' = Accounts
    BY <1>2, <2>1
  <2>4. \A b \in Accounts :
          \/ claims'[b] = claims[b]
          \/ claims'[b].at = "read" /\ claims'[b].member \in MembershipsOf(b)
    BY <1>2, <2>1
  <2>5. QED
    BY <1>3, <2>2, <2>3, <2>4, TokensHold, OutsideKeepsInv
<1>7. ASSUME NEW a \in Accounts, AbandonClaim(a) PROVE AdministratorsInv'
  <2>1. /\ claims' = [claims EXCEPT ![a] = Idle]
        /\ UNCHANGED <<members, invitations, requests, overlapped>>
    BY <1>7 DEF AbandonClaim
  <2>2. DOMAIN claims' = Accounts /\ \A b \in Accounts : claims'[b] # Idle => claims'[b] = claims[b]
    BY <1>2, <2>1
  <2>3. QED
    BY <1>3, <2>1, <2>2, TokensHold, OutsideKeepsInv
<1>8. ASSUME NEW a \in Accounts, ClaimAdminInvitation(a) PROVE AdministratorsInv'
  <2> DEFINE m == claims[a].member
             row == [members[m] EXCEPT !.claimed = TRUE, !.token = NoInvitation]
  <2>1. /\ m \in IssuedIds /\ ~members[m].claimed
        /\ members' = [members EXCEPT ![m] = row]
        /\ invitations' = [invitations EXCEPT ![claims[a].token] = "dead"]
        /\ claims' = [claims EXCEPT ![a] = Idle]
        /\ UNCHANGED <<requests, overlapped>>
    BY <1>8 DEF ClaimAdminInvitation, ClaimOrganizationMember, Pending, ConsumeAccessToken
  <2>2. /\ row \in MemberRows /\ row.claimed /\ row.token = NoInvitation
        /\ row.who = members[m].who /\ row.role = members[m].role
    BY <1>1, <2>1 DEF MemberRows
  <2> HIDE DEF row
  <2>3. invitations' \in [Invitations -> {"free", "live", "expired", "dead"}]
    BY <2>1, TokensHold
  <2>8. m \in MemberIds /\ row \in MemberRows \cup {DeletedMember}
    BY <1>1, <2>1, <2>2
  <2>4. /\ RowsHold
        /\ \A k \in MemberIds : members'[k] = IF k = m THEN row ELSE members[k]
        /\ IssuedIds' = IssuedIds \cup {m}
    <3>1. RowIsWritten(m, row)
      BY <2>1, <2>2, <2>3, <2>8 DEF RowIsWritten
    <3>2. QED
      BY <2>2, <2>8, <3>1, OneRowIsWritten
  <2>5. \A k \in IssuedIds :
          /\ k \in IssuedIds' /\ members'[k].role = members[k].role
          /\ members[k].claimed => members'[k].claimed
    BY <1>1, <2>2, <2>4
  <2>6. DOMAIN claims' = Accounts /\ \A b \in Accounts : claims'[b] # Idle => claims'[b] = claims[b]
    BY <1>2, <2>1
  <2>9. RowsHold /\ UNCHANGED <<requests, overlapped>>
    BY <2>1, <2>4
  <2>7. QED
    BY <2>5, <2>6, <2>9, OutsideKeepsInv
<1>9. QED
  BY <1>4, <1>5, <1>6, <1>7, <1>8

\* Every step keeps the invariant.
LEMMA AdministratorsStep ==
    AdministratorsInv /\ [AdministratorsNext]_administratorVars => AdministratorsInv'
<1> SUFFICES ASSUME AdministratorsInv, [AdministratorsNext]_administratorVars
             PROVE  AdministratorsInv'
  OBVIOUS
<1>1. ASSUME NEW a \in Accounts, BeginRequest(a) PROVE AdministratorsInv'
  <2>1. /\ OwnRows(a) # {}
        /\ requests' = [requests EXCEPT ![a] = Authorized]
        /\ overlapped' = (overlapped \/ \E b \in Accounts \ {a} : requests[b] # Idle)
        /\ UNCHANGED <<members, invitations, claims>>
    BY <1>1 DEF BeginRequest, OwnRows
  <2>2. Authorized \in RequestRows /\ Authorized.at = "authorized"
    BY DEF RequestRows, Authorized
  <2>3. overlapped \in BOOLEAN
    BY DEF AdministratorsInv, AdministrationShaped, AdministratorsTypeOK
  <2>4. overlapped' \in BOOLEAN /\ (overlapped => overlapped')
    BY <2>1, <2>3
  <2>5. ~overlapped' => \A b \in Accounts \ {a} : requests[b] = Idle
    BY <2>1
  <2>6. QED
    BY <2>1, <2>2, <2>4, <2>5, RequestsMove
<1>2. ASSUME NEW a \in Accounts, GiveUp(a) PROVE AdministratorsInv'
  <2>1. /\ requests' = [requests EXCEPT ![a] = Idle]
        /\ UNCHANGED <<members, invitations, claims, overlapped>>
    BY <1>2 DEF GiveUp, EndAdministration
  <2>2. Idle \in RequestRows /\ overlapped \in BOOLEAN
    BY DEF RequestRows, AdministratorsInv, AdministrationShaped, AdministratorsTypeOK
  <2>3. QED
    BY <2>1, <2>2, RequestsMove
<1>3. CASE UNCHANGED administratorVars
  <2>1. UNCHANGED <<members, invitations, requests, claims, overlapped>>
    BY <1>3 DEF administratorVars
  <2>2. QED
    BY <2>1 DEF AdministratorsInv, AdministrationShaped, AdministratorsTypeOK, SerialRequests,
       SerialAdministrationKeepsAnOwner, Demotes, OwnRows, ClaimedBy, MembershipsOf, Owners,
       IssuedIds
<1>4. QED
  BY <1>1, <1>2, <1>3, ReadsKeepInv, WritesKeepInv, OutsideStepsKeepInv DEF AdministratorsNext

-----------------------------------------------------------------------------
(* The results.                                                            *)

\* Only a claim turns a pending row into a claimed one, and it consumes a live
\* link of the one who claims it.
LEMMA ClaimsAreLive ==
    ASSUME AdministratorsInv, [AdministratorsNext]_administratorVars,
           NEW m \in MemberIds, Pending(m), members'[m] # DeletedMember, members'[m].claimed
    PROVE  /\ claims[members[m].who].at = "read"
           /\ invitations[claims[members[m].who].token] = "live"
<1>1. \A k \in MemberIds :
        members[k] \in MemberRows \cup {NoRow, DeletedMember} /\ DOMAIN members = MemberIds
  BY DEF AdministratorsInv, AdministrationShaped, AdministratorsTypeOK
<1>2. m \in IssuedIds /\ members[m] \in MemberRows /\ ~members[m].claimed
  BY <1>1 DEF Pending, IssuedIds
<1>3. ASSUME NEW a \in Accounts, ClaimAdminInvitation(a)
      PROVE  /\ claims[members[m].who].at = "read"
             /\ invitations[claims[members[m].who].token] = "live"
  <2> DEFINE k == claims[a].member
  <2>1. /\ claims[a] # Idle /\ k \in IssuedIds
        /\ invitations[claims[a].token] = "live"
        /\ members' = [members EXCEPT ![k].claimed = TRUE, ![k].token = NoInvitation]
    BY <1>3 DEF ClaimAdminInvitation, ClaimOrganizationMember, ConsumeAccessToken, Pending
  <2>2. claims[a].at = "read" /\ members[k].who = a
    BY <2>1 DEF AdministratorsInv, AdministrationShaped, MembershipsOf, IssuedIds
  <2>3. k = m
    BY <1>1, <1>2, <2>1
  <2>4. QED
    BY <2>1, <2>2, <2>3
<1>4. members[m] # NoRow
  BY <1>2, RowsAssumption
<1>5. ASSUME NEW k \in MemberIds, NEW t, members' = [members EXCEPT ![k].token = t]
      PROVE  members'[m].claimed = members[m].claimed
  BY <1>1, <1>2, <1>5 DEF MemberRows
<1>6. ASSUME NEW k \in MemberIds, NEW role, members' = [members EXCEPT ![k].role = role]
      PROVE  members'[m].claimed = members[m].claimed
  BY <1>1, <1>2, <1>6 DEF MemberRows
<1>7. ASSUME NEW a \in Accounts, InviteAdministrator(a) PROVE members'[m] = members[m]
  BY <1>1, <1>4, <1>7 DEF InviteAdministrator, CreateOrganizationMember
<1>8. ASSUME NEW a \in Accounts, RemoveAdministrator(a)
      PROVE  members'[m] = members[m] \/ members'[m] = DeletedMember
  BY <1>1, <1>8 DEF RemoveAdministrator, DeleteOrganizationMember
<1>9. ASSUME NEW a \in Accounts,
              ResendAdministratorInvitation(a) \/ RevokeAdministratorInvitation(a)
       PROVE  members'[m].claimed = members[m].claimed
  <2>1. requests[a].target \in MemberIds
    BY <1>9 DEF ResendAdministratorInvitation, RevokeAdministratorInvitation,
       SetOrganizationMemberInvitation, Pending, IssuedIds
  <2>2. QED
    BY <1>5, <1>9, <2>1 DEF ResendAdministratorInvitation, RevokeAdministratorInvitation,
       SetOrganizationMemberInvitation
<1>10. ASSUME NEW a \in Accounts, ChangeAdministratorRole(a)
       PROVE  members'[m].claimed = members[m].claimed
  <2>1. requests[a].target \in MemberIds
    BY <1>10 DEF ChangeAdministratorRole, UpdateOrganizationMemberRole, IssuedIds
  <2>2. QED
    BY <1>6, <1>10, <2>1 DEF ChangeAdministratorRole, UpdateOrganizationMemberRole
<1>11. CASE RegenerateAdminInvitation
  BY <1>2, <1>5, <1>11 DEF RegenerateAdminInvitation, IssuedIds
<1>12. ASSUME NEW a \in Accounts,
              \/ BeginRequest(a) \/ GiveUp(a) \/ ReadInvitation(a) \/ AbandonClaim(a)
              \/ ReadForInvite(a) \/ ReadForResend(a) \/ ReadForRevoke(a)
              \/ ReadForRole(a) \/ ReadForRemove(a)
       PROVE  members' = members
  BY <1>12 DEF BeginRequest, GiveUp, ReadInvitation, AbandonClaim, ReadForInvite, ReadForResend,
     ReadForRevoke, ReadForRole, ReadForRemove, Carry
<1>13. ASSUME NEW t \in Invitations, ExpireInvitation(t) PROVE members' = members
  BY <1>13 DEF ExpireInvitation
<1>14. UNCHANGED administratorVars => members' = members
  BY DEF administratorVars
<1>15. QED
  BY <1>2, <1>3, <1>7, <1>8, <1>9, <1>10, <1>11, <1>12, <1>13, <1>14 DEF AdministratorsNext

\* The inductive invariant holds of every behaviour.
THEOREM AdministratorsInvariant == AdministratorsSpec => []AdministratorsInv
BY AdministratorsStart, AdministratorsStep, PTL DEF AdministratorsSpec

\* Requests of administrators that do not overlap leave an owner, whatever is
\* claimed, regenerated or expired between their check and their write
\* (hasAnotherOwner of administrators.go).
THEOREM AnOwnerIsKept == AdministratorsSpec => []SerialAdministrationKeepsAnOwner
<1>1. AdministratorsInv => SerialAdministrationKeepsAnOwner
  BY DEF AdministratorsInv
<1>2. QED
  BY <1>1, AdministratorsInvariant, PTL

\* A membership is claimed only with a link that is live at the commit
\* (ClaimAdminInvitation, ConsumeAccessToken).
THEOREM ClaimsConsumeALiveLink == AdministratorsSpec => ClaimsNeedALiveLink
<1>1. AdministratorsInv /\ [AdministratorsNext]_administratorVars =>
        [\A m \in MemberIds :
           Pending(m) /\ members'[m] # DeletedMember /\ members'[m].claimed
             => /\ claims[members[m].who].at = "read"
                /\ invitations[claims[members[m].who].token] = "live"]_administratorVars
  BY ClaimsAreLive
<1>2. QED
  BY <1>1, AdministratorsInvariant, PTL DEF AdministratorsSpec, ClaimsNeedALiveLink
=============================================================================
