------------------------ MODULE GuardianOnboarding_proofs ------------------------
(***************************************************************************)
(* How guardians come into a year and leave it, for every number of        *)
(* mailboxes, sessions, links and concurrent requests. Onboarding: what    *)
(* starts a session is spent by it, sessions of one mailbox enter one      *)
(* adult between them, and nobody is entered without having proved the     *)
(* mailbox and consented. Registration links: one is active at a time, and *)
(* the sessions started on it are limited. Records: unless another         *)
(* transaction writes the student meanwhile, the last guardian to leave    *)
(* settles the student, and no membership is erased.                       *)
(***************************************************************************)
EXTENDS GuardianOnboarding, RegistrationLinks, GuardianRecords, FiniteSetTheorems, TLAPS

Stages == {"resting", "import", "redeem", "consent", "exchange", "complete", "create", "adopt"}

\* A request knows whom it is about.
WorkShaped ==
    /\ work \in [Clients ->
         [at : Stages, session : OnboardingIds \cup {Nobody},
          mailbox : Mailboxes \cup {Nobody}, token : InviteTokens \cup {Nobody}]]
    /\ \A c \in Clients :
         /\ work[c].at \in {"consent", "exchange", "complete", "create", "adopt"} =>
                work[c].session \in OnboardingIds
         /\ work[c].at \in {"import", "consent", "exchange", "create", "adopt"} =>
                work[c].mailbox \in Mailboxes
         /\ work[c].at = "redeem" => work[c].token \in InviteTokens

Shaped ==
    /\ OnboardingTypeOK
    /\ WorkShaped
    /\ redeemed \in [InviteTokens -> Nat]
    /\ exchanged \in [OnboardingIds -> Nat]

\* What is not spent has started nothing; what is, one session.
Done(s) == onboarding[s] # NoOnboarding /\ onboarding[s].done

SpentOnce ==
    /\ \A t \in InviteTokens :
         redeemed[t] <= 1 /\ (invites[t] # "spent" => redeemed[t] = 0)
    /\ \A s \in OnboardingIds :
         exchanged[s] <= 1 /\ (~Done(s) => exchanged[s] = 0)

\* A consent is for a mailbox that was proved before, and so is one that is on
\* its way; a request that completes carries the address consented for.
ProofPrecedesConsent ==
    /\ \A s \in OnboardingIds :
         /\ onboarding[s] = NoOnboarding => proven[s] = {}
         /\ onboarding[s] # NoOnboarding /\ onboarding[s].verified # Nobody =>
                onboarding[s].verified \in proven[s]
         /\ consents[s] # Nobody => consents[s] \in proven[s]
    /\ \A c \in Clients :
         /\ work[c].at = "consent" => work[c].mailbox \in proven[work[c].session]
         /\ work[c].at \in {"create", "adopt"} => consents[work[c].session] = work[c].mailbox

\* The lock on the address lets one request at a time go on, and what it found
\* stays true of the sessions' entries as long as it goes on.
OneEntryAtATime ==
    /\ \A m \in Mailboxes : \A r, s \in adults[m] \ {Office} : r = s
    /\ \A c, d \in Clients :
         /\ work[c].at \in {"create", "adopt"} /\ work[d].at \in {"create", "adopt"}
         /\ work[c].mailbox = work[d].mailbox
         => c = d
    /\ \A c \in Clients :
         work[c].at = "create" => adults[work[c].mailbox] \subseteq {Office}

OnboardingInv ==
    /\ Shaped
    /\ SpentOnce
    /\ ProofPrecedesConsent
    /\ OneEntryAtATime
    /\ RosterFollowsConsent

\* A started session's row.
Row == [verified : Mailboxes \cup {Nobody}, done : BOOLEAN, revoked : BOOLEAN]

-----------------------------------------------------------------------------
(* The initial state.                                                      *)

\* Nothing is issued, started or consented for at first.
LEMMA OnboardingStarts == OnboardingInit => OnboardingInv
<1> SUFFICES ASSUME OnboardingInit PROVE OnboardingInv
  OBVIOUS
<1> USE DEF OnboardingInit
<1>1. Shaped
  BY OnboardingAssumption DEF Shaped, OnboardingTypeOK, WorkShaped, Stages, Resting
<1>2. SpentOnce
  BY DEF SpentOnce
<1>3. ProofPrecedesConsent
  BY DEF ProofPrecedesConsent, Resting
<1>4. OneEntryAtATime
  BY DEF OneEntryAtATime, Resting
<1>5. RosterFollowsConsent
  BY DEF RosterFollowsConsent
<1>6. QED
  BY <1>1, <1>2, <1>3, <1>4, <1>5 DEF OnboardingInv

-----------------------------------------------------------------------------
(* What an update of one field does to the rows.                           *)

\* The rows before and after, and what becomes of the row of s.
Rows == [OnboardingIds -> {NoOnboarding} \cup Row]

OnlyRowChanges(s, verified, done) ==
    /\ onboarding' \in Rows
    /\ onboarding'[s] \in Row
    /\ onboarding'[s].verified = verified
    /\ onboarding'[s].done = done
    /\ \A r \in OnboardingIds \ {s} : onboarding'[r] = onboarding[r]

\* Rows are well formed, and a session that was started has one.
LEMMA RowsAreTyped ==
    ASSUME OnboardingInv
    PROVE  /\ onboarding \in Rows
           /\ \A s \in Started : s \in OnboardingIds /\ onboarding[s] \in Row
<1>1. onboarding \in Rows
  BY DEF OnboardingInv, Shaped, OnboardingTypeOK, Rows, Row
<1>2. QED
  BY <1>1 DEF Rows, Started

\* An exchange marks the session's row and no other.
LEMMA CompletionUpdates ==
    ASSUME OnboardingInv, NEW s \in OnboardingIds, s \in Started,
           onboarding' = [onboarding EXCEPT ![s].done = TRUE]
    PROVE  OnlyRowChanges(s, onboarding[s].verified, TRUE)
<1>1. onboarding \in Rows /\ onboarding[s] \in Row
  BY ONLY OnboardingInv, s \in Started, RowsAreTyped
<1>2. QED
  BY <1>1, Zenon DEF OnlyRowChanges, Rows, Row

\* So does a revocation, which leaves what the row says of proof and exchange.
LEMMA RevocationUpdates ==
    ASSUME OnboardingInv, NEW s \in OnboardingIds, s \in Started,
           onboarding' = [onboarding EXCEPT ![s].revoked = TRUE]
    PROVE  OnlyRowChanges(s, onboarding[s].verified, onboarding[s].done)
<1>1. onboarding \in Rows /\ onboarding[s] \in Row
  BY ONLY OnboardingInv, s \in Started, RowsAreTyped
<1>2. QED
  BY <1>1, Zenon DEF OnlyRowChanges, Rows, Row

-----------------------------------------------------------------------------
(* Every step keeps every part.                                            *)

\* A step keeps the rows, the histories and the requests of their shape.
LEMMA OnboardingShapes == OnboardingInv /\ [OnboardingNext]_onboardingVars => Shaped'
<1> SUFFICES ASSUME OnboardingInv, [OnboardingNext]_onboardingVars PROVE Shaped'
  OBVIOUS
<1> USE OnboardingAssumption DEF OnboardingInv, inviteVars, recordVars, Shaped,
        OnboardingTypeOK, WorkShaped, Stages, Known
<1>1. ASSUME NEW c \in Clients, RequestEnds(c) PROVE Shaped'
  BY <1>1 DEF RequestEnds, Rest, Resting
<1>2. ASSUME NEW c \in Clients, ListGuardianInvitationContacts(c) PROVE Shaped'
  BY <1>2 DEF ListGuardianInvitationContacts, Proceed
<1>3. ASSUME NEW c \in Clients, ImportInvitationContacts(c) PROVE Shaped'
  BY <1>3 DEF ImportInvitationContacts, CreateGuardianInvitationToken,
      RevokeGuardianInvitationToken, Rest, Resting
<1>4. ASSUME NEW c \in Clients, GetGuardianInvitationTokenByHash(c) PROVE Shaped'
  BY <1>4 DEF GetGuardianInvitationTokenByHash, Proceed
<1>5. ASSUME NEW c \in Clients, Redeem(c) PROVE Shaped'
  BY <1>5 DEF Redeem, ConsumeGuardianInvitationToken, CreateGuardianOnboardingSession,
      Rest, Resting
<1>6. ASSUME NEW c \in Clients, LookupForConsent(c) PROVE Shaped'
  BY <1>6 DEF LookupForConsent, Live, Started, OfItsMailbox, Proceed
<1>7. ASSUME NEW c \in Clients, AcceptConsent(c) PROVE Shaped'
  <2> DEFINE s == work[c].session
             m == work[c].mailbox
  <2>1. s \in OnboardingIds /\ m \in Mailboxes
    BY <1>7 DEF AcceptConsent
  <2>2. contacts' \in [Mailboxes -> {NoContact} \cup
            [token : InviteTokens, accepted : OnboardingIds \cup {Nobody}]]
    <3>1. CASE UNCHANGED contacts
      BY <3>1
    <3>2. CASE contacts[m] # NoContact /\ contacts' = [contacts EXCEPT ![m].accepted = s]
      <4>1. contacts[m] \in [token : InviteTokens, accepted : OnboardingIds \cup {Nobody}]
        BY <2>1, <3>2
      <4>2. [contacts[m] EXCEPT !.accepted = s] \in
                [token : InviteTokens, accepted : OnboardingIds \cup {Nobody}]
        BY <2>1, <4>1
      <4>3. QED
        BY <2>1, <3>2, <4>2
    <3>3. QED
      BY <1>7, <3>1, <3>2, Zenon DEF AcceptConsent, LinkGuardianInvitationContactConsent
  <2>3. work' \in [Clients ->
            [at : Stages, session : OnboardingIds \cup {Nobody},
             mailbox : Mailboxes \cup {Nobody}, token : InviteTokens \cup {Nobody}]]
    BY <1>7, <2>1 DEF AcceptConsent, Proceed
  <2>4. consents' \in [OnboardingIds -> Mailboxes \cup {Nobody}]
    BY <1>7, <2>1 DEF AcceptConsent
  <2>5. QED
    BY <1>7, <2>1, <2>2, <2>3, <2>4 DEF AcceptConsent, Proceed
<1>8. ASSUME NEW c \in Clients, exchangeExistingGuardian(c) PROVE Shaped'
  <2> DEFINE s == work[c].session
  <2>1. s \in OnboardingIds /\ s \in Started /\ ~onboarding[s].done
    BY <1>8 DEF exchangeExistingGuardian, CompleteGuardianOnboardingSession, Live, Started
  <2>2. OnlyRowChanges(s, onboarding[s].verified, TRUE)
    BY <1>8, <2>1, CompletionUpdates, Zenon DEF exchangeExistingGuardian
  <2>3. /\ exchanged' = [exchanged EXCEPT ![s] = @ + 1]
        /\ work' = [work EXCEPT ![c] = Resting]
        /\ UNCHANGED <<contacts, invites, redeemed, proven, otps, consents, guardians>>
        /\ UNCHANGED adults
    BY <1>8, Zenon DEF exchangeExistingGuardian, CreateGuardianSession, Rest
  <2>4. QED
    BY <2>1, <2>2, <2>3 DEF OnlyRowChanges, Rows, Row, Resting, Started
<1>9. ASSUME NEW c \in Clients, LookupForCompletion(c) PROVE Shaped'
  BY <1>9 DEF LookupForCompletion, Live, Started, Proceed
<1>10. ASSUME NEW c \in Clients, FindActiveAdultsByEmail(c) PROVE Shaped'
  BY <1>10 DEF FindActiveAdultsByEmail, LockGuardianOnboardingEmail, Proceed
<1>11. ASSUME NEW c \in Clients, Complete(c) PROVE Shaped'
  <2> DEFINE s == work[c].session
  <2>1. s \in OnboardingIds /\ s \in Started /\ ~onboarding[s].done
    BY <1>11 DEF Complete, CompleteGuardianOnboardingSession, Live, Started
  <2>2. OnlyRowChanges(s, onboarding[s].verified, TRUE)
    BY <1>11, <2>1, CompletionUpdates, Zenon DEF Complete
  <2>3. /\ exchanged' = [exchanged EXCEPT ![s] = @ + 1]
        /\ work' = [work EXCEPT ![c] = Resting]
        /\ UNCHANGED <<contacts, invites, redeemed, proven, otps, consents, guardians>>
    BY <1>11, Zenon DEF Complete, CreateGuardianSession, Rest
  <2>4. adults' \in [Mailboxes -> SUBSET (OnboardingIds \cup {Office})]
    <3>1. /\ work[c].mailbox \in Mailboxes
          /\ adults' = adults \/
             adults' = [adults EXCEPT ![work[c].mailbox] = @ \cup {s}]
      BY <1>11 DEF Complete
    <3>2. QED
      BY <2>1, <3>1
  <2>5. QED
    BY <2>4, <2>1, <2>2, <2>3 DEF OnlyRowChanges, Rows, Row, Resting, Started
<1>12. ASSUME NEW m \in Mailboxes, RevokeInvitationContact(m) PROVE Shaped'
  BY <1>12 DEF RevokeInvitationContact, RevokeGuardianInvitationToken
<1>13. ASSUME NEW t \in InviteTokens, InvitationExpires(t) PROVE Shaped'
  BY <1>13 DEF InvitationExpires
<1>14. CASE BeginOnboarding
  BY <1>14 DEF BeginOnboarding, CreateGuardianOnboardingSession
<1>15. ASSUME NEW s \in OnboardingIds, RevokeOnboardingSession(s) PROVE Shaped'
  <2>1. OnlyRowChanges(s, onboarding[s].verified, onboarding[s].done) /\ s \in Started
    BY <1>15, RevocationUpdates, Zenon DEF RevokeOnboardingSession, Live
  <2>2. UNCHANGED <<inviteVars, proven, otps, recordVars, exchanged, work>>
    BY <1>15 DEF RevokeOnboardingSession
  <2>3. QED
    BY <2>1, <2>2 DEF OnlyRowChanges, Rows, Row, Started
<1>16. ASSUME NEW s \in OnboardingIds, NEW m \in Mailboxes, RequestOTP(s, m) PROVE Shaped'
  BY <1>16 DEF RequestOTP
<1>17. ASSUME NEW s \in OnboardingIds, NEW m \in Mailboxes, VerifyOTP(s, m) PROVE Shaped'
  <2>1. PICK known \in BOOLEAN :
            /\ onboarding' = [onboarding EXCEPT ![s].verified = m, ![s].done = known]
            /\ exchanged' = exchanged \/ exchanged' = [exchanged EXCEPT ![s] = @ + 1]
    BY <1>17, Zenon DEF VerifyOTP, CreateGuardianSession
  <2>2. OnlyRowChanges(s, m, known)
    <3>1. s \in Started
      BY <1>17 DEF VerifyOTP, Live
    <3>2. onboarding \in Rows /\ onboarding[s] \in Row
      BY <3>1 DEF Rows, Row, Started
    <3>3. onboarding' = [onboarding EXCEPT ![s].verified = m, ![s].done = known]
      BY <2>1
    <3>4. QED
      BY ONLY <3>2, <3>3, s \in OnboardingIds, m \in Mailboxes, known \in BOOLEAN, Zenon
         DEF OnlyRowChanges, Rows, Row
  <2>3. /\ exchanged' = exchanged \/ exchanged' = [exchanged EXCEPT ![s] = @ + 1]
        /\ proven' = [proven EXCEPT ![s] = @ \cup {m}]
        /\ otps' = otps \ {<<s, m>>}
        /\ UNCHANGED <<contacts, redeemed, recordVars, work>>
    BY <1>17, <2>1, Zenon DEF VerifyOTP
  <2>4. invites' \in [InviteTokens -> {"free", "live", "expired", "revoked", "spent"}]
    <3>1. invites' = invites \/
          (Known(m) /\ invites' = [invites EXCEPT ![contacts[m].token] = "spent"])
      BY <1>17, Zenon DEF VerifyOTP
    <3>2. QED
      BY <3>1
  <2>5. QED
    BY <2>2, <2>3, <2>4 DEF OnlyRowChanges, Rows, Row
<1>18. CASE OtherRecordChange
  BY <1>18 DEF OtherRecordChange
<1>19. CASE UNCHANGED onboardingVars
  BY <1>19 DEF onboardingVars
<1> QED
  BY <1>1, <1>2, <1>3, <1>4, <1>5, <1>6, <1>7, <1>8, <1>9, <1>10,
     <1>11, <1>12, <1>13, <1>14, <1>15, <1>16, <1>17, <1>18, <1>19 DEF OnboardingNext

\* A step that starts a session, or exchanges one, spends what it was started
\* with; nothing brings a spent link or session back.
LEMMA SpentOnceStep == OnboardingInv /\ [OnboardingNext]_onboardingVars => SpentOnce'
<1> SUFFICES ASSUME OnboardingInv, [OnboardingNext]_onboardingVars PROVE SpentOnce'
  OBVIOUS
<1> USE OnboardingAssumption DEF OnboardingInv, inviteVars, recordVars, Shaped,
        OnboardingTypeOK, WorkShaped, SpentOnce, Done
<1>1. ASSUME NEW c \in Clients, RequestEnds(c) PROVE SpentOnce'
  BY <1>1 DEF RequestEnds, Rest, Resting
<1>2. ASSUME NEW c \in Clients, ListGuardianInvitationContacts(c) PROVE SpentOnce'
  BY <1>2 DEF ListGuardianInvitationContacts, Proceed
<1>3. ASSUME NEW c \in Clients, ImportInvitationContacts(c) PROVE SpentOnce'
  BY <1>3 DEF ImportInvitationContacts, CreateGuardianInvitationToken,
      RevokeGuardianInvitationToken, Rest, Resting
<1>4. ASSUME NEW c \in Clients, GetGuardianInvitationTokenByHash(c) PROVE SpentOnce'
  BY <1>4 DEF GetGuardianInvitationTokenByHash, Proceed
<1>5. ASSUME NEW c \in Clients, Redeem(c) PROVE SpentOnce'
  BY <1>5 DEF Redeem, ConsumeGuardianInvitationToken, CreateGuardianOnboardingSession,
      Rest, Resting
<1>6. ASSUME NEW c \in Clients, LookupForConsent(c) PROVE SpentOnce'
  BY <1>6 DEF LookupForConsent, Live, Started, OfItsMailbox, Proceed
<1>7. ASSUME NEW c \in Clients, AcceptConsent(c) PROVE SpentOnce'
  BY <1>7 DEF AcceptConsent, LinkGuardianInvitationContactConsent, Proceed
<1>8. ASSUME NEW c \in Clients, exchangeExistingGuardian(c) PROVE SpentOnce'
  <2> DEFINE s == work[c].session
  <2>1. s \in OnboardingIds /\ s \in Started /\ ~onboarding[s].done
    BY <1>8 DEF exchangeExistingGuardian, CompleteGuardianOnboardingSession, Live, Started
  <2>2. OnlyRowChanges(s, onboarding[s].verified, TRUE)
    BY <1>8, <2>1, CompletionUpdates, Zenon DEF exchangeExistingGuardian
  <2>3. /\ exchanged' = [exchanged EXCEPT ![s] = @ + 1]
        /\ work' = [work EXCEPT ![c] = Resting]
        /\ UNCHANGED <<contacts, invites, redeemed, proven, otps, consents, guardians>>
        /\ UNCHANGED adults
    BY <1>8, Zenon DEF exchangeExistingGuardian, CreateGuardianSession, Rest
  <2>4. QED
    BY <2>1, <2>2, <2>3 DEF OnlyRowChanges, Rows, Row, Resting, Started
<1>9. ASSUME NEW c \in Clients, LookupForCompletion(c) PROVE SpentOnce'
  BY <1>9 DEF LookupForCompletion, Live, Started, Proceed
<1>10. ASSUME NEW c \in Clients, FindActiveAdultsByEmail(c) PROVE SpentOnce'
  BY <1>10 DEF FindActiveAdultsByEmail, LockGuardianOnboardingEmail, Proceed
<1>11. ASSUME NEW c \in Clients, Complete(c) PROVE SpentOnce'
  <2> DEFINE s == work[c].session
  <2>1. s \in OnboardingIds /\ s \in Started /\ ~onboarding[s].done
    BY <1>11 DEF Complete, CompleteGuardianOnboardingSession, Live, Started
  <2>2. OnlyRowChanges(s, onboarding[s].verified, TRUE)
    BY <1>11, <2>1, CompletionUpdates, Zenon DEF Complete
  <2>3. /\ exchanged' = [exchanged EXCEPT ![s] = @ + 1]
        /\ work' = [work EXCEPT ![c] = Resting]
        /\ UNCHANGED <<contacts, invites, redeemed, proven, otps, consents, guardians>>
    BY <1>11, Zenon DEF Complete, CreateGuardianSession, Rest
  <2>4. QED
    BY <2>1, <2>2, <2>3 DEF OnlyRowChanges, Rows, Row, Resting, Started
<1>12. ASSUME NEW m \in Mailboxes, RevokeInvitationContact(m) PROVE SpentOnce'
  BY <1>12 DEF RevokeInvitationContact, RevokeGuardianInvitationToken
<1>13. ASSUME NEW t \in InviteTokens, InvitationExpires(t) PROVE SpentOnce'
  BY <1>13 DEF InvitationExpires
<1>14. CASE BeginOnboarding
  BY <1>14 DEF BeginOnboarding, CreateGuardianOnboardingSession
<1>15. ASSUME NEW s \in OnboardingIds, RevokeOnboardingSession(s) PROVE SpentOnce'
  BY <1>15 DEF RevokeOnboardingSession, Live, Started
<1>16. ASSUME NEW s \in OnboardingIds, NEW m \in Mailboxes, RequestOTP(s, m) PROVE SpentOnce'
  BY <1>16 DEF RequestOTP
<1>17. ASSUME NEW s \in OnboardingIds, NEW m \in Mailboxes, VerifyOTP(s, m) PROVE SpentOnce'
  BY <1>17 DEF VerifyOTP, CreateGuardianSession, Live, Started
<1>18. CASE OtherRecordChange
  BY <1>18 DEF OtherRecordChange
<1>19. CASE UNCHANGED onboardingVars
  BY <1>19 DEF onboardingVars
<1> QED
  BY <1>1, <1>2, <1>3, <1>4, <1>5, <1>6, <1>7, <1>8, <1>9, <1>10,
     <1>11, <1>12, <1>13, <1>14, <1>15, <1>16, <1>17, <1>18, <1>19 DEF OnboardingNext

\* What has been proved stays proved, so a consent that was on its way while the
\* session proved another mailbox is still for a proved one.
LEMMA ProofStep == OnboardingInv /\ [OnboardingNext]_onboardingVars => ProofPrecedesConsent'
<1> SUFFICES ASSUME OnboardingInv, [OnboardingNext]_onboardingVars PROVE ProofPrecedesConsent'
  OBVIOUS
<1> USE OnboardingAssumption DEF OnboardingInv, inviteVars, recordVars, Shaped,
        OnboardingTypeOK, WorkShaped, ProofPrecedesConsent
<1>1. ASSUME NEW c \in Clients, RequestEnds(c) PROVE ProofPrecedesConsent'
  BY <1>1 DEF RequestEnds, Rest, Resting
<1>2. ASSUME NEW c \in Clients, ListGuardianInvitationContacts(c) PROVE ProofPrecedesConsent'
  BY <1>2 DEF ListGuardianInvitationContacts, Proceed
<1>3. ASSUME NEW c \in Clients, ImportInvitationContacts(c) PROVE ProofPrecedesConsent'
  BY <1>3 DEF ImportInvitationContacts, CreateGuardianInvitationToken,
      RevokeGuardianInvitationToken, Rest, Resting
<1>4. ASSUME NEW c \in Clients, GetGuardianInvitationTokenByHash(c) PROVE ProofPrecedesConsent'
  BY <1>4 DEF GetGuardianInvitationTokenByHash, Proceed
<1>5. ASSUME NEW c \in Clients, Redeem(c) PROVE ProofPrecedesConsent'
  <2>1. PICK m \in Mailboxes, s \in OnboardingIds : CreateGuardianOnboardingSession(s, m)
    BY <1>5 DEF Redeem
  <2>2. /\ onboarding[s] = NoOnboarding /\ proven[s] = {} /\ consents[s] = Nobody
        /\ onboarding' = [onboarding EXCEPT ![s] =
                             [verified |-> m, done |-> FALSE, revoked |-> FALSE]]
        /\ proven' = [proven EXCEPT ![s] = {m}]
    <3>1. onboarding[s] = NoOnboarding /\ proven[s] = {} /\ consents[s] = Nobody
      BY <2>1 DEF CreateGuardianOnboardingSession
    <3>2. {m} \ {Nobody} = {m}
      BY OnboardingAssumption
    <3>3. QED
      BY <2>1, <3>1, <3>2, Zenon DEF CreateGuardianOnboardingSession
  <2>3. work' = [work EXCEPT ![c] = Resting] /\ UNCHANGED consents
    BY <1>5 DEF Redeem, Rest
  <2>4. m # Nobody
    BY OnboardingAssumption
  <2>5. \A r \in OnboardingIds : proven'[r] = IF r = s THEN {m} ELSE proven[r]
    BY <2>2
  <2>6. \A r \in OnboardingIds :
          /\ r # s => onboarding'[r] = onboarding[r]
          /\ r = s => onboarding'[r] = [verified |-> m, done |-> FALSE, revoked |-> FALSE]
    BY <2>2
  <2>7. \A r \in OnboardingIds :
          /\ onboarding'[r] = NoOnboarding => proven'[r] = {}
          /\ onboarding'[r] # NoOnboarding /\ onboarding'[r].verified # Nobody =>
                 onboarding'[r].verified \in proven'[r]
          /\ consents'[r] # Nobody => consents'[r] \in proven'[r]
    <3>1. [verified |-> m, done |-> FALSE, revoked |-> FALSE] \in Row
      BY DEF Row
    <3>2. [verified |-> m, done |-> FALSE, revoked |-> FALSE] # NoOnboarding
      BY <3>1, OnboardingAssumption, Zenon DEF Row
    <3>3. QED
      BY <2>2, <2>3, <2>5, <2>6, <3>2
  <2>8. \A d \in Clients :
          /\ work'[d].at = "consent" => work'[d].mailbox \in proven'[work'[d].session]
          /\ work'[d].at \in {"create", "adopt"} => consents'[work'[d].session] = work'[d].mailbox
    BY <2>2, <2>3, <2>5 DEF Resting
  <2>9. QED
    BY <2>7, <2>8
<1>6. ASSUME NEW c \in Clients, LookupForConsent(c) PROVE ProofPrecedesConsent'
  BY <1>6 DEF LookupForConsent, Live, Started, OfItsMailbox, Proceed
<1>7. ASSUME NEW c \in Clients, AcceptConsent(c) PROVE ProofPrecedesConsent'
  BY <1>7 DEF AcceptConsent, LinkGuardianInvitationContactConsent, Proceed
<1>8. ASSUME NEW c \in Clients, exchangeExistingGuardian(c) PROVE ProofPrecedesConsent'
  <2> DEFINE s == work[c].session
  <2>1. s \in OnboardingIds /\ s \in Started /\ ~onboarding[s].done
    BY <1>8 DEF exchangeExistingGuardian, CompleteGuardianOnboardingSession, Live, Started
  <2>2. OnlyRowChanges(s, onboarding[s].verified, TRUE)
    BY <1>8, <2>1, CompletionUpdates, Zenon DEF exchangeExistingGuardian
  <2>3. /\ exchanged' = [exchanged EXCEPT ![s] = @ + 1]
        /\ work' = [work EXCEPT ![c] = Resting]
        /\ UNCHANGED <<contacts, invites, redeemed, proven, otps, consents, guardians>>
        /\ UNCHANGED adults
    BY <1>8, Zenon DEF exchangeExistingGuardian, CreateGuardianSession, Rest
  <2>4. QED
    BY <2>1, <2>2, <2>3 DEF OnlyRowChanges, Rows, Row, Resting, Started
<1>9. ASSUME NEW c \in Clients, LookupForCompletion(c) PROVE ProofPrecedesConsent'
  BY <1>9 DEF LookupForCompletion, Live, Started, Proceed
<1>10. ASSUME NEW c \in Clients, FindActiveAdultsByEmail(c) PROVE ProofPrecedesConsent'
  BY <1>10 DEF FindActiveAdultsByEmail, LockGuardianOnboardingEmail, Proceed
<1>11. ASSUME NEW c \in Clients, Complete(c) PROVE ProofPrecedesConsent'
  <2> DEFINE s == work[c].session
  <2>1. s \in OnboardingIds /\ s \in Started /\ ~onboarding[s].done
    BY <1>11 DEF Complete, CompleteGuardianOnboardingSession, Live, Started
  <2>2. OnlyRowChanges(s, onboarding[s].verified, TRUE)
    BY <1>11, <2>1, CompletionUpdates, Zenon DEF Complete
  <2>3. /\ exchanged' = [exchanged EXCEPT ![s] = @ + 1]
        /\ work' = [work EXCEPT ![c] = Resting]
        /\ UNCHANGED <<contacts, invites, redeemed, proven, otps, consents, guardians>>
    BY <1>11, Zenon DEF Complete, CreateGuardianSession, Rest
  <2>4. QED
    BY <2>1, <2>2, <2>3 DEF OnlyRowChanges, Rows, Row, Resting, Started
<1>12. ASSUME NEW m \in Mailboxes, RevokeInvitationContact(m) PROVE ProofPrecedesConsent'
  BY <1>12 DEF RevokeInvitationContact, RevokeGuardianInvitationToken
<1>13. ASSUME NEW t \in InviteTokens, InvitationExpires(t) PROVE ProofPrecedesConsent'
  BY <1>13 DEF InvitationExpires
<1>14. CASE BeginOnboarding
  BY <1>14 DEF BeginOnboarding, CreateGuardianOnboardingSession
<1>15. ASSUME NEW s \in OnboardingIds, RevokeOnboardingSession(s) PROVE ProofPrecedesConsent'
  <2>1. OnlyRowChanges(s, onboarding[s].verified, onboarding[s].done) /\ s \in Started
    BY <1>15, RevocationUpdates, Zenon DEF RevokeOnboardingSession, Live
  <2>2. UNCHANGED <<inviteVars, proven, otps, recordVars, exchanged, work>>
    BY <1>15 DEF RevokeOnboardingSession
  <2>3. QED
    BY <2>1, <2>2 DEF OnlyRowChanges, Rows, Row, Started
<1>16. ASSUME NEW s \in OnboardingIds, NEW m \in Mailboxes, RequestOTP(s, m)
      PROVE ProofPrecedesConsent'
  BY <1>16 DEF RequestOTP
<1>17. ASSUME NEW s \in OnboardingIds, NEW m \in Mailboxes, VerifyOTP(s, m)
      PROVE ProofPrecedesConsent'
  BY <1>17 DEF VerifyOTP, CreateGuardianSession, Live, Started
<1>18. CASE OtherRecordChange
  BY <1>18 DEF OtherRecordChange
<1>19. CASE UNCHANGED onboardingVars
  BY <1>19 DEF onboardingVars
<1> QED
  BY <1>1, <1>2, <1>3, <1>4, <1>5, <1>6, <1>7, <1>8, <1>9, <1>10,
     <1>11, <1>12, <1>13, <1>14, <1>15, <1>16, <1>17, <1>18, <1>19 DEF OnboardingNext

\* The advisory lock is granted to one request at a time, and no step but that
\* request's own enters an adult of a session for the locked mailbox.
LEMMA EntryStep == OnboardingInv /\ [OnboardingNext]_onboardingVars => OneEntryAtATime'
<1> SUFFICES ASSUME OnboardingInv, [OnboardingNext]_onboardingVars PROVE OneEntryAtATime'
  OBVIOUS
<1> USE OnboardingAssumption DEF OnboardingInv, inviteVars, recordVars, Shaped,
        OnboardingTypeOK, WorkShaped, ProofPrecedesConsent, OneEntryAtATime
<1>1. ASSUME NEW c \in Clients, RequestEnds(c) PROVE OneEntryAtATime'
  BY <1>1 DEF RequestEnds, Rest, Resting
<1>2. ASSUME NEW c \in Clients, ListGuardianInvitationContacts(c) PROVE OneEntryAtATime'
  BY <1>2 DEF ListGuardianInvitationContacts, Proceed
<1>3. ASSUME NEW c \in Clients, ImportInvitationContacts(c) PROVE OneEntryAtATime'
  BY <1>3 DEF ImportInvitationContacts, CreateGuardianInvitationToken,
      RevokeGuardianInvitationToken, Rest, Resting
<1>4. ASSUME NEW c \in Clients, GetGuardianInvitationTokenByHash(c) PROVE OneEntryAtATime'
  BY <1>4 DEF GetGuardianInvitationTokenByHash, Proceed
<1>5. ASSUME NEW c \in Clients, Redeem(c) PROVE OneEntryAtATime'
  BY <1>5 DEF Redeem, ConsumeGuardianInvitationToken, CreateGuardianOnboardingSession,
      Rest, Resting
<1>6. ASSUME NEW c \in Clients, LookupForConsent(c) PROVE OneEntryAtATime'
  BY <1>6 DEF LookupForConsent, Live, Started, OfItsMailbox, Proceed
<1>7. ASSUME NEW c \in Clients, AcceptConsent(c) PROVE OneEntryAtATime'
  BY <1>7 DEF AcceptConsent, LinkGuardianInvitationContactConsent, Proceed
<1>8. ASSUME NEW c \in Clients, exchangeExistingGuardian(c) PROVE OneEntryAtATime'
  BY <1>8 DEF exchangeExistingGuardian, CompleteGuardianOnboardingSession,
      CreateGuardianSession, Live, Started, Rest, Resting
<1>9. ASSUME NEW c \in Clients, LookupForCompletion(c) PROVE OneEntryAtATime'
  BY <1>9 DEF LookupForCompletion, Live, Started, Proceed
<1>10. ASSUME NEW c \in Clients, FindActiveAdultsByEmail(c) PROVE OneEntryAtATime'
  BY <1>10 DEF FindActiveAdultsByEmail, LockGuardianOnboardingEmail, Proceed
<1>11. ASSUME NEW c \in Clients, Complete(c) PROVE OneEntryAtATime'
  BY <1>11 DEF Complete, CompleteGuardianOnboardingSession, CreateGuardianSession, Live,
      Started, Rest, Resting
<1>12. ASSUME NEW m \in Mailboxes, RevokeInvitationContact(m) PROVE OneEntryAtATime'
  BY <1>12 DEF RevokeInvitationContact, RevokeGuardianInvitationToken
<1>13. ASSUME NEW t \in InviteTokens, InvitationExpires(t) PROVE OneEntryAtATime'
  BY <1>13 DEF InvitationExpires
<1>14. CASE BeginOnboarding
  BY <1>14 DEF BeginOnboarding, CreateGuardianOnboardingSession
<1>15. ASSUME NEW s \in OnboardingIds, RevokeOnboardingSession(s) PROVE OneEntryAtATime'
  BY <1>15 DEF RevokeOnboardingSession, Live, Started
<1>16. ASSUME NEW s \in OnboardingIds, NEW m \in Mailboxes, RequestOTP(s, m)
      PROVE OneEntryAtATime'
  BY <1>16 DEF RequestOTP
<1>17. ASSUME NEW s \in OnboardingIds, NEW m \in Mailboxes, VerifyOTP(s, m)
      PROVE OneEntryAtATime'
  BY <1>17 DEF VerifyOTP, CreateGuardianSession, Live, Started
<1>18. CASE OtherRecordChange
  <2>1. work' = work
    BY <1>18 DEF OtherRecordChange
  <2>2. \A m \in Mailboxes : adults'[m] = adults[m] \/ adults'[m] \subseteq {Office}
    BY <1>18 DEF OtherRecordChange
  <2>3. \A m \in Mailboxes : \A r, s \in adults'[m] \ {Office} : r = s
    BY <2>2
  <2>4. \A c \in Clients :
          work'[c].at = "create" => adults'[work'[c].mailbox] \subseteq {Office}
    BY <2>1, <2>2
  <2>5. QED
    BY <2>1, <2>3, <2>4
<1>19. CASE UNCHANGED onboardingVars
  BY <1>19 DEF onboardingVars
<1> QED
  BY <1>1, <1>2, <1>3, <1>4, <1>5, <1>6, <1>7, <1>8, <1>9, <1>10,
     <1>11, <1>12, <1>13, <1>14, <1>15, <1>16, <1>17, <1>18, <1>19 DEF OnboardingNext

\* What is entered in the roster has been consented for, and the consent is not
\* changed by a later one of its session.
LEMMA RosterStep == OnboardingInv /\ [OnboardingNext]_onboardingVars => RosterFollowsConsent'
<1> SUFFICES ASSUME OnboardingInv, [OnboardingNext]_onboardingVars PROVE RosterFollowsConsent'
  OBVIOUS
<1> USE OnboardingAssumption DEF OnboardingInv, inviteVars, recordVars, Shaped,
        OnboardingTypeOK, WorkShaped, ProofPrecedesConsent, RosterFollowsConsent
<1>1. ASSUME NEW c \in Clients, RequestEnds(c) PROVE RosterFollowsConsent'
  BY <1>1 DEF RequestEnds, Rest, Resting
<1>2. ASSUME NEW c \in Clients, ListGuardianInvitationContacts(c) PROVE RosterFollowsConsent'
  BY <1>2 DEF ListGuardianInvitationContacts, Proceed
<1>3. ASSUME NEW c \in Clients, ImportInvitationContacts(c) PROVE RosterFollowsConsent'
  BY <1>3 DEF ImportInvitationContacts, CreateGuardianInvitationToken,
      RevokeGuardianInvitationToken, Rest, Resting
<1>4. ASSUME NEW c \in Clients, GetGuardianInvitationTokenByHash(c) PROVE RosterFollowsConsent'
  BY <1>4 DEF GetGuardianInvitationTokenByHash, Proceed
<1>5. ASSUME NEW c \in Clients, Redeem(c) PROVE RosterFollowsConsent'
  BY <1>5 DEF Redeem, ConsumeGuardianInvitationToken, CreateGuardianOnboardingSession,
      Rest, Resting
<1>6. ASSUME NEW c \in Clients, LookupForConsent(c) PROVE RosterFollowsConsent'
  BY <1>6 DEF LookupForConsent, Live, Started, OfItsMailbox, Proceed
<1>7. ASSUME NEW c \in Clients, AcceptConsent(c) PROVE RosterFollowsConsent'
  BY <1>7 DEF AcceptConsent, LinkGuardianInvitationContactConsent, Proceed
<1>8. ASSUME NEW c \in Clients, exchangeExistingGuardian(c) PROVE RosterFollowsConsent'
  BY <1>8 DEF exchangeExistingGuardian, CompleteGuardianOnboardingSession,
      CreateGuardianSession, Live, Started, Rest, Resting
<1>9. ASSUME NEW c \in Clients, LookupForCompletion(c) PROVE RosterFollowsConsent'
  BY <1>9 DEF LookupForCompletion, Live, Started, Proceed
<1>10. ASSUME NEW c \in Clients, FindActiveAdultsByEmail(c) PROVE RosterFollowsConsent'
  BY <1>10 DEF FindActiveAdultsByEmail, LockGuardianOnboardingEmail, Proceed
<1>11. ASSUME NEW c \in Clients, Complete(c) PROVE RosterFollowsConsent'
  BY <1>11 DEF Complete, CompleteGuardianOnboardingSession, CreateGuardianSession, Live,
      Started, Rest, Resting
<1>12. ASSUME NEW m \in Mailboxes, RevokeInvitationContact(m) PROVE RosterFollowsConsent'
  BY <1>12 DEF RevokeInvitationContact, RevokeGuardianInvitationToken
<1>13. ASSUME NEW t \in InviteTokens, InvitationExpires(t) PROVE RosterFollowsConsent'
  BY <1>13 DEF InvitationExpires
<1>14. CASE BeginOnboarding
  BY <1>14 DEF BeginOnboarding, CreateGuardianOnboardingSession
<1>15. ASSUME NEW s \in OnboardingIds, RevokeOnboardingSession(s) PROVE RosterFollowsConsent'
  BY <1>15 DEF RevokeOnboardingSession, Live, Started
<1>16. ASSUME NEW s \in OnboardingIds, NEW m \in Mailboxes, RequestOTP(s, m)
      PROVE RosterFollowsConsent'
  BY <1>16 DEF RequestOTP
<1>17. ASSUME NEW s \in OnboardingIds, NEW m \in Mailboxes, VerifyOTP(s, m)
      PROVE RosterFollowsConsent'
  BY <1>17 DEF VerifyOTP, CreateGuardianSession, Live, Started
<1>18. CASE OtherRecordChange
  BY <1>18 DEF OtherRecordChange
<1>19. CASE UNCHANGED onboardingVars
  BY <1>19 DEF onboardingVars
<1> QED
  BY <1>1, <1>2, <1>3, <1>4, <1>5, <1>6, <1>7, <1>8, <1>9, <1>10,
     <1>11, <1>12, <1>13, <1>14, <1>15, <1>16, <1>17, <1>18, <1>19 DEF OnboardingNext

-----------------------------------------------------------------------------
(* What follows of the specification.                                      *)

\* The five parts together are inductive: any interleaving of imports, links,
\* codes, consents and completions, with requests that are refused or rolled
\* back halfway.
THEOREM OnboardingInvariant == OnboardingSpec => []OnboardingInv
<1>1. OnboardingInv /\ [OnboardingNext]_onboardingVars => OnboardingInv'
  BY OnboardingShapes, SpentOnceStep, ProofStep, EntryStep, RosterStep DEF OnboardingInv
<1>2. QED
  BY OnboardingStarts, <1>1, PTL DEF OnboardingSpec

\* The rows, histories and requests are of their shape in every reachable state.
THEOREM OnboardingTypeCorrect == OnboardingSpec => []OnboardingTypeOK
<1>1. OnboardingInv => OnboardingTypeOK
  BY DEF OnboardingInv, Shaped
<1>2. QED
  BY OnboardingInvariant, <1>1, PTL

\* An invitation link starts at most one onboarding session and that is
\* exchanged for at most one guardian session, by whichever of VerifyOTP,
\* AcceptConsent's exchange and Complete gets to the row first.
THEOREM LinksAndSessionsAreSpentOnce == OnboardingSpec => []TokensAreSpentOnce
<1>1. OnboardingInv => TokensAreSpentOnce
  BY DEF OnboardingInv, SpentOnce, TokensAreSpentOnce
<1>2. QED
  BY OnboardingInvariant, <1>1, PTL

\* However many sessions of one mailbox complete at once, they enter one adult
\* between them: LockGuardianOnboardingEmail is held over the lookup and the
\* insert.
THEOREM OneAdultPerMailbox == OnboardingSpec => []OneAdultIsEntered
<1>1. OnboardingInv => OneAdultIsEntered
  <2> SUFFICES ASSUME OnboardingInv, NEW m \in Mailboxes
               PROVE  Cardinality(adults[m] \ {Office}) <= 1
    BY DEF OneAdultIsEntered
  <2> DEFINE entered == adults[m] \ {Office}
  <2>1. CASE entered = {}
    BY <2>1, FS_EmptySet
  <2>2. CASE entered # {}
    <3>1. PICK s \in entered : TRUE
      BY <2>2
    <3>2. entered = {s}
      BY <3>1 DEF OnboardingInv, OneEntryAtATime
    <3>3. QED
      BY <3>2, FS_Singleton
  <2>3. QED
    BY <2>1, <2>2
<1>2. QED
  BY OnboardingInvariant, <1>1, PTL

\* Nobody is entered in the roster but for a mailbox that the session has proved
\* and consented for, also when it proves another one while the consent is on
\* its way.
THEOREM EntriesFollowConsent == OnboardingSpec => []RosterFollowsConsent
<1>1. OnboardingInv => RosterFollowsConsent
  BY DEF OnboardingInv
<1>2. QED
  BY OnboardingInvariant, <1>1, PTL

-----------------------------------------------------------------------------
(* Registration links.                                                     *)

Edition == [at : {"none", "issue", "inserting", "update"}, read : Instants,
            link : Links \cup {NoLink}, expires : Expiries,
            generation : 0..Cardinality(Links), replaces : SUBSET Links]
Visit == [at : {"none", "found", "begun", "counted"}, link : Links \cup {NoLink},
          read : Instants, begun : Instants]
Start == [link : Links \cup {NoLink}, created : Instants]

\* A replacement holds the year's lock alone: what it has read is in the past,
\* every link it does not revoke was revoked or had expired then, and its
\* generation is still unused.
ReplacementsStand ==
    /\ \A a, b \in LinkEditors :
         linkEdit[a].at = "inserting" /\ linkEdit[b].at = "inserting" => a = b
    /\ \A a \in LinkEditors :
         /\ linkEdit[a].read <= instant
         /\ linkEdit[a].at = "inserting" =>
              /\ linkEdit[a].generation >= 1
              /\ linkEdit[a].replaces \subseteq Entered
              /\ \A l \in Entered :
                   /\ links[l].generation < linkEdit[a].generation
                   /\ \/ l \in linkEdit[a].replaces
                      \/ links[l].revoked
                      \/ links[l].expires <= linkEdit[a].read

\* Sessions of a link from some instant on are few enough to count, and a visitor
\* that has counted them holds the link and finds room.
CountsStand ==
    /\ \A l \in Links : IsFiniteSet(StartedSince(l, 0))
    /\ \A v \in Visitors : visit[v].at # "none" => visit[v].link \in Links
    /\ \A v, w \in Visitors :
         visit[v].at = "counted" /\ visit[w].at = "counted" /\ visit[v].link = visit[w].link
           => v = w
    /\ \A v \in Visitors :
         visit[v].at = "counted" =>
           Cardinality(StartedSince(visit[v].link, Earlier(visit[v].read))) < SessionRequests

\* A visitor's transaction starts after the instant its lookup was given.
VisitsLookBack ==
    \A v \in Visitors :
        /\ visit[v].read <= instant
        /\ visit[v].at \in {"begun", "counted"} => visit[v].read <= visit[v].begun

\* The inductive invariant.
LinksInv ==
    /\ LinksTypeOK
    /\ ReplacementsStand
    /\ OneLinkIsActive
    /\ CountsStand
    /\ VisitsLookBack
    /\ SessionsPerLinkAreLimited

\* The bounds are numbers.
LEMMA BoundsAreNumbers ==
    /\ SessionRequests \in Nat /\ SessionWindow \in Nat /\ LastInstant \in Nat
    /\ Cardinality(Links) \in Nat
    /\ NoLink \notin Links
BY LinksAssumption, FS_CardinalityType

\* At the start the year has no link and no session was started.
LEMMA LinksStart == LinksInit => LinksInv
<1> SUFFICES ASSUME LinksInit PROVE LinksInv
  OBVIOUS
<1> USE BoundsAreNumbers
<1>1. Entered = {}
  BY DEF LinksInit, Entered
<1>2. LinksTypeOK
  BY <1>1 DEF LinksInit, LinksTypeOK, NoEdition, NoVisit, NoStart, Instants, Expiries
<1>3. ReplacementsStand
  BY <1>1 DEF LinksInit, ReplacementsStand, NoEdition
<1>4. OneLinkIsActive
  BY <1>1 DEF OneLinkIsActive, ActiveAt
<1>5. \A l \in Links : \A t : StartedSince(l, t) = {}
  BY DEF LinksInit, StartedSince, NoStart
<1>6. CountsStand
  BY <1>5, FS_EmptySet DEF LinksInit, CountsStand, NoVisit
<1>7. SessionsPerLinkAreLimited
  <2> SUFFICES ASSUME NEW l \in Links, NEW t \in Instants
               PROVE  Cardinality({s \in StartedSince(l, Earlier(t)) : started[s].created <= t})
                        <= SessionRequests
    BY DEF SessionsPerLinkAreLimited
  <2>1. {s \in StartedSince(l, Earlier(t)) : started[s].created <= t} = {}
    BY <1>5
  <2>2. Cardinality({}) = 0
    BY FS_EmptySet
  <2>3. Cardinality({s \in StartedSince(l, Earlier(t)) : started[s].created <= t}) = 0
    BY <2>1, <2>2
  <2>4. QED
    BY <2>3
<1>8. VisitsLookBack
  BY DEF LinksInit, VisitsLookBack, NoVisit
<1>9. QED
  BY <1>2, <1>3, <1>4, <1>6, <1>7, <1>8 DEF LinksInv

\* What stays as it is when nothing about sessions and visits changes.
LEMMA CountsAreKept ==
    ASSUME LinksInv, UNCHANGED <<visit, started>>, instant' \in {instant, instant + 1}
    PROVE  CountsStand' /\ SessionsPerLinkAreLimited' /\ VisitsLookBack'
<1>1. CountsStand' /\ SessionsPerLinkAreLimited'
  BY DEF LinksInv, CountsStand, SessionsPerLinkAreLimited, StartedSince, Earlier
<1>2. instant \in Nat /\ \A v \in Visitors : visit[v].read \in Nat
  BY BoundsAreNumbers DEF LinksInv, LinksTypeOK, Instants
<1>3. VisitsLookBack'
  BY <1>2 DEF LinksInv, VisitsLookBack
<1>4. QED
  BY <1>1, <1>3

\* What stays as it is when nothing about links and their editors changes.
LEMMA LinksAreKept ==
    ASSUME LinksInv, UNCHANGED <<links, linkEdit, instant>>
    PROVE  ReplacementsStand' /\ OneLinkIsActive'
BY DEF LinksInv, ReplacementsStand, OneLinkIsActive, ActiveAt, Entered

-----------------------------------------------------------------------------
(* Administration.                                                         *)

\* A transaction that is not inserting may come and go.
LEMMA EditorsComeAndGo ==
    ASSUME LinksInv, NEW a \in LinkEditors, NEW row \in Edition,
           linkEdit' = [linkEdit EXCEPT ![a] = row],
           row.at # "inserting", row.read <= instant,
           UNCHANGED <<links, visit, started, accepting, instant>>
    PROVE  LinksInv'
<1>1. LinksTypeOK'
  BY DEF LinksInv, LinksTypeOK, Edition, Entered
<1>2. ReplacementsStand'
  BY DEF LinksInv, LinksTypeOK, ReplacementsStand, Entered
<1>3. OneLinkIsActive'
  BY DEF LinksInv, OneLinkIsActive, ActiveAt, Entered
<1>4. QED
  BY <1>1, <1>2, <1>3, CountsAreKept DEF LinksInv

\* Who replaces has the lock to itself.
LEMMA ReplaceKeepsInv ==
    ASSUME LinksInv, NEW a \in LinkEditors, ReplaceActive(a)
    PROVE  LinksInv'
<1> PICK g \in 1..Cardinality(Links) :
      /\ \A l \in Links : Generation(l) < g
      /\ linkEdit' = [linkEdit EXCEPT
           ![a].at = "inserting", ![a].generation = g,
           ![a].replaces = {l \in Links : ActiveAt(l, linkEdit[a].read)}]
  BY DEF ReplaceActive
<1> DEFINE seen == {l \in Links : ActiveAt(l, linkEdit[a].read)}
           row == [linkEdit[a] EXCEPT
                     !.at = "inserting", !.generation = g, !.replaces = seen]
<1>1. /\ linkEdit' = [linkEdit EXCEPT ![a] = row]
      /\ YearUnlocked
      /\ UNCHANGED <<links, visit, started, accepting, instant>>
  BY DEF ReplaceActive
<1>2. linkEdit[a] \in Edition /\ linkEdit[a].read <= instant
  BY DEF LinksInv, LinksTypeOK, Edition, ReplacementsStand
<1> seen \subseteq Entered /\ seen \subseteq Links
  BY DEF ActiveAt
<1>s. \A l \in Links : ActiveAt(l, linkEdit[a].read) => l \in seen
  OBVIOUS
<1> HIDE DEF seen
<1>g. g \in 0..Cardinality(Links) /\ g >= 1
  BY BoundsAreNumbers
<1>3. /\ row \in Edition /\ row.read = linkEdit[a].read
      /\ row.generation = g /\ row.replaces = seen
  <2>1. row \in Edition
    BY <1>2, <1>g DEF Edition
  <2>2. row.read = linkEdit[a].read
    BY <1>2 DEF Edition
  <2>3. row.generation = g
    BY <1>2 DEF Edition
  <2>4. row.replaces = seen
    BY <1>2 DEF Edition
  <2>5. QED
    BY <2>1, <2>2, <2>3, <2>4
<1> HIDE DEF row
<1>4. LinksTypeOK'
  <2>1. linkEdit \in [LinkEditors -> Edition]
    BY DEF LinksInv, LinksTypeOK, Edition
  <2>2. linkEdit' \in [LinkEditors -> Edition]
    BY ONLY <1>1, <1>3, <2>1
  <2>3. QED
    BY <1>1, <2>2 DEF LinksInv, LinksTypeOK, Edition, Entered
<1>5. \A b \in LinkEditors : linkEdit'[b] = IF b = a THEN row ELSE linkEdit[b]
  BY <1>1 DEF LinksInv, LinksTypeOK
<1>6. \A l \in Entered :
        /\ links[l].generation < g
        /\ l \in row.replaces \/ links[l].revoked \/ links[l].expires <= row.read
  <2> TAKE l \in Entered
  <2>1. links[l] \in LinkRows /\ Generation(l) = links[l].generation /\ l \in Links
    BY DEF LinksInv, LinksTypeOK, Entered, Generation
  <2>2. links[l].expires \in Int /\ row.read \in Int
    BY <1>3, <2>1, BoundsAreNumbers DEF LinkRows, Expiries, Edition, Instants
  <2>3. QED
    BY <1>s, <1>3, <2>1, <2>2 DEF ActiveAt
<1>7. ReplacementsStand'
  <2>1. \A b \in LinkEditors : linkEdit'[b].read <= instant
    BY <1>2, <1>3, <1>5 DEF LinksInv, ReplacementsStand
  <2>2. \A b \in LinkEditors : linkEdit'[b].at = "inserting" => b = a
    BY <1>1, <1>5 DEF YearUnlocked
  <2>3. QED
    BY <1>1, <1>3, <1>5, <1>6, <1>g, <2>1, <2>2 DEF ReplacementsStand, Entered
<1>8. OneLinkIsActive'
  BY <1>1 DEF LinksInv, OneLinkIsActive, ActiveAt, Entered
<1>9. QED
  BY <1>1, <1>4, <1>7, <1>8, CountsAreKept DEF LinksInv

\* The transaction that issues leaves its new link alone among those that are
\* active, and gives it a generation of its own.
LEMMA IssueKeepsInv ==
    ASSUME LinksInv, NEW a \in LinkEditors, IssueRegistrationEntry(a)
    PROVE  LinksInv'
<1> USE BoundsAreNumbers
<1> DEFINE edit == linkEdit[a]
           row == [generation |-> edit.generation, expires |-> edit.expires,
                   revoked |-> FALSE, revived |-> FALSE]
<1>p. PICK new \in Links \ Entered :
      links' = [l \in Links |->
        CASE l = new -> row
          [] l \in edit.replaces -> [links[l] EXCEPT !.revoked = TRUE]
          [] OTHER -> links[l]]
  BY DEF IssueRegistrationEntry
<1>1. /\ edit.at = "inserting"
      /\ linkEdit' = [linkEdit EXCEPT ![a] = NoEdition]
      /\ UNCHANGED <<visit, started, accepting, instant>>
  BY DEF IssueRegistrationEntry
<1>2. edit \in Edition /\ edit.read <= instant /\ instant \in Instants
  BY DEF LinksInv, LinksTypeOK, Edition, ReplacementsStand
<1>3. /\ edit.replaces \subseteq Entered
      /\ \A l \in Entered :
           /\ links[l].generation < edit.generation
           /\ l \in edit.replaces \/ links[l].revoked \/ links[l].expires <= edit.read
      /\ edit.generation >= 1
  BY <1>1 DEF LinksInv, ReplacementsStand
<1>4. row \in LinkRows /\ row.generation = edit.generation
  BY <1>2, <1>3 DEF LinkRows, Edition
<1>5. \A l \in Entered : links[l] \in LinkRows /\ links[l] # NoLink /\ l \in Links
  BY DEF LinksInv, LinksTypeOK, Entered
<1>6. \A l \in Entered :
        /\ links'[l] \in LinkRows
        /\ links'[l].generation = links[l].generation
        /\ links'[l].expires = links[l].expires
        /\ links'[l].revived = links[l].revived
        /\ ~links'[l].revoked => ~links[l].revoked /\ l \notin edit.replaces
  <2> TAKE l \in Entered
  <2>1. CASE l \in edit.replaces
    <3>1. links'[l] = [links[l] EXCEPT !.revoked = TRUE] /\ links[l] \in LinkRows
      BY <1>p, <1>5, <2>1
    <3>2. QED
      BY <3>1 DEF LinkRows
  <2>2. CASE l \notin edit.replaces
    BY <1>p, <1>5, <2>2
  <2>3. QED
    BY <2>1, <2>2
<1>7. links'[new] = row
  BY <1>p, <1>3
<1>8. \A l \in Links \ (Entered \cup {new}) : links'[l] = NoLink
  BY <1>p, <1>3 DEF Entered
<1> HIDE DEF row
<1>9. Entered' \subseteq Entered \cup {new}
  BY <1>8 DEF Entered
<1>10. LinksTypeOK'
  <2>1. links' \in [Links -> LinkRows \cup {NoLink}]
    <3>1. \A l \in Links : links'[l] \in LinkRows \cup {NoLink}
      BY <1>4, <1>6, <1>7, <1>8
    <3>2. links' = [l \in Links |-> links'[l]]
      BY <1>p
    <3>3. QED
      BY <3>1, <3>2
  <2>2. \A k, l \in Entered' : k # l => links'[k].generation # links'[l].generation
    <3> TAKE k, l \in Entered'
    <3>1. edit.generation \in Nat /\ \A e \in Entered : links[e].generation \in Nat
      BY <1>2, <1>5 DEF Edition, LinkRows
    <3>2. CASE k \in Entered /\ l \in Entered
      BY <1>6, <3>2 DEF LinksInv, LinksTypeOK
    <3>3. CASE k = new /\ l \in Entered
      BY <1>3, <1>4, <1>6, <1>7, <3>1, <3>3
    <3>4. CASE l = new /\ k \in Entered
      BY <1>3, <1>4, <1>6, <1>7, <3>1, <3>4
    <3>5. QED
      BY <1>9, <3>2, <3>3, <3>4
  <2>3. linkEdit' \in [LinkEditors -> Edition]
    BY <1>1 DEF LinksInv, LinksTypeOK, Edition, NoEdition, Instants, Expiries
  <2>4. QED
    BY <1>1, <2>1, <2>2, <2>3 DEF LinksInv, LinksTypeOK, Edition
<1>11. ReplacementsStand'
  <2>1. \A b \in LinkEditors :
          linkEdit'[b].read <= instant /\ linkEdit'[b].at # "inserting"
    <3> TAKE b \in LinkEditors
    <3>1. CASE b = a
      BY <1>1, <1>2, <3>1 DEF LinksInv, LinksTypeOK, NoEdition, Instants
    <3>2. CASE b # a
      BY <1>1, <3>2 DEF LinksInv, LinksTypeOK, ReplacementsStand
    <3>3. QED
      BY <3>1, <3>2
  <2>2. QED
    BY <1>1, <2>1 DEF ReplacementsStand
<1>12. OneLinkIsActive'
  <2> SUFFICES ASSUME NEW k \in Entered', NEW l \in Entered', k # l,
                      ActiveAt(k, instant)', ActiveAt(l, instant)',
                      ~links'[k].revived, ~links'[l].revived
               PROVE  FALSE
    BY DEF OneLinkIsActive, ActiveAt
  <2>1. \A e \in Entered : ActiveAt(e, instant)' =>
          ActiveAt(e, instant) /\ links[e].expires <= edit.read
    BY <1>1, <1>3, <1>6 DEF ActiveAt
  <2>2. \A e \in Entered : ~(links[e].expires <= edit.read /\ links[e].expires > instant)
    <3> TAKE e \in Entered
    <3>1. links[e].expires \in Int /\ edit.read \in Int /\ instant \in Int
      BY <1>2, <1>5 DEF LinkRows, Edition, Expiries, Instants
    <3>2. QED
      BY <1>2, <3>1
  <2>3. k \notin Entered /\ l \notin Entered
    BY <2>1, <2>2 DEF ActiveAt
  <2>4. QED
    BY <1>9, <2>3
<1>13. QED
  BY <1>1, <1>10, <1>11, <1>12, CountsAreKept DEF LinksInv

\* An expiry is moved while nobody replaces; a link that had expired in the
\* meantime is remembered as revived.
LEMMA UpdateKeepsInv ==
    ASSUME LinksInv, NEW a \in LinkEditors, UpdateRegistrationEntry(a)
    PROVE  LinksInv'
<1> USE BoundsAreNumbers
<1> DEFINE edit == linkEdit[a]
           m == edit.link
           row == [links[m] EXCEPT !.expires = edit.expires,
                                   !.revived = links[m].revived \/ links[m].expires <= instant]
<1>1. /\ edit.at = "update" /\ YearUnlocked
      /\ m \in Entered /\ ~links[m].revoked
      /\ links' = [links EXCEPT ![m] = row]
      /\ linkEdit' = [linkEdit EXCEPT ![a] = NoEdition]
      /\ UNCHANGED <<visit, started, accepting, instant>>
  <2>1. links' = [links EXCEPT ![m] = row]
    BY DEF UpdateRegistrationEntry
  <2> HIDE DEF row
  <2>2. QED
    BY <2>1 DEF UpdateRegistrationEntry, ActiveAt
<1>2. edit \in Edition /\ instant \in Instants /\ links[m] \in LinkRows /\ m \in Links
  BY <1>1 DEF LinksInv, LinksTypeOK, Edition, Entered
<1>3. /\ row \in LinkRows
      /\ row.generation = links[m].generation /\ row.revoked = links[m].revoked
      /\ ~row.revived => ~links[m].revived /\ ~(links[m].expires <= instant)
  BY <1>2 DEF LinkRows, Edition
<1> HIDE DEF row
<1>4. \A l \in Links : links'[l] = IF l = m THEN row ELSE links[l]
  BY <1>1 DEF LinksInv, LinksTypeOK
<1>5. Entered' \subseteq Entered
  BY <1>1, <1>4 DEF Entered
<1>6. LinksTypeOK'
  <2>1. links' \in [Links -> LinkRows \cup {NoLink}]
    BY <1>1, <1>3 DEF LinksInv, LinksTypeOK
  <2>2. \A k, l \in Entered' : k # l => links'[k].generation # links'[l].generation
    BY <1>1, <1>3, <1>4, <1>5 DEF LinksInv, LinksTypeOK, Entered
  <2>3. linkEdit' \in [LinkEditors -> Edition]
    BY <1>1 DEF LinksInv, LinksTypeOK, Edition, NoEdition, Instants, Expiries
  <2>4. QED
    BY <1>1, <2>1, <2>2, <2>3 DEF LinksInv, LinksTypeOK, Edition
<1>7. ReplacementsStand'
  <2>1. \A b \in LinkEditors :
          linkEdit'[b].read <= instant /\ linkEdit'[b].at # "inserting"
    <3> TAKE b \in LinkEditors
    <3>1. CASE b = a
      BY <1>1, <1>2, <3>1 DEF LinksInv, LinksTypeOK, NoEdition, Instants
    <3>2. CASE b # a
      BY <1>1, <3>2 DEF LinksInv, LinksTypeOK, ReplacementsStand, YearUnlocked
    <3>3. QED
      BY <3>1, <3>2
  <2>2. QED
    BY <1>1, <2>1 DEF ReplacementsStand
<1>8. OneLinkIsActive'
  <2> SUFFICES ASSUME NEW k \in Links, NEW l \in Links, k # l,
                      ActiveAt(k, instant)', ActiveAt(l, instant)',
                      ~links'[k].revived, ~links'[l].revived
               PROVE  FALSE
    BY DEF OneLinkIsActive
  <2>1. \A e \in Links : ActiveAt(e, instant)' /\ ~links'[e].revived =>
          ActiveAt(e, instant) /\ ~links[e].revived
    <3> TAKE e \in Links
    <3>1. CASE e = m
      <4>1. links[m].expires \in Int /\ instant \in Int
        BY <1>2 DEF LinkRows, Expiries, Instants
      <4>2. QED
        BY <1>1, <1>3, <1>4, <3>1, <4>1 DEF ActiveAt
    <3>2. CASE e # m
      BY <1>1, <1>4, <1>5, <3>2 DEF ActiveAt
    <3>3. QED
      BY <3>1, <3>2
  <2>2. QED
    BY <2>1 DEF LinksInv, OneLinkIsActive
<1>9. QED
  BY <1>1, <1>6, <1>7, <1>8, CountsAreKept DEF LinksInv

\* A link that is revoked leaves the others as they are.
LEMMA RevokeKeepsInv ==
    ASSUME LinksInv, NEW m \in Links, RevokeRegistrationEntry(m)
    PROVE  LinksInv'
<1> DEFINE row == [links[m] EXCEPT !.revoked = TRUE]
<1>1. /\ m \in Entered
      /\ \A a \in LinkEditors : m \notin linkEdit[a].replaces
      /\ links' = [links EXCEPT ![m] = row]
      /\ UNCHANGED <<linkEdit, visit, started, accepting, instant>>
  BY DEF RevokeRegistrationEntry, ActiveAt
<1>2. links[m] \in LinkRows
  BY <1>1 DEF LinksInv, LinksTypeOK, Entered
<1>3. /\ row \in LinkRows /\ row.revoked
      /\ row.generation = links[m].generation /\ row.expires = links[m].expires
  BY <1>2 DEF LinkRows
<1> HIDE DEF row
<1>4. \A l \in Links : links'[l] = IF l = m THEN row ELSE links[l]
  BY <1>1 DEF LinksInv, LinksTypeOK
<1>5. Entered' \subseteq Entered /\ Entered \ {m} \subseteq Entered'
  BY <1>1, <1>4 DEF Entered
<1>6. LinksTypeOK'
  <2>1. links' \in [Links -> LinkRows \cup {NoLink}]
    BY <1>1, <1>3 DEF LinksInv, LinksTypeOK
  <2>2. \A k, l \in Entered' : k # l => links'[k].generation # links'[l].generation
    BY <1>1, <1>3, <1>4, <1>5 DEF LinksInv, LinksTypeOK, Entered
  <2>3. QED
    BY <1>1, <2>1, <2>2 DEF LinksInv, LinksTypeOK
<1>7. ReplacementsStand'
  BY <1>1, <1>3, <1>4, <1>5 DEF LinksInv, ReplacementsStand, Entered
<1>8. OneLinkIsActive'
  BY <1>1, <1>3, <1>4, <1>5 DEF LinksInv, OneLinkIsActive, ActiveAt
<1>9. QED
  BY <1>1, <1>6, <1>7, <1>8, CountsAreKept DEF LinksInv

-----------------------------------------------------------------------------
(* Visitors.                                                               *)

\* A window that ends later begins no earlier.
LEMMA WindowsMove ==
    \A r, t \in Instants : Earlier(r) \in Nat /\ (r <= t => Earlier(r) <= Earlier(t))
BY BoundsAreNumbers DEF Earlier, Instants

\* What a visitor does short of creating a session changes no window; what is to
\* be shown is its own place.
LEMMA VisitsComeAndGo ==
    ASSUME LinksInv, NEW v \in Visitors, NEW row \in Visit,
           visit' = [visit EXCEPT ![v] = row],
           row.at # "none" => row.link \in Links,
           row.read <= instant,
           row.at \in {"begun", "counted"} => row.read <= row.begun,
           row.at = "counted" =>
             /\ LinkUnlocked(row.link)
             /\ Cardinality(StartedSince(row.link, Earlier(row.read))) < SessionRequests,
           UNCHANGED <<links, linkEdit, started, accepting, instant>>
    PROVE  LinksInv'
<1>1. LinksTypeOK'
  BY DEF LinksInv, LinksTypeOK, Visit, Entered
<1>2. \A w \in Visitors : visit'[w] = IF w = v THEN row ELSE visit[w]
  BY DEF LinksInv, LinksTypeOK
<1>3. \A l, t : StartedSince(l, t)' = StartedSince(l, t)
  BY DEF StartedSince
<1>4. CountsStand'
  <2>1. \A l \in Links : IsFiniteSet(StartedSince(l, 0))'
    BY DEF LinksInv, CountsStand, StartedSince
  <2>2. \A w \in Visitors : visit'[w].at # "none" => visit'[w].link \in Links
    BY <1>2 DEF LinksInv, CountsStand
  <2>3. \A w, x \in Visitors :
          visit'[w].at = "counted" /\ visit'[x].at = "counted"
            /\ visit'[w].link = visit'[x].link => w = x
    BY <1>2 DEF LinksInv, CountsStand, LinkUnlocked
  <2>4. \A w \in Visitors :
          visit'[w].at = "counted" =>
            Cardinality(StartedSince(visit'[w].link, Earlier(visit'[w].read)))
              < SessionRequests
    BY <1>2 DEF LinksInv, CountsStand
  <2>5. QED
    BY <2>1, <2>2, <2>3, <2>4 DEF CountsStand, StartedSince, Earlier
<1>5. SessionsPerLinkAreLimited'
  BY DEF LinksInv, SessionsPerLinkAreLimited, StartedSince, Earlier
<1>6. VisitsLookBack'
  BY <1>2 DEF LinksInv, VisitsLookBack
<1>7. QED
  BY <1>1, <1>4, <1>5, <1>6, LinksAreKept DEF LinksInv

\* The sessions of a link from an instant on, of a table of sessions.
Since(table, l, t) == {s \in Sessions : table[s].link = l /\ table[s].created >= t}

\* What the two conjuncts about counts say, of the table and the visits.
LEMMA CountsOfTables ==
    /\ CountsStand' <=>
         /\ \A l \in Links : IsFiniteSet(Since(started', l, 0))
         /\ \A v \in Visitors : visit'[v].at # "none" => visit'[v].link \in Links
         /\ \A v, w \in Visitors :
              /\ visit'[v].at = "counted" /\ visit'[w].at = "counted"
              /\ visit'[v].link = visit'[w].link
              => v = w
         /\ \A v \in Visitors :
              visit'[v].at = "counted" =>
                Cardinality(Since(started', visit'[v].link, Earlier(visit'[v].read)))
                  < SessionRequests
    /\ SessionsPerLinkAreLimited' <=>
         \A l \in Links, t \in Instants :
           Cardinality({s \in Since(started', l, Earlier(t)) : started'[s].created <= t})
             <= SessionRequests
    /\ \A l, t : StartedSince(l, t) = Since(started, l, t)
BY DEF CountsStand, SessionsPerLinkAreLimited, StartedSince, Since, Earlier

\* A session is created in the room that was counted under the link's lock: the
\* windows it falls into reach back no further than the count did, since its
\* transaction started after the lookup.
LEMMA CreateKeepsInv ==
    ASSUME LinksInv, NEW v \in Visitors, CreateOnboardingSession(v)
    PROVE  LinksInv'
<1> USE BoundsAreNumbers
<1> DEFINE m == visit[v].link
           r == visit[v].read
           c == visit[v].begun
           row == [link |-> m, created |-> c]
<1> PICK s \in Sessions : started[s] = NoStart /\ started' = [started EXCEPT ![s] = row]
  BY DEF CreateOnboardingSession
<1>1. /\ visit[v].at = "counted"
      /\ visit' = [visit EXCEPT ![v] = NoVisit]
      /\ UNCHANGED <<links, linkEdit, accepting, instant>>
  BY DEF CreateOnboardingSession
<1>2. /\ visit[v] \in Visit /\ m \in Links /\ r \in Instants /\ c \in Instants
      /\ r <= c
      /\ Cardinality(StartedSince(m, Earlier(r))) < SessionRequests
  BY <1>1 DEF LinksInv, LinksTypeOK, CountsStand, VisitsLookBack, Visit
<1>3. /\ \A x \in Sessions : started'[x] = IF x = s THEN row ELSE started[x]
      /\ \A x \in Sessions : started[x].created \in Nat
      /\ started[s].link \notin Links
  BY DEF LinksInv, LinksTypeOK, NoStart, Instants
<1>4. row \in Start /\ row.link = m /\ row.created = c
  BY <1>2 DEF Start
<1> HIDE DEF row, m, r, c
<1>5. LinksTypeOK'
  <2>1. started' \in [Sessions -> Start]
    BY <1>4 DEF LinksInv, LinksTypeOK, Start
  <2>2. visit' \in [Visitors -> Visit]
    BY <1>1 DEF LinksInv, LinksTypeOK, Visit, NoVisit, Instants
  <2>3. QED
    BY <1>1, <2>1, <2>2 DEF LinksInv, LinksTypeOK, Start, Visit, Entered
<1>6. /\ \A l \in Links \ {m} : \A t \in Nat : Since(started', l, t) = Since(started, l, t)
      /\ \A t \in Nat : Since(started', m, t) \subseteq Since(started, m, t) \cup {s}
  BY <1>2, <1>3, <1>4 DEF Since
<1>7. \A l \in Links : \A t \in Nat :
        /\ IsFiniteSet(Since(started, l, t))
        /\ Since(started, l, t) \subseteq Since(started, l, 0)
  <2> TAKE l \in Links
  <2> TAKE t \in Nat
  <2>1. Since(started, l, t) \subseteq Since(started, l, 0)
    BY <1>3 DEF Since
  <2>2. IsFiniteSet(Since(started, l, 0))
    BY CountsOfTables DEF LinksInv, CountsStand
  <2>3. QED
    BY <2>1, <2>2, FS_Subset
<1>8. \A w \in Visitors : visit'[w] = IF w = v THEN NoVisit ELSE visit[w]
  BY <1>1 DEF LinksInv, LinksTypeOK
<1>9. CountsStand'
  <2>1. \A l \in Links : IsFiniteSet(Since(started', l, 0))
    <3> TAKE l \in Links
    <3>1. CASE l = m
      <4>1. IsFiniteSet(Since(started, l, 0) \cup {s})
        BY <1>7, FS_AddElement
      <4>2. Since(started', l, 0) \subseteq Since(started, l, 0) \cup {s}
        BY <1>6, <3>1
      <4>3. QED
        BY <4>1, <4>2, FS_Subset
    <3>2. CASE l # m
      BY <1>6, <1>7, <3>2
    <3>3. QED
      BY <3>1, <3>2
  <2>2. \A w \in Visitors : visit'[w].at = "counted" =>
          /\ visit'[w] = visit[w] /\ visit[w].link \in Links \ {m}
          /\ Earlier(visit[w].read) \in Nat
          /\ Cardinality(Since(started, visit[w].link, Earlier(visit[w].read)))
               < SessionRequests
    <3> TAKE w \in Visitors
    <3> HAVE visit'[w].at = "counted"
    <3>1. visit'[w] = visit[w] /\ w # v
      BY <1>8 DEF NoVisit
    <3>2. visit[w].link \in Links \ {m}
      BY <1>1, <3>1 DEF LinksInv, CountsStand, m
    <3>3. Earlier(visit[w].read) \in Nat
      BY WindowsMove DEF LinksInv, LinksTypeOK
    <3>4. QED
      BY <3>1, <3>2, <3>3, CountsOfTables DEF LinksInv, CountsStand
  <2>3. \A w \in Visitors : visit'[w].at = "counted" =>
          Cardinality(Since(started', visit'[w].link, Earlier(visit'[w].read)))
            < SessionRequests
    <3> TAKE w \in Visitors
    <3> HAVE visit'[w].at = "counted"
    <3>1. /\ visit'[w] = visit[w] /\ visit[w].link \in Links \ {m}
          /\ Earlier(visit[w].read) \in Nat
          /\ Cardinality(Since(started, visit[w].link, Earlier(visit[w].read))) < SessionRequests
      BY <2>2
    <3>2. Since(started', visit[w].link, Earlier(visit[w].read))
            = Since(started, visit[w].link, Earlier(visit[w].read))
      BY <1>6, <3>1
    <3>3. QED
      BY <3>1, <3>2
  <2>4. \A w \in Visitors : visit'[w].at # "none" => visit'[w].link \in Links
    BY <1>8 DEF LinksInv, CountsStand, NoVisit
  <2>5. \A w, x \in Visitors :
          /\ visit'[w].at = "counted" /\ visit'[x].at = "counted"
          /\ visit'[w].link = visit'[x].link
          => w = x
    BY <1>8 DEF LinksInv, CountsStand, NoVisit
  <2>6. QED
    BY <2>1, <2>3, <2>4, <2>5, CountsOfTables
<1>10. SessionsPerLinkAreLimited'
  <2> SUFFICES ASSUME NEW l \in Links, NEW t \in Instants
               PROVE  Cardinality({x \in Since(started', l, Earlier(t)) : started'[x].created <= t})
                        <= SessionRequests
    BY CountsOfTables
  <2> DEFINE before == {x \in Since(started, l, Earlier(t)) : started[x].created <= t}
             after == {x \in Since(started', l, Earlier(t)) : started'[x].created <= t}
  <2>1. Cardinality(before) <= SessionRequests
    BY CountsOfTables DEF LinksInv, SessionsPerLinkAreLimited
  <2>2. Earlier(t) \in Nat /\ Earlier(r) \in Nat /\ (c <= t => Earlier(r) <= Earlier(t))
    BY <1>2, WindowsMove DEF Instants
  <2>3. CASE l # m \/ t < c
    <3>1. after = before
      BY <1>2, <1>3, <1>4, <2>2, <2>3 DEF Instants, Since
    <3>2. QED
      BY <2>1, <3>1
  <2>4. CASE l = m /\ c <= t
    <3> DEFINE counted == Since(started, m, Earlier(r))
    <3>1. after \subseteq counted \cup {s}
      <4>1. Since(started, m, Earlier(t)) \subseteq counted
        BY <1>3, <2>2, <2>4 DEF Since
      <4>2. Since(started', m, Earlier(t)) \subseteq Since(started, m, Earlier(t)) \cup {s}
        BY <1>6, <2>2
      <4>3. QED
        BY <2>4, <4>1, <4>2
    <3>2. IsFiniteSet(counted) /\ Cardinality(counted) \in Nat
      BY <1>2, <1>7, <2>2, FS_CardinalityType
    <3>3. Cardinality(counted) < SessionRequests
      BY <1>2, CountsOfTables
    <3> HIDE DEF counted, after
    <3>4. /\ IsFiniteSet(counted \cup {s})
          /\ Cardinality(counted \cup {s}) <= Cardinality(counted) + 1
      <4>1. /\ IsFiniteSet(counted \cup {s})
            /\ \/ Cardinality(counted \cup {s}) = Cardinality(counted)
               \/ Cardinality(counted \cup {s}) = Cardinality(counted) + 1
        BY <3>2, FS_AddElement, Zenon
      <4>2. QED
        BY <3>2, <4>1
    <3>5. IsFiniteSet(after) /\ Cardinality(after) <= Cardinality(counted \cup {s})
      BY <3>1, <3>4, FS_Subset
    <3>6. Cardinality(after) \in Nat /\ Cardinality(counted \cup {s}) \in Nat
      BY <3>4, <3>5, FS_CardinalityType
    <3>7. Cardinality(after) <= SessionRequests
      BY <3>2, <3>3, <3>4, <3>5, <3>6
    <3>8. QED
      BY <3>7 DEF after
  <2>5. QED
    BY <1>2, <2>3, <2>4 DEF Instants
<1>11. VisitsLookBack'
  BY <1>1, <1>8, BoundsAreNumbers DEF LinksInv, LinksTypeOK, VisitsLookBack, NoVisit, Instants
<1>12. QED
  BY <1>1, <1>5, <1>9, <1>10, <1>11, LinksAreKept DEF LinksInv

\* As the clock goes on links expire, and none comes to life.
LEMMA TickKeepsInv ==
    ASSUME LinksInv, LinkTick
    PROVE  LinksInv'
<1> USE BoundsAreNumbers
<1>1. /\ instant < LastInstant /\ instant' = instant + 1
      /\ UNCHANGED <<links, linkEdit, visit, started, accepting>>
  BY DEF LinkTick
<1>2. LinksTypeOK'
  BY <1>1 DEF LinksInv, LinksTypeOK, Entered, Instants
<1>3. instant \in Nat /\ \A a \in LinkEditors : linkEdit[a].read \in Nat
  BY DEF LinksInv, LinksTypeOK, Instants
<1>4. ReplacementsStand'
  BY <1>1, <1>3 DEF LinksInv, ReplacementsStand, Entered
<1>5. \A l \in Links : ActiveAt(l, instant)' => ActiveAt(l, instant)
  <2> TAKE l \in Links
  <2>1. l \in Entered => links[l].expires \in Nat
    BY DEF LinksInv, LinksTypeOK, Entered, LinkRows, Expiries
  <2>2. QED
    BY <1>1, <1>3, <2>1 DEF ActiveAt, Entered
<1>6. OneLinkIsActive'
  BY <1>1, <1>5 DEF LinksInv, OneLinkIsActive
<1>7. QED
  BY <1>1, <1>2, <1>4, <1>6, CountsAreKept DEF LinksInv

\* Every step keeps the invariant.
LEMMA LinksStep == LinksInv /\ [LinksNext]_linkVars => LinksInv'
<1> SUFFICES ASSUME LinksInv, [LinksNext]_linkVars PROVE LinksInv'
  OBVIOUS
<1> USE BoundsAreNumbers
<1>1. ASSUME NEW a \in LinkEditors, NEW kind \in {"issue", "update"},
             NEW l \in Links \cup {NoLink}, BeginEdit(a, kind, l)
      PROVE  LinksInv'
  <2> PICK expires \in Expiries :
        linkEdit' = [linkEdit EXCEPT ![a] =
          [at |-> kind, read |-> instant, link |-> l, expires |-> expires,
           generation |-> 0, replaces |-> {}]]
    BY <1>1 DEF BeginEdit
  <2> DEFINE row == [at |-> kind, read |-> instant, link |-> l, expires |-> expires,
                     generation |-> 0, replaces |-> {}]
  <2>1. row \in Edition /\ row.at # "inserting" /\ row.read <= instant
    BY DEF LinksInv, LinksTypeOK, Edition, Instants
  <2>2. linkEdit' = [linkEdit EXCEPT ![a] = row]
    OBVIOUS
  <2>3. UNCHANGED <<links, visit, started, accepting, instant>>
    BY <1>1 DEF BeginEdit
  <2> HIDE DEF row
  <2>4. QED
    BY <2>1, <2>2, <2>3, EditorsComeAndGo
<1>2. ASSUME NEW a \in LinkEditors, EditFails(a) PROVE LinksInv'
  <2>1. NoEdition \in Edition /\ NoEdition.at # "inserting" /\ NoEdition.read <= instant
    BY DEF LinksInv, LinksTypeOK, Edition, NoEdition, Instants, Expiries
  <2>2. /\ linkEdit' = [linkEdit EXCEPT ![a] = NoEdition]
        /\ UNCHANGED <<links, visit, started, accepting, instant>>
    BY <1>2 DEF EditFails
  <2>3. QED
    BY <2>1, <2>2, EditorsComeAndGo
<1>3. ASSUME NEW v \in Visitors, NEW l \in Links, LookupRegistrationEntry(v, l)
      PROVE  LinksInv'
  <2> DEFINE row == [at |-> "found", link |-> l, read |-> instant, begun |-> 0]
  <2>1. row \in Visit /\ row.at = "found" /\ row.link = l /\ row.read <= instant
    BY DEF LinksInv, LinksTypeOK, Visit, Instants
  <2>2. /\ visit' = [visit EXCEPT ![v] = row]
        /\ UNCHANGED <<links, linkEdit, started, accepting, instant>>
    BY <1>3 DEF LookupRegistrationEntry
  <2> HIDE DEF row
  <2>3. QED
    BY <2>1, <2>2, VisitsComeAndGo
<1>4. ASSUME NEW v \in Visitors, CountRecentSessions(v) PROVE LinksInv'
  <2> DEFINE row == [visit[v] EXCEPT !.at = "counted"]
  <2>1. /\ visit[v] \in Visit /\ visit[v].link \in Links
        /\ visit[v].read <= instant /\ visit[v].read <= visit[v].begun
    BY <1>4 DEF LinksInv, LinksTypeOK, CountsStand, VisitsLookBack, CountRecentSessions, Visit
  <2>2. /\ row \in Visit /\ row.at = "counted" /\ row.link = visit[v].link
        /\ row.read = visit[v].read /\ row.begun = visit[v].begun
    BY <2>1 DEF Visit
  <2>3. /\ visit' = [visit EXCEPT ![v] = row]
        /\ LinkUnlocked(visit[v].link)
        /\ Cardinality(StartedSince(visit[v].link, Earlier(visit[v].read)))
             < SessionRequests
        /\ UNCHANGED <<links, linkEdit, started, accepting, instant>>
    BY <1>4 DEF CountRecentSessions
  <2> HIDE DEF row
  <2>4. QED
    BY <2>1, <2>2, <2>3, VisitsComeAndGo
<1>5. ASSUME NEW v \in Visitors, VisitFails(v) PROVE LinksInv'
  <2>1. NoVisit \in Visit /\ NoVisit.at = "none" /\ NoVisit.read <= instant
    BY DEF LinksInv, LinksTypeOK, Visit, NoVisit, Instants
  <2>2. /\ visit' = [visit EXCEPT ![v] = NoVisit]
        /\ UNCHANGED <<links, linkEdit, started, accepting, instant>>
    BY <1>5 DEF VisitFails
  <2>3. QED
    BY <2>1, <2>2, VisitsComeAndGo
<1>6. CASE YearChanges
  <2>1. UNCHANGED <<links, linkEdit, visit, started, instant>> /\ accepting' \in BOOLEAN
    BY <1>6 DEF YearChanges
  <2>2. LinksTypeOK'
    BY <2>1 DEF LinksInv, LinksTypeOK, Entered
  <2>3. QED
    BY <2>1, <2>2, CountsAreKept, LinksAreKept DEF LinksInv
<1>7. CASE UNCHANGED linkVars
  <2>1. UNCHANGED <<links, linkEdit, visit, started, accepting, instant>>
    BY <1>7 DEF linkVars
  <2>2. LinksTypeOK'
    BY <2>1 DEF LinksInv, LinksTypeOK, Entered
  <2>3. QED
    BY <2>1, <2>2, CountsAreKept, LinksAreKept DEF LinksInv
<1>10. ASSUME NEW v \in Visitors, FindActiveYear(v) PROVE LinksInv'
  <2> DEFINE row == [visit[v] EXCEPT !.at = "begun", !.begun = instant]
  <2>1. /\ visit[v] \in Visit /\ visit[v].link \in Links
        /\ visit[v].read <= instant /\ instant \in Instants
    BY <1>10 DEF LinksInv, LinksTypeOK, CountsStand, VisitsLookBack, FindActiveYear, Visit
  <2>2. /\ row \in Visit /\ row.at = "begun" /\ row.link = visit[v].link
        /\ row.read = visit[v].read /\ row.begun = instant
    BY <2>1 DEF Visit
  <2>3. /\ visit' = [visit EXCEPT ![v] = row]
        /\ UNCHANGED <<links, linkEdit, started, accepting, instant>>
    BY <1>10 DEF FindActiveYear
  <2> HIDE DEF row
  <2>4. QED
    BY <2>1, <2>2, <2>3, VisitsComeAndGo
<1>8. \A a \in LinkEditors : BeginEdit(a, "issue", NoLink) => LinksInv'
  BY <1>1
<1>9. \A a \in LinkEditors : \A l \in Entered : BeginEdit(a, "update", l) => LinksInv'
  BY <1>1 DEF Entered
<1>11. QED
  BY <1>2, <1>3, <1>4, <1>5, <1>6, <1>7, <1>8, <1>9, <1>10,
     ReplaceKeepsInv, IssueKeepsInv,
     UpdateKeepsInv, RevokeKeepsInv, CreateKeepsInv, TickKeepsInv DEF LinksNext

\* The inductive invariant holds of every behaviour.
THEOREM LinksInvariant == LinksSpec => []LinksInv
BY LinksStart, LinksStep, PTL DEF LinksSpec

\* Links, edits, visits and sessions keep their shape, and every link issued has
\* a generation of its own (LockGuardianRegistrationEntries).
THEOREM LinksTypeCorrect == LinksSpec => []LinksTypeOK
<1>1. LinksInv => LinksTypeOK
  BY DEF LinksInv
<1>2. QED
  BY <1>1, LinksInvariant, PTL

\* Of two active links one was expired when its expiry was moved: issuing and
\* moving expiries never leave two otherwise, whatever they read before the lock
\* (IssueRegistrationEntry, UpdateRegistrationEntry).
THEOREM OneActiveLink == LinksSpec => []OneLinkIsActive
<1>1. LinksInv => OneLinkIsActive
  BY DEF LinksInv
<1>2. QED
  BY <1>1, LinksInvariant, PTL

\* No window holds more sessions of a link than the limit, however many visitors
\* count at once (createOnboardingSession).
THEOREM SessionsAreLimited == LinksSpec => []SessionsPerLinkAreLimited
<1>1. LinksInv => SessionsPerLinkAreLimited
  BY DEF LinksInv
<1>2. QED
  BY <1>1, LinksInvariant, PTL

-----------------------------------------------------------------------------
(* The records of guardians and their students.                            *)

Departing == [guardian : Guardians, pupils : SUBSET Pupils, alone : SUBSET Pupils,
              kept : SUBSET Pupils, self : BOOLEAN, ready : BOOLEAN]

Underway(d) == departure[d] # NoDeparture

\* What a departure has counted is true of every student of its that nobody has
\* written since.
CountsAreCurrent(d) ==
    /\ departure[d].alone \subseteq departure[d].pupils
    /\ departure[d].kept \subseteq departure[d].alone
    /\ \A s \in departure[d].pupils \ contested :
         /\ s \in departure[d].alone
              <=> OtherActiveGuardians(departure[d].guardian, s) = {}
         /\ departure[d].ready =>
              (s \in departure[d].kept <=> s \in departure[d].alone /\ s \in enrolled)

\* The inductive invariant: shapes, current counts, and the two properties.
RecordsInv ==
    /\ RecordsTypeOK
    /\ \A d \in Departures : Underway(d) => CountsAreCurrent(d)
    /\ LastGuardianSettlesTheStudent
    /\ MembershipsAreRetained

\* At the start nobody departs.
LEMMA RecordsStart == RecordsInit => RecordsInv
BY DEF RecordsInit, RecordsInv, RecordsTypeOK, Underway, LastGuardianSettlesTheStudent,
   MembershipsAreRetained

\* A write to students that no departure looks at disturbs no count, and of those
\* one looks at it takes note.
LEMMA WritesKeepCounts ==
    ASSUME RecordsInv, NEW pupils, Writes(pupils), RecordsTypeOK',
           \A s \in Pupils \ pupils :
             /\ s \in enrolled' <=> s \in enrolled
             /\ \A g \in Guardians : OtherActiveGuardians(g, s)' = OtherActiveGuardians(g, s)
    PROVE  RecordsInv'
<1>1. /\ contested' = contested \cup {s \in pupils : Looking(s) # {}}
      /\ UNCHANGED <<departure, leftBehind, destroyed>>
  BY DEF Writes
<1>2. ASSUME NEW d \in Departures, Underway(d)' PROVE CountsAreCurrent(d)'
  <2>1. /\ Underway(d) /\ CountsAreCurrent(d) /\ departure[d] \in Departing
        /\ departure'[d] = departure[d]
    BY <1>1, <1>2 DEF RecordsInv, RecordsTypeOK, Underway, Departing
  <2>2. ASSUME NEW s \in departure[d].pupils \ contested' PROVE s \in Pupils \ pupils
    BY <1>1, <2>1, <2>2 DEF Looking, Underway, Departing
  <2>3. QED
    BY <1>1, <2>1, <2>2 DEF CountsAreCurrent, Departing
<1>3. QED
  BY <1>1, <1>2 DEF RecordsInv, LastGuardianSettlesTheStudent, MembershipsAreRetained

\* A departure begins with a count of its own.
LEMMA BeginKeepsInv ==
    ASSUME RecordsInv, NEW d \in Departures, NEW g \in Guardians,
           NEW pupils \in SUBSET Pupils, NEW self \in BOOLEAN,
           BeginDeparture(d, g, pupils, self)
    PROVE  RecordsInv'
<1> DEFINE row == [guardian |-> g, pupils |-> pupils, self |-> self,
                   alone |-> {s \in pupils : OtherActiveGuardians(g, s) = {}},
                   kept |-> {}, ready |-> FALSE]
<1>1. /\ departure' = [departure EXCEPT ![d] = row]
      /\ contested' = contested \cup {s \in pupils : Looking(s) # {}}
      /\ UNCHANGED <<adult, pupil, relations, enrolled, placed, leftBehind, destroyed>>
  BY DEF BeginDeparture, officeVars
<1>2. row \in Departing
  BY DEF Departing
<1>3. RecordsTypeOK'
  BY <1>1, <1>2 DEF RecordsInv, RecordsTypeOK, Departing
<1>4. \A s : \A h : OtherActiveGuardians(h, s)' = OtherActiveGuardians(h, s)
  BY <1>1 DEF OtherActiveGuardians, GuardiansOf
<1>5. ASSUME NEW e \in Departures, Underway(e)' PROVE CountsAreCurrent(e)'
  <2>1. CASE e = d
    <3>1. departure'[e] = row
      BY <1>1, <2>1 DEF RecordsInv, RecordsTypeOK
    <3>2. QED
      BY <1>1, <1>4, <3>1 DEF CountsAreCurrent
  <2>2. CASE e # d
    <3>1. departure'[e] = departure[e] /\ CountsAreCurrent(e)
      BY <1>1, <1>5, <2>2 DEF RecordsInv, RecordsTypeOK, Underway
    <3>2. QED
      BY <1>1, <1>4, <3>1 DEF CountsAreCurrent
  <2>3. QED
    BY <2>1, <2>2
<1>6. QED
  BY <1>1, <1>3, <1>5 DEF RecordsInv, LastGuardianSettlesTheStudent, MembershipsAreRetained

\* The second count is taken at one moment too.
LEMMA CountKeepsInv ==
    ASSUME RecordsInv, NEW d \in Departures, CountAssociated(d)
    PROVE  RecordsInv'
<1> DEFINE row == [departure[d] EXCEPT
                     !.kept = {s \in departure[d].alone : s \in enrolled}, !.ready = TRUE]
<1>1. /\ departure' = [departure EXCEPT ![d] = row]
      /\ Underway(d)
      /\ UNCHANGED <<adult, pupil, relations, enrolled, placed, contested, leftBehind, destroyed>>
  BY DEF CountAssociated, officeVars, historyVars, AssociatedData, Underway
<1>2. departure[d] \in Departing /\ CountsAreCurrent(d)
  BY <1>1 DEF RecordsInv, RecordsTypeOK, Departing, Underway
<1>3. /\ row \in Departing
      /\ row.guardian = departure[d].guardian /\ row.pupils = departure[d].pupils
      /\ row.alone = departure[d].alone
      /\ row.kept = {s \in departure[d].alone : s \in enrolled}
  BY <1>2 DEF Departing
<1>4. RecordsTypeOK'
  BY <1>1, <1>3 DEF RecordsInv, RecordsTypeOK, Departing
<1>5. \A s : \A h : OtherActiveGuardians(h, s)' = OtherActiveGuardians(h, s)
  BY <1>1 DEF OtherActiveGuardians, GuardiansOf
<1>6. ASSUME NEW e \in Departures, Underway(e)' PROVE CountsAreCurrent(e)'
  <2>1. CASE e = d
    <3>1. departure'[e] = row
      BY <1>1, <2>1 DEF RecordsInv, RecordsTypeOK
    <3> HIDE DEF row
    <3>2. QED
      BY <1>1, <1>2, <1>3, <1>5, <2>1, <3>1 DEF CountsAreCurrent
  <2>2. CASE e # d
    <3>1. departure'[e] = departure[e] /\ CountsAreCurrent(e)
      BY <1>1, <1>6, <2>2 DEF RecordsInv, RecordsTypeOK, Underway
    <3>2. QED
      BY <1>1, <1>5, <3>1 DEF CountsAreCurrent
  <2>3. QED
    BY <2>1, <2>2
<1>7. QED
  BY <1>1, <1>4, <1>6 DEF RecordsInv, LastGuardianSettlesTheStudent, MembershipsAreRetained

\* A departure that ends takes its counts with it.
LEMMA FailureKeepsInv ==
    ASSUME RecordsInv, NEW d \in Departures, DepartureFails(d)
    PROVE  RecordsInv'
<1>1. /\ departure' = [departure EXCEPT ![d] = NoDeparture]
      /\ UNCHANGED <<adult, pupil, relations, enrolled, placed, contested, leftBehind, destroyed>>
  BY DEF DepartureFails, officeVars, historyVars
<1>2. RecordsTypeOK'
  BY <1>1 DEF RecordsInv, RecordsTypeOK
<1>3. \A s : \A h : OtherActiveGuardians(h, s)' = OtherActiveGuardians(h, s)
  BY <1>1 DEF OtherActiveGuardians, GuardiansOf
<1>4. ASSUME NEW e \in Departures, Underway(e)' PROVE CountsAreCurrent(e)'
  <2>1. departure'[e] = departure[e] /\ CountsAreCurrent(e)
    BY <1>1, <1>4 DEF RecordsInv, RecordsTypeOK, Underway
  <2>2. QED
    BY <1>1, <1>3, <2>1 DEF CountsAreCurrent
<1>5. QED
  BY <1>1, <1>2, <1>4 DEF RecordsInv, LastGuardianSettlesTheStudent, MembershipsAreRetained

\* A departure commits: its students are settled by counts that still hold, or
\* contested, and whom it touches are contested for the departures that look.
LEMMA CommitKeepsInv ==
    ASSUME RecordsInv, NEW d \in Departures, CommitDeparture(d)
    PROVE  RecordsInv'
<1> DEFINE g == departure[d].guardian
           pupils == departure[d].pupils
           erased == departure[d].alone \ departure[d].kept
           left == {r \in relations : r[2] \notin erased /\ ~(r[1] = g /\ r[2] \in pupils)}
<1>1. /\ Underway(d) /\ departure[d].ready
      /\ relations' = left
      /\ pupil' = [s \in Pupils |->
           CASE s \in erased -> "erased"
             [] s \in departure[d].kept -> "deleted"
             [] OTHER -> pupil[s]]
      /\ adult' = IF departure[d].self THEN [adult EXCEPT ![g] = "deleted"] ELSE adult
      /\ enrolled' = enrolled \ erased
      /\ placed' = placed \ erased
      /\ contested' = contested \cup {s \in pupils : Looking(s) # {d}}
           \cup {s \in Pupils : departure[d].self /\ <<g, s>> \in left}
      /\ leftBehind' = leftBehind \cup
           {s \in pupils : /\ pupil'[s] = "active"
                           /\ \A h \in Guardians :
                                <<h, s>> \in left => adult'[h] = "deleted"}
      /\ destroyed' = destroyed
           \cup {<<s, "membership">> : s \in erased \cap enrolled}
           \cup {<<s, "placement">> : s \in erased \cap placed}
      /\ departure' = [departure EXCEPT ![d] = NoDeparture]
  BY DEF CommitDeparture, Underway
<1>2. departure[d] \in Departing /\ CountsAreCurrent(d)
  BY <1>1 DEF RecordsInv, RecordsTypeOK, Departing, Underway
<1>3. /\ g \in Guardians /\ pupils \subseteq Pupils /\ erased \subseteq pupils
      /\ departure[d].kept \subseteq departure[d].alone
      /\ departure[d].alone \subseteq pupils
  BY <1>2 DEF CountsAreCurrent, Departing
<1>4. RecordsTypeOK'
  BY <1>1, <1>3 DEF RecordsInv, RecordsTypeOK
<1>5. ASSUME NEW e \in Departures, Underway(e)' PROVE CountsAreCurrent(e)'
  <2>1. e # d /\ departure'[e] = departure[e] /\ Underway(e) /\ CountsAreCurrent(e)
    BY <1>1, <1>5 DEF RecordsInv, RecordsTypeOK, Underway
  <2>2. departure[e] \in Departing
    BY <2>1 DEF RecordsInv, RecordsTypeOK, Departing, Underway
  <2>3. ASSUME NEW s \in departure[e].pupils \ contested'
        PROVE  /\ s \in enrolled' <=> s \in enrolled
               /\ \A h \in Guardians : OtherActiveGuardians(h, s)' = OtherActiveGuardians(h, s)
    <3>1. e \in Looking(s)
      BY <2>1, <2>3 DEF Looking, Underway
    <3>2. s \notin pupils /\ s \in Pupils
      BY <1>1, <2>1, <2>2, <2>3, <3>1 DEF Departing
    <3>3. GuardiansOf(s)' = GuardiansOf(s)
      BY <1>1, <1>3, <3>2 DEF GuardiansOf
    <3>4. \A h \in GuardiansOf(s) : adult'[h] = adult[h]
      <4> TAKE h \in GuardiansOf(s)
      <4>1. <<h, s>> \in left
        BY <1>3, <3>2 DEF GuardiansOf
      <4>2. departure[d].self => h # g
        BY <1>1, <2>3, <3>2, <4>1
      <4>3. QED
        BY <1>1, <4>2 DEF RecordsInv, RecordsTypeOK, GuardiansOf
    <3>5. QED
      BY <1>1, <1>3, <3>2, <3>3, <3>4 DEF OtherActiveGuardians
  <2> HIDE DEF g, pupils, erased, left
  <2>4. departure[e].pupils \ contested' \subseteq departure[e].pupils \ contested
    BY <1>1
  <2>5. QED
    BY <2>1, <2>2, <2>3, <2>4 DEF CountsAreCurrent, Departing
<1>6. LastGuardianSettlesTheStudent'
  <2> SUFFICES ASSUME NEW s \in pupils, s \notin contested, pupil'[s] = "active",
                      \A h \in Guardians : <<h, s>> \in left => adult'[h] = "deleted"
               PROVE  FALSE
    BY <1>1 DEF RecordsInv, LastGuardianSettlesTheStudent
  <2>1. s \notin departure[d].alone
    BY <1>1, <1>3
  <2>2. PICK h \in OtherActiveGuardians(g, s) : TRUE
    BY <1>2, <2>1 DEF CountsAreCurrent
  <2>3. h \in Guardians /\ h # g /\ <<h, s>> \in relations /\ adult[h] = "active"
    BY <2>2 DEF OtherActiveGuardians, GuardiansOf
  <2>4. <<h, s>> \in left
    BY <2>1, <2>3
  <2>5. adult'[h] = adult[h]
    BY <1>1, <2>3 DEF RecordsInv, RecordsTypeOK
  <2>6. QED
    BY <2>3, <2>4, <2>5
<1>7. MembershipsAreRetained'
  <2> SUFFICES ASSUME NEW s \in erased \cap enrolled, s \notin contested
               PROVE  FALSE
    BY <1>1 DEF RecordsInv, MembershipsAreRetained
  <2>1. QED
    BY <1>1, <1>2, <1>3 DEF CountsAreCurrent
<1>8. QED
  BY <1>4, <1>5, <1>6, <1>7 DEF RecordsInv

\* Whoever adds and corrects keeps the shapes, and writes to every student whose
\* guardians or membership it changes.
LEMMA OthersKeepInv ==
    ASSUME RecordsInv,
           \/ \E g \in Guardians, s \in Pupils :
                \/ Relate(g, s) \/ DeleteGuardianRelationship(g, s)
                \/ \E automatic \in BOOLEAN : CreateStudent(g, s, automatic)
           \/ \E g \in Guardians : ChangeAdult(g)
           \/ \E s \in Pupils :
                \/ CreatePlaceholderStudent(s) \/ ChangeMembership(s) \/ ChangePlacement(s)
                \/ ChangeStudent(s)
           \/ \E from, to \in Pupils : ReconcilePlaceholderStudent(from, to)
    PROVE  RecordsInv'
<1> USE DEF RecordsInv, RecordsTypeOK, Writes, OtherActiveGuardians, GuardiansOf
<1>1. ASSUME NEW g \in Guardians, NEW s \in Pupils,
             Relate(g, s) \/ DeleteGuardianRelationship(g, s)
      PROVE  RecordsInv'
  <2>1. RecordsTypeOK' /\ Writes({s})
    BY <1>1 DEF Relate, DeleteGuardianRelationship
  <2>2. \A r \in Pupils \ {s} :
          /\ r \in enrolled' <=> r \in enrolled
          /\ \A h \in Guardians : OtherActiveGuardians(h, r)' = OtherActiveGuardians(h, r)
    BY <1>1 DEF Relate, DeleteGuardianRelationship
  <2>3. QED
    BY <2>1, <2>2, WritesKeepCounts
<1>2. ASSUME NEW g \in Guardians, NEW s \in Pupils, NEW automatic \in BOOLEAN,
             CreateStudent(g, s, automatic)
      PROVE  RecordsInv'
  <2>1. RecordsTypeOK' /\ Writes({s})
    BY <1>2 DEF CreateStudent
  <2>2. \A r \in Pupils \ {s} :
          /\ r \in enrolled' <=> r \in enrolled
          /\ \A h \in Guardians : OtherActiveGuardians(h, r)' = OtherActiveGuardians(h, r)
    BY <1>2 DEF CreateStudent
  <2>3. QED
    BY <2>1, <2>2, WritesKeepCounts
<1>3. ASSUME NEW g \in Guardians, ChangeAdult(g) PROVE RecordsInv'
  <2> DEFINE pupils == {s \in Pupils : <<g, s>> \in relations}
  <2>1. RecordsTypeOK' /\ Writes(pupils)
    BY <1>3 DEF ChangeAdult
  <2>2. \A r \in Pupils \ pupils :
          /\ r \in enrolled' <=> r \in enrolled
          /\ \A h \in Guardians : OtherActiveGuardians(h, r)' = OtherActiveGuardians(h, r)
    BY <1>3 DEF ChangeAdult
  <2> HIDE DEF pupils
  <2>3. QED
    BY <2>1, <2>2, WritesKeepCounts
<1>4. ASSUME NEW s \in Pupils,
             \/ CreatePlaceholderStudent(s) \/ ChangeMembership(s) \/ ChangePlacement(s)
             \/ ChangeStudent(s)
      PROVE  RecordsInv'
  <2>1. RecordsTypeOK' /\ Writes({s})
    BY <1>4 DEF CreatePlaceholderStudent, ChangeMembership, ChangePlacement, ChangeStudent
  <2>2. \A r \in Pupils \ {s} :
          /\ r \in enrolled' <=> r \in enrolled
          /\ \A h \in Guardians : OtherActiveGuardians(h, r)' = OtherActiveGuardians(h, r)
    BY <1>4 DEF CreatePlaceholderStudent, ChangeMembership, ChangePlacement, ChangeStudent
  <2>3. QED
    BY <2>1, <2>2, WritesKeepCounts
<1>5. ASSUME NEW from \in Pupils, NEW to \in Pupils, ReconcilePlaceholderStudent(from, to)
      PROVE  RecordsInv'
  <2>1. RecordsTypeOK' /\ Writes({from, to})
    BY <1>5 DEF ReconcilePlaceholderStudent
  <2>2. \A r \in Pupils \ {from, to} :
          /\ r \in enrolled' <=> r \in enrolled
          /\ \A h \in Guardians : OtherActiveGuardians(h, r)' = OtherActiveGuardians(h, r)
    BY <1>5 DEF ReconcilePlaceholderStudent
  <2>3. QED
    BY <2>1, <2>2, WritesKeepCounts
<1>6. QED
  BY <1>1, <1>2, <1>3, <1>4, <1>5

\* Every step keeps the invariant.
LEMMA RecordsStep == RecordsInv /\ [RecordsNext]_recordsVars => RecordsInv'
<1> SUFFICES ASSUME RecordsInv, [RecordsNext]_recordsVars PROVE RecordsInv'
  OBVIOUS
<1>1. ASSUME NEW d \in Departures, NEW g \in Guardians, NEW s \in Pupils, Detach(d, g, s)
      PROVE  RecordsInv'
  <2>1. {s} \in SUBSET Pupils /\ BeginDeparture(d, g, {s}, FALSE)
    BY <1>1 DEF Detach
  <2>2. QED
    BY <2>1, BeginKeepsInv
<1>2. ASSUME NEW d \in Departures, NEW g \in Guardians, DeleteSelf(d, g)
      PROVE  RecordsInv'
  <2>1. BeginDeparture(d, g, {s \in Pupils : <<g, s>> \in relations}, TRUE)
    BY <1>2 DEF DeleteSelf
  <2>2. {s \in Pupils : <<g, s>> \in relations} \in SUBSET Pupils
    OBVIOUS
  <2>3. QED
    BY <2>1, <2>2, BeginKeepsInv
<1>3. ASSUME NEW d \in Departures,
             CountAssociated(d) \/ CommitDeparture(d) \/ DepartureFails(d)
      PROVE  RecordsInv'
  BY <1>3, CountKeepsInv, CommitKeepsInv, FailureKeepsInv
<1>4. CASE UNCHANGED recordsVars
  <2>1. UNCHANGED <<adult, pupil, relations, enrolled, placed, departure, contested,
                    leftBehind, destroyed>>
    BY <1>4 DEF recordsVars, officeVars, historyVars
  <2>2. QED
    BY <2>1 DEF RecordsInv, RecordsTypeOK, Underway, CountsAreCurrent, OtherActiveGuardians,
       GuardiansOf, LastGuardianSettlesTheStudent, MembershipsAreRetained
<1>5. QED
  BY <1>1, <1>2, <1>3, <1>4, OthersKeepInv DEF RecordsNext

\* The inductive invariant holds of every behaviour.
THEOREM RecordsInvariant == RecordsSpec => []RecordsInv
BY RecordsStart, RecordsStep, PTL DEF RecordsSpec

\* Of guardians who leave, whatever overlaps them, the last active one settles
\* the student, unless the student was written under its departure (Detach,
\* DeleteSelf).
THEOREM LastGuardianSettles == RecordsSpec => []LastGuardianSettlesTheStudent
<1>1. RecordsInv => LastGuardianSettlesTheStudent
  BY DEF RecordsInv
<1>2. QED
  BY <1>1, RecordsInvariant, PTL

\* A membership is erased with its student only when it came after the count of
\* associated data (CountStudentAssociatedData, HardDeleteStudent).
THEOREM MembershipsRetained == RecordsSpec => []MembershipsAreRetained
<1>1. RecordsInv => MembershipsAreRetained
  BY DEF RecordsInv
<1>2. QED
  BY <1>1, RecordsInvariant, PTL
=============================================================================
