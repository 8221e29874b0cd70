--------------------------- MODULE GuardianOnboarding ---------------------------
(***************************************************************************)
(* First contact of guardians with a school year: invitation contacts and  *)
(* their links, onboarding sessions, mailbox proof by code, consent, the   *)
(* adult record, and the exchange of the onboarding session for a first    *)
(* guardian session (backend/internal/identity/guardian_onboarding.go with *)
(* its queries and data/guardian_onboarding.go).                           *)
(*                                                                         *)
(* A client's request is a chain of transactions; what an earlier one read *)
(* is held in work until the later one commits.  Where the statements of a *)
(* later transaction ask everything again, the chain is one action.        *)
(* Expiry of an onboarding session is a revocation, rate limits and wrong  *)
(* codes are those of AdultSignIn.                                         *)
(***************************************************************************)
EXTENDS Naturals, FiniteSets

CONSTANTS
    Mailboxes,      \* e-mail addresses
    OnboardingIds,  \* onboarding sessions
    InviteTokens,   \* invitation tokens
    Clients,        \* requests in progress at a time
    Office,         \* marks an adult record the school's office entered
    Nobody,         \* no mailbox, no session, no token
    NoOnboarding, NoContact

ASSUME OnboardingAssumption ==
    /\ Nobody \notin Mailboxes \cup OnboardingIds \cup InviteTokens
    /\ Office \notin OnboardingIds
    /\ NoOnboarding \notin [verified : Mailboxes \cup {Nobody}, done : BOOLEAN, revoked : BOOLEAN]

VARIABLES
    contacts,   \* mailbox -> guardian_invitation_contacts row, or NoContact
    invites,    \* token -> "free", "live", "expired", "revoked" or "spent"
    redeemed,   \* history: token -> onboarding sessions it has started
    onboarding, \* session -> its row, or NoOnboarding
    proven,     \* history: session -> mailboxes it has proved
    otps,       \* <<session, mailbox>> of each code that can still be used
    consents,   \* session -> verified_email of its consent, or Nobody
    adults,     \* mailbox -> who entered each of its active adult records
    guardians,  \* mailboxes whose adult has a relationship with a student
    exchanged,  \* history: session -> guardian sessions it has bought
    work        \* client -> its request in progress

inviteVars == <<contacts, invites, redeemed>>
recordVars == <<consents, adults, guardians>>
onboardingVars == <<inviteVars, onboarding, proven, otps, recordVars, exchanged, work>>

Resting == [at |-> "resting", session |-> Nobody, mailbox |-> Nobody, token |-> Nobody]

Known(m) == contacts[m] # NoContact
Started == {s \in OnboardingIds : onboarding[s] # NoOnboarding}

OnboardingInit ==
    /\ contacts = [m \in Mailboxes |-> NoContact]
    /\ invites = [t \in InviteTokens |-> "free"]
    /\ redeemed = [t \in InviteTokens |-> 0]
    /\ onboarding = [s \in OnboardingIds |-> NoOnboarding]
    /\ proven = [s \in OnboardingIds |-> {}]
    /\ otps = {}
    /\ consents = [s \in OnboardingIds |-> Nobody]
    /\ adults = [m \in Mailboxes |-> {}]
    /\ guardians = {}
    /\ exchanged = [s \in OnboardingIds |-> 0]
    /\ work = [c \in Clients |-> Resting]

Proceed(c, at, s, m, t) ==
    work' = [work EXCEPT ![c] = [at |-> at, session |-> s, mailbox |-> m, token |-> t]]
Rest(c) == work' = [work EXCEPT ![c] = Resting]

\* A request is refused, or one of its transactions is rolled back.
RequestEnds(c) ==
    /\ work[c] # Resting
    /\ Rest(c)
    /\ UNCHANGED <<inviteVars, onboarding, proven, otps, recordVars, exchanged>>

-----------------------------------------------------------------------------
(* Invitation contacts.                                                    *)

RevokeGuardianInvitationToken(tokens, t) ==
    [tokens EXCEPT ![t] = IF @ = "spent" THEN "spent" ELSE "revoked"]

CreateGuardianInvitationToken(tokens, t) == [tokens EXCEPT ![t] = "live"]

\* The contacts are listed before the transaction that writes begins.
ListGuardianInvitationContacts(c) ==
    /\ work[c] = Resting
    /\ \E m \in Mailboxes :
         /\ Known(m) => invites[contacts[m].token] # "live"
         /\ Proceed(c, "import", Nobody, m, IF Known(m) THEN contacts[m].token ELSE Nobody)
    /\ UNCHANGED <<inviteVars, onboarding, proven, otps, recordVars, exchanged>>

\* One row of the file: a contact, or a new token for a contact whose token was
\* seen dead.  The token that is revoked is the one that was listed.
ImportInvitationContacts(c) ==
    LET m == work[c].mailbox
        listed == work[c].token
    IN  /\ work[c].at = "import"
        /\ (listed = Nobody) = ~Known(m)
        /\ \E t \in InviteTokens :
             /\ invites[t] = "free"
             /\ LET issued == CreateGuardianInvitationToken(invites, t) IN
                  invites' = IF listed = Nobody THEN issued
                             ELSE RevokeGuardianInvitationToken(issued, listed)
             /\ contacts' = [contacts EXCEPT ![m] = [token |-> t, accepted |-> Nobody]]
        /\ Rest(c)
        /\ UNCHANGED <<redeemed, onboarding, proven, otps, recordVars, exchanged>>

RevokeInvitationContact(m) ==
    /\ Known(m)
    /\ invites' = RevokeGuardianInvitationToken(invites, contacts[m].token)
    /\ UNCHANGED <<contacts, redeemed, onboarding, proven, otps, recordVars, exchanged, work>>

InvitationExpires(t) ==
    /\ invites[t] = "live"
    /\ invites' = [invites EXCEPT ![t] = "expired"]
    /\ UNCHANGED <<contacts, redeemed, onboarding, proven, otps, recordVars, exchanged, work>>

-----------------------------------------------------------------------------
(* Onboarding sessions and mailbox proof.                                  *)

GetGuardianInvitationTokenByHash(c) ==
    /\ work[c] = Resting
    /\ \E t \in InviteTokens : invites[t] = "live" /\ Proceed(c, "redeem", Nobody, Nobody, t)
    /\ UNCHANGED <<inviteVars, onboarding, proven, otps, recordVars, exchanged>>

\* Mutant of ConsumeGuardianInvitationToken: found by its identifier alone.
ConsumeByIdentifier(t) == invites' = [invites EXCEPT ![t] = "spent"]

ConsumeGuardianInvitationToken(t) ==
    /\ invites[t] = "live"
    /\ invites' = [invites EXCEPT ![t] = "spent"]

CreateGuardianOnboardingSession(s, m) ==
    /\ onboarding[s] = NoOnboarding
    /\ onboarding' = [onboarding EXCEPT ![s] = [verified |-> m, done |-> FALSE, revoked |-> FALSE]]
    /\ proven' = [proven EXCEPT ![s] = {m} \ {Nobody}]

Redeem(c) ==
    LET t == work[c].token IN
      /\ work[c].at = "redeem"
      /\ ConsumeGuardianInvitationToken(t)
      /\ \E m \in Mailboxes, s \in OnboardingIds :
           /\ Known(m) /\ contacts[m].token = t
           /\ CreateGuardianOnboardingSession(s, m)
      /\ redeemed' = [redeemed EXCEPT ![t] = @ + 1]
      /\ Rest(c)
      /\ UNCHANGED <<contacts, otps, recordVars, exchanged>>

\* From the shared link, without a mailbox yet.
BeginOnboarding ==
    /\ \E s \in OnboardingIds : CreateGuardianOnboardingSession(s, Nobody)
    /\ UNCHANGED <<inviteVars, otps, recordVars, exchanged, work>>

Live(s) == s \in Started /\ ~onboarding[s].done /\ ~onboarding[s].revoked

RequestOTP(s, m) ==
    /\ Live(s)
    /\ onboarding[s].verified = Nobody
    /\ otps' = otps \cup {<<s, m>>}
    /\ UNCHANGED <<inviteVars, onboarding, proven, recordVars, exchanged, work>>

\* Mutant of CompleteGuardianOnboardingSession: a consumed session is found again.
CompleteAgain(s) == s \in Started /\ ~onboarding[s].revoked

\* The gate all exchanges go through.
CompleteGuardianOnboardingSession(s) == Live(s)

CreateGuardianSession(s) == exchanged' = [exchanged EXCEPT ![s] = @ + 1]

\* One active adult record with a relationship.
ExistingGuardian(m) == Cardinality(adults[m]) = 1 /\ m \in guardians

\* Codes for several mailboxes may be outstanding, and the last one proved
\* counts.  A live invitation of the mailbox is spent with it.  A guardian who
\* is known and has consented in this year goes straight on.
VerifyOTP(s, m) ==
    /\ <<s, m>> \in otps
    /\ Live(s)
    /\ otps' = otps \ {<<s, m>>}
    /\ proven' = [proven EXCEPT ![s] = @ \cup {m}]
    /\ invites' = IF Known(m) /\ invites[contacts[m].token] = "live"
                  THEN [invites EXCEPT ![contacts[m].token] = "spent"] ELSE invites
    /\ LET known == ExistingGuardian(m) /\ \E r \in OnboardingIds : consents[r] = m
       IN  /\ onboarding' = [onboarding EXCEPT ![s].verified = m, ![s].done = known]
           /\ IF known THEN CreateGuardianSession(s) ELSE UNCHANGED exchanged
    /\ UNCHANGED <<contacts, redeemed, recordVars, work>>

RevokeOnboardingSession(s) ==
    /\ Live(s)
    /\ onboarding' = [onboarding EXCEPT ![s].revoked = TRUE]
    /\ UNCHANGED <<inviteVars, proven, otps, recordVars, exchanged, work>>

-----------------------------------------------------------------------------
(* Consent, the adult record and the exchange.                             *)

\* Mutant of OfItsMailbox: the address of the form is taken as it is.
OfAnyMailbox(s, m) == onboarding[s].verified # Nobody

\* The address that is consented for is the one proved last.
OfItsMailbox(s, m) == onboarding[s].verified = m

LookupForConsent(c) ==
    /\ work[c] = Resting
    /\ \E s \in OnboardingIds, m \in Mailboxes :
         /\ Live(s)
         /\ OfItsMailbox(s, m)
         /\ Proceed(c, "consent", s, m, Nobody)
    /\ UNCHANGED <<inviteVars, onboarding, proven, otps, recordVars, exchanged>>

\* A spent invitation of the mailbox is marked with the consent; a consent
\* marks one invitation.
LinkGuardianInvitationContactConsent(m, s) ==
    IF Known(m) /\ contacts[m].accepted = Nobody /\ invites[contacts[m].token] = "spent"
    THEN /\ \A other \in Mailboxes \ {m} : Known(other) => contacts[other].accepted # s
         /\ contacts' = [contacts EXCEPT ![m].accepted = s]
    ELSE UNCHANGED contacts

\* A session's first consent stays; asked again, it is linked as it is.
AcceptConsent(c) ==
    LET s == work[c].session
        m == work[c].mailbox
    IN  /\ work[c].at = "consent"
        /\ consents' = IF consents[s] = Nobody THEN [consents EXCEPT ![s] = m] ELSE consents
        /\ LinkGuardianInvitationContactConsent(m, s)
        /\ Proceed(c, "exchange", s, m, Nobody)
        /\ UNCHANGED <<invites, redeemed, onboarding, proven, otps, adults, guardians, exchanged>>

exchangeExistingGuardian(c) ==
    LET s == work[c].session IN
      /\ work[c].at = "exchange"
      /\ ExistingGuardian(work[c].mailbox)
      /\ CompleteGuardianOnboardingSession(s)
      /\ onboarding' = [onboarding EXCEPT ![s].done = TRUE]
      /\ CreateGuardianSession(s)
      /\ Rest(c)
      /\ UNCHANGED <<inviteVars, proven, otps, recordVars>>

LookupForCompletion(c) ==
    /\ work[c] = Resting
    /\ \E s \in OnboardingIds :
         /\ Live(s)
         /\ onboarding[s].verified # Nobody
         /\ Proceed(c, "complete", s, Nobody, Nobody)
    /\ UNCHANGED <<inviteVars, onboarding, proven, otps, recordVars, exchanged>>

\* Mutant of LockGuardianOnboardingEmail: nobody waits.
LockNothing(c, m) == TRUE

\* The advisory lock is held until the transaction ends.
LockGuardianOnboardingEmail(c, m) ==
    \A other \in Clients \ {c} :
        ~(work[other].at \in {"create", "adopt"} /\ work[other].mailbox = m)

FindActiveAdultsByEmail(c) ==
    LET s == work[c].session
        m == consents[s]
    IN  /\ work[c].at = "complete"
        /\ m # Nobody
        /\ LockGuardianOnboardingEmail(c, m)
        /\ Cardinality(adults[m]) <= 1
        /\ Proceed(c, IF adults[m] = {} THEN "create" ELSE "adopt", s, m, Nobody)
        /\ UNCHANGED <<inviteVars, onboarding, proven, otps, recordVars, exchanged>>

Complete(c) ==
    LET s == work[c].session
        m == work[c].mailbox
    IN  /\ work[c].at \in {"create", "adopt"}
        /\ CompleteGuardianOnboardingSession(s)
        /\ onboarding' = [onboarding EXCEPT ![s].done = TRUE]
        /\ adults' = IF work[c].at = "create" THEN [adults EXCEPT ![m] = @ \cup {s}] ELSE adults
        /\ CreateGuardianSession(s)
        /\ Rest(c)
        /\ UNCHANGED <<inviteVars, proven, otps, consents, guardians>>

\* The school's office and the guardian's own pages work on the same records.
OtherRecordChange ==
    /\ \E m \in Mailboxes :
         \/ /\ adults[m] = {}
            /\ adults' = [adults EXCEPT ![m] = {Office}]
            /\ UNCHANGED guardians
         \/ /\ adults[m] # {}
            /\ adults' = [adults EXCEPT ![m] = {}]
            /\ guardians' = guardians \ {m}
         \/ /\ adults[m] # {} /\ m \notin guardians
            /\ guardians' = guardians \cup {m}
            /\ UNCHANGED adults
    /\ UNCHANGED <<inviteVars, onboarding, proven, otps, consents, exchanged, work>>

OnboardingNext ==
    \/ \E c \in Clients :
         \/ RequestEnds(c)
         \/ ListGuardianInvitationContacts(c) \/ ImportInvitationContacts(c)
         \/ GetGuardianInvitationTokenByHash(c) \/ Redeem(c)
         \/ LookupForConsent(c) \/ AcceptConsent(c) \/ exchangeExistingGuardian(c)
         \/ LookupForCompletion(c) \/ FindActiveAdultsByEmail(c) \/ Complete(c)
    \/ \E m \in Mailboxes : RevokeInvitationContact(m)
    \/ \E t \in InviteTokens : InvitationExpires(t)
    \/ BeginOnboarding
    \/ \E s \in OnboardingIds :
         RevokeOnboardingSession(s) \/ \E m \in Mailboxes : RequestOTP(s, m) \/ VerifyOTP(s, m)
    \/ OtherRecordChange

OnboardingSpec == OnboardingInit /\ [][OnboardingNext]_onboardingVars

-----------------------------------------------------------------------------
(* Properties.                                                             *)

\* The rows, histories and requests are of their shape.
OnboardingTypeOK ==
    /\ contacts \in [Mailboxes -> {NoContact} \cup
         [token : InviteTokens, accepted : OnboardingIds \cup {Nobody}]]
    /\ invites \in [InviteTokens -> {"free", "live", "expired", "revoked", "spent"}]
    /\ onboarding \in [OnboardingIds -> {NoOnboarding} \cup
         [verified : Mailboxes \cup {Nobody}, done : BOOLEAN, revoked : BOOLEAN]]
    /\ proven \in [OnboardingIds -> SUBSET Mailboxes]
    /\ otps \subseteq OnboardingIds \X Mailboxes
    /\ consents \in [OnboardingIds -> Mailboxes \cup {Nobody}]
    /\ adults \in [Mailboxes -> SUBSET (OnboardingIds \cup {Office})]
    /\ guardians \subseteq Mailboxes

\* What starts a session is spent by it, also when two requests hold it at once:
\* an invitation link starts one onboarding session, and that is exchanged for
\* one guardian session, whichever of the three exchanges gets to it (SPEC 11.3).
TokensAreSpentOnce ==
    /\ \A t \in InviteTokens : redeemed[t] <= 1
    /\ \A s \in OnboardingIds : exchanged[s] <= 1

\* Two sessions of one mailbox that complete at once enter one adult between
\* them (LockGuardianOnboardingEmail).
OneAdultIsEntered == \A m \in Mailboxes : Cardinality(adults[m] \ {Office}) <= 1

\* Nothing enters the roster but for a mailbox its session has proved and
\* consented for (SPEC 11.3).
RosterFollowsConsent ==
    \A m \in Mailboxes : \A s \in adults[m] \ {Office} : consents[s] = m /\ m \in proven[s]
=============================================================================
