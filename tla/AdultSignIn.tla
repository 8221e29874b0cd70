------------------------------ MODULE AdultSignIn ------------------------------
(***************************************************************************)
(* One guardian's sign-in by one-time codes sent to a mailbox              *)
(* (backend/internal/identity/adult_auth.go and its queries).  A request   *)
(* counts the recent codes and then inserts one; an attempt tries to       *)
(* consume a code and then counts a miss; the session a consumed code buys *)
(* is created in a transaction of its own.  Requests and attempts of the   *)
(* same guardian overlap.                                                  *)
(*                                                                         *)
(* Time is the age of each code in ticks; a code at least Validity and     *)
(* Window old can no longer be told from one that was never issued, and    *)
(* its identifier is used again.                                           *)
(***************************************************************************)
EXTENDS Naturals, FiniteSets

CONSTANTS
    Codes,          \* adult_otp rows that may matter at a time
    Requesters,     \* concurrent requests for a code
    Attempters,     \* concurrent attempts to use one
    Contexts,       \* the organizations and years the mailbox may belong to
    Limit,          \* adultOTPRequestsWindow
    MaxAttempts,    \* auth.GuardianOTPAttempts
    Validity,       \* adultOTPValidity, in ticks
    Window,         \* adultOTPRateWindow, in ticks
    MaxSessions,    \* bound on the sessions a code is followed through
    NoCode

ASSUME SignInAssumption ==
    /\ Limit \in Nat \ {0} /\ MaxAttempts \in Nat \ {0} /\ MaxSessions \in Nat \ {0}
    /\ Validity \in Nat \ {0} /\ Window \in Nat \ {0}
    /\ IsFiniteSet(Codes) /\ IsFiniteSet(Requesters) /\ IsFiniteSet(Attempters)

VARIABLES
    codes,      \* code -> its row, or NoCode
    requesting, \* requester -> whether its count left room, while it is in progress
    attempts,   \* attempter -> how far its attempt has come, and with which code
    eligible    \* contexts with a current guardian relationship

signInVars == <<codes, requesting, attempts, eligible>>

Oldest == IF Validity > Window THEN Validity ELSE Window

\* guesses, verified and direct are histories: comparisons with the code, and
\* the times it was consumed and bought a session without a selection.
CodeRows ==
    [age : 0..Oldest, attempts : 0..MaxAttempts, consumed : BOOLEAN, revoked : BOOLEAN,
     guesses : 0..MaxAttempts + Cardinality(Attempters), verified : 0..MaxSessions,
     direct : 0..MaxSessions]

ASSUME CodesAssumption == NoCode \notin Codes \cup CodeRows

NewCode == [age |-> 0, attempts |-> 0, consumed |-> FALSE, revoked |-> FALSE,
            guesses |-> 0, verified |-> 0, direct |-> 0]

StoredCodes == {c \in Codes : codes[c] # NoCode}

Resting == [at |-> "resting", code |-> NoCode]
InUse(c) == \E v \in Attempters : attempts[v].code = c

-----------------------------------------------------------------------------
(* Requests.                                                               *)

\* Mutant of CountRecent: every code that was ever requested counts.
CountAll == Cardinality(StoredCodes)

CountRecent == Cardinality({c \in StoredCodes : codes[c].age < Window})

\* Mutant of LimitReached: the limit itself is still let through.
LimitPassed == CountRecent > Limit

LimitReached == CountRecent >= Limit

\* The address must belong to somebody; the answer is the same if it does not.
CountRequests(r) ==
    /\ ~requesting[r]
    /\ eligible # {}
    /\ ~LimitReached
    /\ requesting' = [requesting EXCEPT ![r] = TRUE]
    /\ UNCHANGED <<codes, attempts, eligible>>

RequestAdultOTP(r) ==
    /\ requesting[r]
    /\ \E c \in Codes \ StoredCodes : ~InUse(c) /\ codes' = [codes EXCEPT ![c] = NewCode]
    /\ requesting' = [requesting EXCEPT ![r] = FALSE]
    /\ UNCHANGED <<attempts, eligible>>

RequestFails(r) ==
    /\ requesting[r]
    /\ requesting' = [requesting EXCEPT ![r] = FALSE]
    /\ UNCHANGED <<codes, attempts, eligible>>

-----------------------------------------------------------------------------
(* Attempts.                                                               *)

Reach(v, at, c) == attempts' = [attempts EXCEPT ![v] = [at |-> at, code |-> c]]

\* The challenge is looked up in a read transaction, whatever its state.
GetAdultOTPByHash(v) ==
    /\ attempts[v] = Resting
    /\ \E c \in StoredCodes : Reach(v, "read", c)
    /\ UNCHANGED <<codes, requesting, eligible>>

\* Mutant of Spendable: the row is not asked whether it was consumed.
SpendableAgain(c) ==
    /\ ~codes[c].revoked
    /\ codes[c].age < Validity /\ codes[c].attempts < MaxAttempts

\* Mutant of Spendable: the statement trusts the attempts that were read before it.
SpendableUncounted(c) ==
    ~codes[c].revoked /\ ~codes[c].consumed /\ codes[c].age < Validity

\* The condition both statements on a code repeat.
Spendable(c) ==
    /\ ~codes[c].revoked /\ ~codes[c].consumed
    /\ codes[c].age < Validity /\ codes[c].attempts < MaxAttempts

ConsumeAdultOTP(v) ==
    LET c == attempts[v].code IN
      /\ attempts[v].at = "read" /\ c \in StoredCodes
      /\ Spendable(c) /\ codes[c].verified < MaxSessions
      /\ codes' = [codes EXCEPT ![c].consumed = TRUE, ![c].guesses = @ + 1, ![c].verified = @ + 1]
      /\ Reach(v, "verified", c)
      /\ UNCHANGED <<requesting, eligible>>

\* A wrong guess updates nothing and locks nothing; it is counted afterwards.
MissAdultOTP(v) ==
    LET c == attempts[v].code IN
      /\ attempts[v].at = "read"
      /\ codes' = IF c \in StoredCodes /\ Spendable(c)
                  THEN [codes EXCEPT ![c].guesses = @ + 1] ELSE codes
      /\ Reach(v, "missed", c)
      /\ UNCHANGED <<requesting, eligible>>

\* Mutant of IncrementAdultOTPAttempts: a miss is not counted.
IncrementNothing(v) ==
    /\ attempts[v].at = "missed"
    /\ attempts' = [attempts EXCEPT ![v] = Resting]
    /\ UNCHANGED <<codes, requesting, eligible>>

IncrementAdultOTPAttempts(v) ==
    LET c == attempts[v].code IN
      /\ attempts[v].at = "missed"
      /\ codes' = IF c \in StoredCodes /\ Spendable(c)
                  THEN [codes EXCEPT ![c].attempts = @ + 1] ELSE codes
      /\ attempts' = [attempts EXCEPT ![v] = Resting]
      /\ UNCHANGED <<requesting, eligible>>

\* With one context the verification goes on to a session, in a transaction of
\* its own; with several the guardian chooses, any number of times.
createGuardianSession(v) ==
    LET c == attempts[v].code IN
      /\ attempts[v].at = "verified"
      /\ Cardinality(eligible) = 1
      /\ codes' = IF c \in StoredCodes THEN [codes EXCEPT ![c].direct = @ + 1] ELSE codes
      /\ attempts' = [attempts EXCEPT ![v] = Resting]
      /\ UNCHANGED <<requesting, eligible>>

\* The attempt ends without a session: it is refused, a step fails, or the
\* guardian is shown the contexts to choose from.
EndAttempt(v) ==
    /\ attempts[v].at \in {"read", "verified"}
    /\ attempts' = [attempts EXCEPT ![v] = Resting]
    /\ UNCHANGED <<codes, requesting, eligible>>

-----------------------------------------------------------------------------
(* Relationships, revocation and time.                                     *)

FindGuardianLoginContexts ==
    /\ eligible' \in SUBSET Contexts
    /\ UNCHANGED <<codes, requesting, attempts>>

\* The end of a guardian's deletion of its own profile.
RevokeGuardianSessionsAndOTPs ==
    /\ codes' = [c \in Codes |->
                   IF c \in StoredCodes THEN [codes[c] EXCEPT !.revoked = TRUE] ELSE NoCode]
    /\ UNCHANGED <<requesting, attempts, eligible>>

SignInTick ==
    /\ codes' = [c \in Codes |->
                   IF c \in StoredCodes /\ codes[c].age < Oldest
                   THEN [codes[c] EXCEPT !.age = @ + 1] ELSE codes[c]]
    /\ UNCHANGED <<requesting, attempts, eligible>>

Forget(c) ==
    /\ c \in StoredCodes /\ codes[c].age = Oldest /\ ~InUse(c)
    /\ codes' = [codes EXCEPT ![c] = NoCode]
    /\ UNCHANGED <<requesting, attempts, eligible>>

SignInInit ==
    /\ codes = [c \in Codes |-> NoCode]
    /\ requesting = [r \in Requesters |-> FALSE]
    /\ attempts = [v \in Attempters |-> Resting]
    /\ eligible \in SUBSET Contexts

SignInNext ==
    \/ \E r \in Requesters : CountRequests(r) \/ RequestAdultOTP(r) \/ RequestFails(r)
    \/ \E v \in Attempters :
         \/ GetAdultOTPByHash(v) \/ ConsumeAdultOTP(v) \/ MissAdultOTP(v)
         \/ IncrementAdultOTPAttempts(v) \/ createGuardianSession(v) \/ EndAttempt(v)
    \/ FindGuardianLoginContexts
    \/ RevokeGuardianSessionsAndOTPs
    \/ SignInTick
    \/ \E c \in Codes : Forget(c)

\* Clocks go on.
SignInFairness == WF_signInVars(SignInTick)

SignInSpec == SignInInit /\ [][SignInNext]_signInVars /\ SignInFairness

-----------------------------------------------------------------------------
(* Properties.                                                             *)

\* Codes, requests and attempts are of their shape.
SignInTypeOK ==
    /\ codes \in [Codes -> CodeRows \cup {NoCode}]
    /\ requesting \in [Requesters -> BOOLEAN]
    /\ \A v \in Attempters : attempts[v].at \in {"resting", "read", "verified", "missed"}
    /\ eligible \subseteq Contexts

\* The count and the insert are two statements: the codes sent within a window
\* exceed the limit by at most the requests that overlap (RequestAdultOTP).
RequestLimitSlack == CountRecent <= Limit + Cardinality(Requesters) - 1

\* A wrong guess is compared before it is counted: a code is compared with at
\* most MaxAttempts guesses and those that overlap them (VerifyAdultOTP).
GuessesStayBounded ==
    \A c \in StoredCodes : codes[c].guesses <= MaxAttempts + Cardinality(Attempters) - 1

\* Overlapping attempts with the right code sign in once between them, also
\* though the session is created after the code was consumed and apart from it.
CodesSignInOnce == \A c \in StoredCodes : codes[c].verified <= 1 /\ codes[c].direct <= 1

\* A guardian who is refused a code for asking too often can ask again later,
\* even if nothing but time passes.
RefusalsLapse == [](LimitReached => <>~LimitReached)
=============================================================================
