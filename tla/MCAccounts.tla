------------------------------- MODULE MCAccounts -------------------------------
(* Sign-in by codes, the second factor of administrators, and the surveys that *)
(* those who have signed in open, join and answer.  They share no state, so    *)
(* each behaviour follows one of them: requests for codes, attempts with a     *)
(* single code, the second factor, or one survey.                              *)
EXTENDS AdultSignIn, AdminSessions, Surveys

CONSTANTS c1, c2, c3, r1, r2, v1, v2, x1, x2, e1, e2, w1, w2, z1, z2, s1

VARIABLE focus

MCInit ==
    /\ SignInInit /\ AdminInit /\ SurveyInit
    /\ focus \in {"requests", "attempts", "second factor", "survey"}
    /\ focus \in {"second factor", "survey"} => eligible = {}
    /\ focus # "survey" => survey = CHOOSE d \in Definitions : RowConstraints(d)

\* A request looks at the codes that are stored, whatever became of them; the
\* contexts of the mailbox matter where sessions are created.
RequestsOnly == attempts' = attempts /\ eligible' \subseteq {x1}

AttemptsOnly == Cardinality({c \in Codes : codes'[c] # NoCode}) <= 1 /\ ~requesting'[r2]

\* Codes, attempts, the second factor with its sessions, and the survey with the
\* transactions on it are of their shape.
AccountsTypeOK == SignInTypeOK /\ AdminTypeOK /\ SurveyTypeOK

MCNext ==
    /\ CASE focus = "requests" -> SignInNext /\ RequestsOnly
         [] focus = "attempts" -> SignInNext /\ AttemptsOnly
         [] OTHER -> UNCHANGED signInVars
    /\ IF focus = "second factor" THEN AdminNext ELSE UNCHANGED adminVars
    /\ IF focus = "survey" THEN SurveyNext ELSE UNCHANGED surveyVars
    /\ UNCHANGED focus

MCFairness == WF_signInVars(SignInTick /\ focus \in {"requests", "attempts"})

MCSpec == MCInit /\ [][MCNext]_<<signInVars, adminVars, surveyVars, focus>> /\ MCFairness
=================================================================================
