--------------------------- MODULE Administrators ---------------------------
(***************************************************************************)
(* Administrators of one organization: invitations, claims, roles and      *)
(* removals (backend/internal/identity/administrators.go, bootstrap.go and *)
(* data/identity/identity.go).  The rows of organization_members and the   *)
(* invitation tokens of access_tokens are the shared state.  A request is  *)
(* authorized, then runs one transaction at READ COMMITTED that reads and  *)
(* later writes; others commit between those steps.                        *)
(***************************************************************************)
EXTENDS Naturals, FiniteSets

CONSTANTS
    Accounts,       \* people: a verified e-mail address and its local user
    Founders,       \* those who own the organization at the start
    MemberIds,      \* identifiers of organization_members rows
    Invitations,    \* identifiers of invitation tokens
    OtherRoles,     \* the roles below owner, which the code keeps and never tells apart here
    NoInvitation,
    NoRow, DeletedMember  \* a member id that is not in use yet, and one whose row was deleted

ASSUME FoundersAssumption ==
    Founders # {} /\ Founders \subseteq Accounts /\ Founders \subseteq MemberIds

VARIABLES
    members,    \* member id -> row, or NoRow, or DeletedMember
    invitations,\* token -> "free" (not issued), "live", "expired" or "dead" (revoked or consumed)
    requests,   \* account -> the administrative request it has under way
    claims,     \* account -> the claim it has under way
    overlapped  \* history: two administrative requests were under way at once

administratorVars == <<members, invitations, requests, claims, overlapped>>

OrganizationRoles == {"owner"} \cup OtherRoles

MemberRows ==
    [who : Accounts, claimed : BOOLEAN, role : OrganizationRoles,
     token : Invitations \cup {NoInvitation}]

ASSUME RowsAssumption == NoRow # DeletedMember /\ {NoRow, DeletedMember} \cap MemberRows = {}

Idle == [at |-> "idle"]
Authorized == [at |-> "authorized"]

IssuedIds == {m \in MemberIds : members[m] \notin {NoRow, DeletedMember}}
MembershipsOf(a) == {m \in IssuedIds : members[m].who = a}
ClaimedBy(a) == {m \in MembershipsOf(a) : members[m].claimed}
Pending(m) == m \in IssuedIds /\ ~members[m].claimed
Owners == {m \in IssuedIds : members[m].role = "owner"}

-----------------------------------------------------------------------------
\* Bootstrap, claimed by the first owner, and the promotions that made the other founders.
AdministratorsInit ==
    /\ members = [m \in MemberIds |->
                    IF m \in Founders
                    THEN [who |-> m, claimed |-> TRUE, role |-> "owner", token |-> NoInvitation]
                    ELSE NoRow]
    /\ invitations = [t \in Invitations |-> "free"]
    /\ requests = [a \in Accounts |-> Idle]
    /\ claims = [a \in Accounts |-> Idle]
    /\ overlapped = FALSE

\* The middleware resolves the caller's membership and wants the capability of an owner.
BeginRequest(a) ==
    /\ requests[a] = Idle
    /\ \E m \in ClaimedBy(a) : members[m].role = "owner"
    /\ requests' = [requests EXCEPT ![a] = Authorized]
    /\ overlapped' = (overlapped \/ \E b \in Accounts \ {a} : requests[b] # Idle)
    /\ UNCHANGED <<members, invitations, claims>>

EndAdministration(a) == requests' = [requests EXCEPT ![a] = Idle]

\* Every early return, and every transaction that fails and is rolled back.
GiveUp(a) ==
    /\ requests[a] # Idle
    /\ EndAdministration(a)
    /\ UNCHANGED <<members, invitations, claims, overlapped>>

-----------------------------------------------------------------------------
(* What the transaction reads before it writes.                            *)

Carry(a, op, target, token, role) ==
    /\ requests[a] = Authorized
    /\ requests' = [requests EXCEPT ![a] =
                      [at |-> op, target |-> target, token |-> token, role |-> role]]
    /\ UNCHANGED <<members, invitations, claims, overlapped>>

\* Mutant of hasAnotherOwner: the caller's own row is counted.
AnyOwner(excluded) == Owners # {}

\* A pending invitation to ownership counts.
hasAnotherOwner(excluded) == Owners \ {excluded} # {}

\* Only the caller's own row is protected from losing its ownership.
KeepsAnOwner(a, m) ==
    members[m].role = "owner" /\ m \in ClaimedBy(a) => hasAnotherOwner(m)

ReadForInvite(a) ==
    \E who \in Accounts, role \in OtherRoles :
      /\ MembershipsOf(who) = {}
      /\ Carry(a, "invite", who, NoInvitation, role)

ReadForResend(a) ==
    \E m \in MemberIds : Pending(m) /\ Carry(a, "resend", m, members[m].token, "owner")

ReadForRevoke(a) ==
    \E m \in MemberIds : Pending(m) /\ Carry(a, "revoke", m, members[m].token, "owner")

ReadForRole(a) ==
    \E m \in IssuedIds, role \in OrganizationRoles :
      /\ role # "owner" => KeepsAnOwner(a, m)
      /\ Carry(a, "role", m, NoInvitation, role)

ReadForRemove(a) ==
    \E m \in IssuedIds :
      /\ KeepsAnOwner(a, m)
      /\ Carry(a, "remove", m, members[m].token, "owner")

-----------------------------------------------------------------------------
(* The writes, with the conditions the statements and indexes repeat.      *)

CreateAccessToken(tokens, t) == [tokens EXCEPT ![t] = "live"]

RevokeAccessToken(tokens, t) ==
    IF t = NoInvitation THEN tokens ELSE [tokens EXCEPT ![t] = "dead"]

RegenerateTenantAccessToken(old, new) ==
    RevokeAccessToken(CreateAccessToken(invitations, new), old)

\* One pending row for an address; the claimed ones are not looked at again.
CreateOrganizationMember(m, who, role, t) ==
    /\ members[m] = NoRow
    /\ \A other \in MembershipsOf(who) : members[other].claimed
    /\ members' = [members EXCEPT ![m] =
                     [who |-> who, claimed |-> FALSE, role |-> role, token |-> t]]

SetOrganizationMemberInvitation(m, t) ==
    /\ Pending(m)
    /\ members' = [members EXCEPT ![m].token = t]

UpdateOrganizationMemberRole(m, role) ==
    /\ m \in IssuedIds
    /\ members' = [members EXCEPT ![m].role = role]

DeleteOrganizationMember(m) ==
    /\ m \in IssuedIds
    /\ members' = [members EXCEPT ![m] = DeletedMember]

Commit(a, op) ==
    /\ requests[a].at = op
    /\ EndAdministration(a)
    /\ UNCHANGED <<claims, overlapped>>

Issued(t) == invitations[t] # "free"

InviteAdministrator(a) ==
    /\ Commit(a, "invite")
    /\ \E m \in MemberIds, t \in Invitations :
         /\ ~Issued(t)
         /\ invitations' = CreateAccessToken(invitations, t)
         /\ CreateOrganizationMember(m, requests[a].target, requests[a].role, t)

ResendAdministratorInvitation(a) ==
    /\ Commit(a, "resend")
    /\ \E t \in Invitations :
         /\ ~Issued(t)
         /\ invitations' = RegenerateTenantAccessToken(requests[a].token, t)
         /\ SetOrganizationMemberInvitation(requests[a].target, t)

RevokeAdministratorInvitation(a) ==
    /\ Commit(a, "revoke")
    /\ invitations' = RevokeAccessToken(invitations, requests[a].token)
    /\ SetOrganizationMemberInvitation(requests[a].target, NoInvitation)

ChangeAdministratorRole(a) ==
    /\ Commit(a, "role")
    /\ UpdateOrganizationMemberRole(requests[a].target, requests[a].role)
    /\ UNCHANGED invitations

RemoveAdministrator(a) ==
    /\ Commit(a, "remove")
    /\ invitations' = RevokeAccessToken(invitations, requests[a].token)
    /\ DeleteOrganizationMember(requests[a].target)

-----------------------------------------------------------------------------
(* Outside the administrators page.                                        *)

\* The command-line replacement of a link.  Its last statement finds the row
\* only while the row still holds the token that was read as active.
RegenerateAdminInvitation ==
    \E m \in IssuedIds, t \in Invitations :
      /\ members[m].token # NoInvitation
      /\ invitations[members[m].token] \in {"live", "expired"}
      /\ ~Issued(t)
      /\ invitations' = RegenerateTenantAccessToken(members[m].token, t)
      /\ members' = [members EXCEPT ![m].token = t]
      /\ UNCHANGED <<requests, claims, overlapped>>

ExpireInvitation(t) ==
    /\ invitations[t] = "live"
    /\ invitations' = [invitations EXCEPT ![t] = "expired"]
    /\ UNCHANGED <<members, requests, claims, overlapped>>

\* The invitee opens its link: a live token, a pending row, its own address.
ReadInvitation(a) ==
    /\ claims[a] = Idle
    /\ \E m \in MembershipsOf(a) :
         /\ Pending(m)
         /\ members[m].token # NoInvitation
         /\ invitations[members[m].token] = "live"
         /\ claims' = [claims EXCEPT ![a] = [at |-> "read", member |-> m, token |-> members[m].token]]
    /\ UNCHANGED <<members, invitations, requests, overlapped>>

\* Mutant of ConsumeAccessToken: the statement finds the row by its identifier alone.
ConsumeAnyToken(t) == invitations' = [invitations EXCEPT ![t] = "dead"]

ConsumeAccessToken(t) ==
    /\ invitations[t] = "live"
    /\ invitations' = [invitations EXCEPT ![t] = "dead"]

\* The unique index on claimed memberships, and the count of them that follows.
ResolvesToOne(a) == ClaimedBy(a) = {}

ClaimOrganizationMember(m, a) ==
    /\ Pending(m)
    /\ members' = [members EXCEPT ![m].claimed = TRUE, ![m].token = NoInvitation]

ClaimAdminInvitation(a) ==
    /\ claims[a] # Idle
    /\ ConsumeAccessToken(claims[a].token)
    /\ ClaimOrganizationMember(claims[a].member, a)
    /\ ResolvesToOne(a)
    /\ claims' = [claims EXCEPT ![a] = Idle]
    /\ UNCHANGED <<requests, overlapped>>

AbandonClaim(a) ==
    /\ claims[a] # Idle
    /\ claims' = [claims EXCEPT ![a] = Idle]
    /\ UNCHANGED <<members, invitations, requests, overlapped>>

AdministratorsNext ==
    \/ \E a \in Accounts :
         \/ BeginRequest(a) \/ GiveUp(a)
         \/ ReadForInvite(a) \/ ReadForResend(a) \/ ReadForRevoke(a)
         \/ ReadForRole(a) \/ ReadForRemove(a)
         \/ InviteAdministrator(a) \/ ResendAdministratorInvitation(a)
         \/ RevokeAdministratorInvitation(a)
         \/ ChangeAdministratorRole(a) \/ RemoveAdministrator(a)
         \/ ReadInvitation(a) \/ ClaimAdminInvitation(a) \/ AbandonClaim(a)
    \/ RegenerateAdminInvitation
    \/ \E t \in Invitations : ExpireInvitation(t)

AdministratorsSpec == AdministratorsInit /\ [][AdministratorsNext]_administratorVars

-----------------------------------------------------------------------------
(* Properties.                                                             *)

\* Every row, token, request and claim is of its shape.
AdministratorsTypeOK ==
    /\ members \in [MemberIds -> MemberRows \cup {NoRow, DeletedMember}]
    /\ invitations \in [Invitations -> {"free", "live", "expired", "dead"}]
    /\ overlapped \in BOOLEAN
    /\ \A a \in Accounts : requests[a].at \in
         {"idle", "authorized", "invite", "resend", "revoke", "role", "remove"}
    /\ \A m \in IssuedIds : members[m].claimed => members[m].token = NoInvitation

\* The last owner is not removed and not demoted (administrators.go, ErrLastOwner).
NeverWithoutOwner == Owners # {}

\* As long as no two administrative requests overlapped, the organization has
\* an owner, whatever was claimed, regenerated or expired meanwhile.
SerialAdministrationKeepsAnOwner == ~overlapped => Owners # {}

\* A membership is claimed only with a link that is still live when the claim
\* commits: neither revoked nor replaced nor spent after the link was opened.
ClaimsNeedALiveLink ==
    [][\A m \in MemberIds :
         Pending(m) /\ members'[m] # DeletedMember /\ members'[m].claimed
           => /\ claims[members[m].who].at = "read"
              /\ invitations[claims[members[m].who].token] = "live"]_administratorVars
=============================================================================
