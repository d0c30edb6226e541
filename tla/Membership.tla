----------------------------- MODULE Membership -----------------------------
(***************************************************************************)
(* One organization of crates/api: who its members are and in which role,  *)
(* its invites and its domains, and the requests that found it, invite,    *)
(* accept, give roles and add domains at the same time.  A user is an      *)
(* email address.                                                          *)
(*                                                                         *)
(* Every handler first reads what it decides on (Asks) and then writes     *)
(* without looking again, in one statement or transaction: whatever others *)
(* do in between counts for nothing.  A request may end in between, by a   *)
(* crash or an error of the database.  Members, invites and domains are    *)
(* never deleted.  The audit row and, for a new organization, the row of   *)
(* alert settings come last and decide nothing here.                       *)
(***************************************************************************)
EXTENDS Naturals, Sequences, FiniteSets

CONSTANTS
  Users,       \* registered users
  Domains,     \* names of domains
  Offered,     \* the roles users invite to and assign
  Requests,    \* concurrent API requests
  MaxInvites,  \* bound on the rows of organization_invites
  NoOne

Roles   == {"owner", "admin", "member", "viewer"}
Leaders == {"owner", "admin"}

ASSUME MembershipAssumption ==
  /\ Offered \subseteq Roles
  /\ MaxInvites \in Nat
  /\ IsFiniteSet(Requests)
  /\ NoOne \notin Users

VARIABLES
  role,     \* organization_members.role, "none" without a row
  invites,  \* rows of organization_invites, oldest first
  domain,   \* assets.authorization_attested_by, NoOne without a row
  doing,    \* the change each request has been allowed and not yet made
  founder,  \* history: who created the organization
  late      \* history: the changes each user made by leave of a role of
            \* Leaders since they last had one

rowVars == <<role, invites, domain>>
vars    == <<rowVars, doing, founder, late>>

Invite == [email : Users, role : Roles, accepted : Nat]

(* What a request is about to write, for the user who sent it.             *)
Change ==
  [what : {"found"}, by : Users]
    \cup [what : {"invite"}, by : Users, email : Users, role : Offered]
    \cup [what : {"accept"}, by : Users, invite : 1 .. MaxInvites]
    \cup [what : {"assign"}, by : Users, member : Users, role : Offered]
    \cup [what : {"add"}, by : Users, domain : Domains]

Idle == [what |-> "nothing"]

(* The rows are of their types; accepted counts how often accepted_at was  *)
(* set, 0 being NULL.                                                      *)
TypeOK ==
  /\ role \in [Users -> Roles \cup {"none"}]
  /\ invites \in Seq(Invite)
  /\ domain \in [Domains -> Users \cup {NoOne}]
  /\ doing \in [Requests -> Change \cup {Idle}]
  /\ founder \in Users \cup {NoOne}
  /\ late \in [Users -> Nat]

Init ==
  /\ role = [u \in Users |-> "none"]
  /\ invites = <<>>
  /\ domain = [d \in Domains |-> NoOne]
  /\ doing = [r \in Requests |-> Idle]
  /\ founder = NoOne
  /\ late = [u \in Users |-> 0]

-----------------------------------------------------------------------------
(* What the handlers ask before they write.                                *)

Founded == founder # NoOne

(* Mutant: an admin may offer and assign every role.                       *)
LeadersMayGive(u, s) == role[u] \in Leaders

(* Owners and admins invite and assign, and only owners make owners.       *)
MayGive(u, s) ==
  /\ role[u] \in Leaders
  /\ s = "owner" => role[u] = "owner"

(* Mutant: every member may add domains.                                   *)
MembersMayAdd(u) == role[u] # "none"

(* Owners and admins add domains.                                          *)
MayAdd(u) == role[u] \in Leaders

(* Mutant: the invite may have been accepted before.                       *)
MayAcceptAgain(u, i) == i \in DOMAIN invites /\ invites[i].email = u

(* Users accept open invites to their own address.                         *)
MayAccept(u, i) ==
  /\ i \in DOMAIN invites
  /\ invites[i].accepted = 0
  /\ invites[i].email = u

(* Whether the rows as they are allow change c.                            *)
Allows(c) ==
  \/ c.what = "found" /\ ~Founded
  \/ c.what = "accept" /\ MayAccept(c.by, c.invite)
  \/ c.what \in {"invite", "assign"} /\ MayGive(c.by, c.role)
  \/ c.what = "add" /\ MayAdd(c.by)

(* The reads of a handler; without what it asks for it ends with an error. *)
Asks(r, c) ==
  /\ doing[r] = Idle
  /\ Allows(c)
  /\ doing' = [doing EXCEPT ![r] = c]
  /\ UNCHANGED <<rowVars, founder, late>>

Ends(r) == doing' = [doing EXCEPT ![r] = Idle]

(* A crash, or an error of the database.                                   *)
Crash(r) ==
  /\ doing[r] # Idle
  /\ Ends(r)
  /\ UNCHANGED <<rowVars, founder, late>>

-----------------------------------------------------------------------------
(* What they write.                                                        *)

(* The changes that take a role of Leaders to be allowed, and the requests *)
(* that are about to make some for u.                                      *)
ByLeave == {"invite", "assign", "add"}

InFlight(u) == {r \in Requests : doing[r].what \in ByLeave /\ doing[r].by = u}

(* The history of late changes, as the roles are after request r.          *)
CountLate(r) ==
  late' = [u \in Users |-> IF role'[u] \in Leaders THEN 0
                           ELSE IF r \in InFlight(u) THEN late[u] + 1
                           ELSE late[u]]

(* The transaction that inserts the organization and its first member; a   *)
(* slug that is taken by now is a conflict.                                *)
CreateOrganization(r) ==
  LET c == doing[r]
  IN  /\ c.what = "found"
      /\ IF Founded
         THEN UNCHANGED <<role, founder>>
         ELSE founder' = c.by /\ role' = [role EXCEPT ![c.by] = "owner"]
      /\ Ends(r)
      /\ UNCHANGED <<invites, domain>>
      /\ CountLate(r)

CreateOrganizationInvite(r) ==
  LET c == doing[r]
  IN  /\ c.what = "invite"
      /\ Len(invites) < MaxInvites
      /\ invites' = Append(invites, [email |-> c.email, role |-> c.role,
                                     accepted |-> 0])
      /\ Ends(r)
      /\ UNCHANGED <<role, domain, founder>>
      /\ CountLate(r)

(* The transaction that marks the invite and inserts the member, or on     *)
(* conflict sets the member's role.  It does not look at accepted_at.      *)
AcceptOrganizationInvite(r) ==
  LET c == doing[r]
  IN  /\ c.what = "accept"
      /\ invites' = [invites EXCEPT ![c.invite].accepted = @ + 1]
      /\ role' = [role EXCEPT ![c.by] = invites[c.invite].role]
      /\ Ends(r)
      /\ UNCHANGED <<domain, founder>>
      /\ CountLate(r)

(* Mutant: whoever is not a member becomes one.                            *)
UpsertMemberRole(r) ==
  LET c == doing[r]
  IN  /\ c.what = "assign"
      /\ role' = [role EXCEPT ![c.member] = c.role]
      /\ Ends(r)
      /\ UNCHANGED <<invites, domain, founder>>
      /\ CountLate(r)

(* Any member's role may be set, one's own and that of an owner too; for   *)
(* a user without a row there is nothing to update.                        *)
UpdateMemberRole(r) ==
  LET c == doing[r]
  IN  /\ c.what = "assign"
      /\ role' = [role EXCEPT ![c.member] = IF @ = "none" THEN @ ELSE c.role]
      /\ Ends(r)
      /\ UNCHANGED <<invites, domain, founder>>
      /\ CountLate(r)

(* A domain that is there by now is a conflict.                            *)
CreateDomainAsset(r) ==
  LET c == doing[r]
  IN  /\ c.what = "add"
      /\ domain' = [domain EXCEPT ![c.domain] = IF @ = NoOne THEN c.by ELSE @]
      /\ Ends(r)
      /\ UNCHANGED <<role, invites, founder>>
      /\ CountLate(r)

-----------------------------------------------------------------------------
Next ==
  \E r \in Requests :
    \/ \E c \in Change : Asks(r, c)
    \/ CreateOrganization(r)
    \/ CreateOrganizationInvite(r)
    \/ AcceptOrganizationInvite(r)
    \/ UpdateMemberRole(r)
    \/ CreateDomainAsset(r)
    \/ Crash(r)

Spec == Init /\ [][Next]_vars

-----------------------------------------------------------------------------
(* Properties.                                                             *)

(* Who has lost the role that let them invite, assign and add can no      *)
(* longer do so but by requests that had read the role before: those they  *)
(* have made since and those under way are no more than run at a time.     *)
LateByReaders ==
  \A u \in Users : role[u] \notin Leaders =>
    late[u] + Cardinality(InFlight(u)) <= Cardinality(Requests)

(* Admins manage members except owner controls (docs/security-model.md:50) *)
(* so that only an owner takes ownership from a member.                    *)
OwnerControls ==
  [][\A r \in Requests :
       LET c == doing[r]
       IN  /\ doing'[r] # c /\ c.what = "assign"
           /\ role[c.member] = "owner" /\ role'[c.member] # "owner"
           => role[c.by] = "owner"]_vars

(* Nobody becomes a member but by founding the organization or by          *)
(* accepting an invite to their own address.                               *)
MembersAreInvited ==
  \A u \in Users : role[u] # "none" =>
    \/ u = founder
    \/ \E i \in DOMAIN invites :
         invites[i].email = u /\ invites[i].accepted > 0

(* An invite is meant to be accepted once.  It can be accepted again, but  *)
(* only by requests that had read it before: one by one they run out.      *)
Accepting(i) == {r \in Requests : doing[r].what = "accept" /\ doing[r].invite = i}

AcceptedByReaders ==
  \A i \in DOMAIN invites :
    invites[i].accepted + Cardinality(Accepting(i)) <= Cardinality(Requests)

(* An organization whose last owner was given another role, while no offer *)
(* of ownership is open or on its way, never has an owner again.           *)
GivesOwnership(c) ==
  \/ c.what \in {"invite", "assign"} /\ c.role = "owner"
  \/ c.what = "accept" /\ invites[c.invite].role = "owner"

Ownerless ==
  /\ Founded
  /\ \A u \in Users : role[u] # "owner"
  /\ \A i \in DOMAIN invites :
       invites[i].role = "owner" => invites[i].accepted > 0
  /\ \A r \in Requests : ~GivesOwnership(doing[r])

OwnerlessIsFinal == [][Ownerless => Ownerless']_vars

(* What keeps them: a request that is about to accept an invite has read   *)
(* it, and it was sent to the one who accepts.                             *)
Entitled(c) ==
  c.what = "accept" => /\ c.invite \in DOMAIN invites
                       /\ invites[c.invite].email = c.by

IInv ==
  /\ TypeOK
  /\ MembersAreInvited
  /\ \A r \in Requests : Entitled(doing[r])
=============================================================================
