-------------------------- MODULE MembershipProofs --------------------------
(***************************************************************************)
(* Proofs about Membership, for any number of users, domains, invites and  *)
(* requests.                                                               *)
(***************************************************************************)
EXTENDS Membership, FiniteSetTheorems, TLAPS

(* A change a request is about to make has the fields of its kind.         *)
LEMMA ChangeFields ==
  ASSUME TypeOK, NEW r \in Requests
  PROVE  LET c == doing[r]
         IN  /\ c \in Change \cup {Idle}
             /\ c.what \in {"found", "invite", "accept", "assign", "add"}
                  => c.by \in Users
             /\ c.what = "invite" => c.email \in Users
             /\ c.what \in {"invite", "assign"} => c.role \in Roles
             /\ c.what = "accept" => c.invite \in 1 .. MaxInvites
             /\ c.what = "assign" => c.member \in Users
             /\ c.what = "add" => c.domain \in Domains
<1>1. doing[r] \in Change \cup {Idle}
  BY DEF TypeOK
<1> QED BY <1>1, MembershipAssumption DEF Change, Idle

(* The initial state satisfies the inductive invariant.                    *)
LEMMA InitIInv == Init => IInv
<1> SUFFICES ASSUME Init PROVE IInv
  OBVIOUS
<1>1. TypeOK
  BY DEF Init, TypeOK, Idle
<1>2. MembersAreInvited /\ \A r \in Requests : Entitled(doing[r])
  BY DEF Init, MembersAreInvited, Entitled, Idle
<1> QED BY <1>1, <1>2 DEF IInv

(* Invites keep their addresses and roles.                                 *)
InvitesStay ==
  \A i \in DOMAIN invites :
    /\ i \in DOMAIN invites'
    /\ invites'[i].email = invites[i].email
    /\ invites'[i].role = invites[i].role

(* So a request that was to accept an invite goes on with the same one,    *)
(* whatever others write, and one that ends has none.                      *)
LEMMA EntitlementStays ==
  ASSUME IInv, InvitesStay, NEW r \in Requests, Ends(r)
  PROVE  /\ doing' \in [Requests -> Change \cup {Idle}]
         /\ \A q \in Requests : Entitled(doing[q])'
<1>1. doing' \in [Requests -> Change \cup {Idle}]
  BY DEF IInv, TypeOK, Ends
<1>2. ASSUME NEW q \in Requests PROVE Entitled(doing[q])'
  <2>1. doing'[q] \in {doing[q], Idle} /\ Entitled(doing[q])
    BY DEF IInv, TypeOK, Ends
  <2> QED BY <2>1 DEF Entitled, Idle, InvitesStay
<1> QED BY <1>1, <1>2

(* The count of late changes stays a number.                               *)
LEMMA LateIsCounted ==
  ASSUME TypeOK, NEW r \in Requests, CountLate(r)
  PROVE  late' \in [Users -> Nat]
BY DEF TypeOK, CountLate

-----------------------------------------------------------------------------
(* Asks: the handler's reads write no row.                                 *)
LEMMA AsksKeepsIInv ==
  ASSUME IInv, NEW r \in Requests, NEW c \in Change, Asks(r, c)
  PROVE  IInv'
<1>1. UNCHANGED <<rowVars, founder, late>> /\ Allows(c)
  BY DEF Asks
<1>2. Entitled(c)
  <2>1. CASE c.what = "accept"
    BY <1>1, <2>1 DEF Allows, MayAccept, Entitled
  <2> QED BY <2>1 DEF Entitled
<1>3. TypeOK'
  BY <1>1 DEF IInv, TypeOK, Asks, rowVars
<1>4. \A q \in Requests : Entitled(doing[q])'
  <2> SUFFICES ASSUME NEW q \in Requests PROVE Entitled(doing[q])'
    OBVIOUS
  <2>1. \/ doing'[q] = c
        \/ doing'[q] = doing[q]
    BY DEF IInv, TypeOK, Asks
  <2>2. Entitled(doing[q])
    BY DEF IInv
  <2> QED BY <1>1, <1>2, <2>1, <2>2 DEF Entitled, rowVars
<1>5. MembersAreInvited'
  BY <1>1 DEF IInv, MembersAreInvited, rowVars
<1> QED BY <1>3, <1>4, <1>5 DEF IInv

(* CreateOrganization: the founder is the first member.                    *)
LEMMA CreateOrganizationKeepsIInv ==
  ASSUME IInv, NEW r \in Requests, CreateOrganization(r)
  PROVE  IInv'
<1> DEFINE u == doing[r].by
<1>1. u \in Users
  BY ChangeFields DEF IInv, CreateOrganization
<1>2. /\ invites' = invites /\ domain' = domain /\ Ends(r) /\ CountLate(r)
      /\ IF Founded THEN UNCHANGED <<role, founder>>
         ELSE founder' = u /\ role' = [role EXCEPT ![u] = "owner"]
  BY DEF CreateOrganization
<1> HIDE DEF u
<1>3. /\ doing' \in [Requests -> Change \cup {Idle}]
      /\ \A q \in Requests : Entitled(doing[q])'
  BY <1>2, EntitlementStays DEF InvitesStay
<1>4. late' \in [Users -> Nat]
  BY <1>2, LateIsCounted DEF IInv
<1>5. TypeOK'
  BY <1>1, <1>2, <1>3, <1>4 DEF IInv, TypeOK, Roles
<1>6. MembersAreInvited'
  <2>1. CASE Founded
    BY <1>2, <2>1 DEF IInv, MembersAreInvited
  <2>2. CASE ~Founded
    <3>1. founder' = u /\ founder = NoOne
          /\ \A v \in Users : v # u => role'[v] = role[v]
      BY <1>2, <2>2 DEF IInv, TypeOK, Founded
    <3> QED BY <1>1, <1>2, <3>1, MembershipAssumption DEF IInv, MembersAreInvited
  <2> QED BY <2>1, <2>2
<1> QED BY <1>3, <1>5, <1>6 DEF IInv

(* CreateOrganizationInvite: the invites before it stay as they are.       *)
LEMMA CreateOrganizationInviteKeepsIInv ==
  ASSUME IInv, NEW r \in Requests, CreateOrganizationInvite(r)
  PROVE  IInv'
<1> DEFINE c == doing[r]
           new == [email |-> c.email, role |-> c.role, accepted |-> 0]
<1>1. /\ c.what = "invite" /\ invites' = Append(invites, new) /\ Ends(r)
      /\ UNCHANGED <<role, domain, founder>> /\ CountLate(r)
  BY DEF CreateOrganizationInvite
<1>2. c.email \in Users /\ c.role \in Roles
  BY <1>1, ChangeFields DEF IInv
<1>3. new \in Invite /\ invites \in Seq(Invite)
  BY <1>2 DEF Invite, IInv, TypeOK
<1> HIDE DEF new
<1>4. /\ invites' \in Seq(Invite)
      /\ DOMAIN invites' = DOMAIN invites \cup {Len(invites) + 1}
      /\ \A i \in DOMAIN invites : invites'[i] = invites[i]
  BY <1>1, <1>3
<1>5. /\ doing' \in [Requests -> Change \cup {Idle}]
      /\ \A q \in Requests : Entitled(doing[q])'
  BY <1>1, <1>4, EntitlementStays DEF InvitesStay
<1>6. late' \in [Users -> Nat]
  BY <1>1, LateIsCounted DEF IInv
<1>7. TypeOK'
  BY <1>1, <1>4, <1>5, <1>6 DEF IInv, TypeOK
<1>8. MembersAreInvited'
  BY <1>1, <1>4 DEF IInv, MembersAreInvited
<1> QED BY <1>5, <1>7, <1>8 DEF IInv

(* AcceptOrganizationInvite: the request comes from the address the invite *)
(* was sent to.                                                            *)
LEMMA AcceptOrganizationInviteKeepsIInv ==
  ASSUME IInv, NEW r \in Requests, AcceptOrganizationInvite(r)
  PROVE  IInv'
<1> DEFINE c == doing[r]
           i == c.invite
           marked == [invites[i] EXCEPT !.accepted = invites[i].accepted + 1]
<1>1. /\ c.what = "accept" /\ Ends(r) /\ UNCHANGED <<domain, founder>>
      /\ CountLate(r)
      /\ invites' = [invites EXCEPT ![i] = marked]
      /\ role' = [role EXCEPT ![c.by] = invites[i].role]
  BY DEF AcceptOrganizationInvite
<1>2. c.by \in Users /\ i \in DOMAIN invites /\ invites[i].email = c.by
  BY <1>1, ChangeFields DEF IInv, Entitled
<1>3. invites \in Seq(Invite) /\ invites[i] \in Invite
  BY <1>2 DEF IInv, TypeOK
<1>4. /\ marked \in Invite
      /\ marked.email = invites[i].email /\ marked.role = invites[i].role
      /\ marked.accepted > 0
  BY <1>3 DEF Invite
<1> HIDE DEF marked
<1>5. /\ invites' \in Seq(Invite) /\ DOMAIN invites' = DOMAIN invites
      /\ \A j \in DOMAIN invites :
           invites'[j] = IF j = i THEN marked ELSE invites[j]
  BY <1>1, <1>2, <1>3, <1>4
<1>6. /\ doing' \in [Requests -> Change \cup {Idle}]
      /\ \A q \in Requests : Entitled(doing[q])'
  BY <1>1, <1>4, <1>5, EntitlementStays DEF InvitesStay
<1>7. late' \in [Users -> Nat]
  BY <1>1, LateIsCounted DEF IInv
<1>8. role' \in [Users -> Roles \cup {"none"}]
  BY <1>1, <1>3 DEF IInv, TypeOK, Invite
<1>9. TypeOK'
  BY <1>1, <1>5, <1>6, <1>7, <1>8 DEF IInv, TypeOK
<1>10. MembersAreInvited'
  <2>1. SUFFICES ASSUME NEW v \in Users, role'[v] # "none", v # founder
                 PROVE  \E j \in DOMAIN invites :
                          invites'[j].email = v /\ invites'[j].accepted > 0
    BY <1>1, <1>5 DEF MembersAreInvited
  <2>2. CASE v = c.by
    BY <1>2, <1>4, <1>5, <2>2
  <2>3. CASE v # c.by
    <3>1. role'[v] = role[v]
      BY <1>1, <2>3 DEF IInv, TypeOK
    <3>2. PICK j \in DOMAIN invites :
            invites[j].email = v /\ invites[j].accepted > 0
      BY <2>1, <3>1 DEF IInv, MembersAreInvited
    <3> QED BY <1>4, <1>5, <3>2
  <2> QED BY <2>2, <2>3
<1> QED BY <1>6, <1>9, <1>10 DEF IInv

(* UpdateMemberRole: only who is a member already gets another role.       *)
LEMMA UpdateMemberRoleKeepsIInv ==
  ASSUME IInv, NEW r \in Requests, UpdateMemberRole(r)
  PROVE  IInv'
<1> DEFINE c == doing[r]
<1>1. /\ c.what = "assign" /\ Ends(r) /\ UNCHANGED <<invites, domain, founder>>
      /\ CountLate(r)
      /\ role' = [role EXCEPT ![c.member] = IF @ = "none" THEN @ ELSE c.role]
  BY DEF UpdateMemberRole
<1>2. c.member \in Users /\ c.role \in Roles
  BY <1>1, ChangeFields DEF IInv
<1>3. /\ doing' \in [Requests -> Change \cup {Idle}]
      /\ \A q \in Requests : Entitled(doing[q])'
  BY <1>1, EntitlementStays DEF InvitesStay
<1>4. late' \in [Users -> Nat]
  BY <1>1, LateIsCounted DEF IInv
<1>5. TypeOK'
  BY <1>1, <1>2, <1>3, <1>4 DEF IInv, TypeOK
<1>6. MembersAreInvited'
  <2>1. \A v \in Users : role'[v] # "none" => role[v] # "none"
    BY <1>1, <1>2 DEF IInv, TypeOK
  <2> QED BY <1>1, <2>1 DEF IInv, MembersAreInvited
<1> QED BY <1>3, <1>5, <1>6 DEF IInv

(* CreateDomainAsset: a row of domains, and nothing of members or invites. *)
LEMMA CreateDomainAssetKeepsIInv ==
  ASSUME IInv, NEW r \in Requests, CreateDomainAsset(r)
  PROVE  IInv'
<1> DEFINE c == doing[r]
<1>1. /\ c.what = "add" /\ Ends(r) /\ UNCHANGED <<role, invites, founder>>
      /\ CountLate(r)
      /\ domain' = [domain EXCEPT ![c.domain] = IF @ = NoOne THEN c.by ELSE @]
  BY DEF CreateDomainAsset
<1>2. c.by \in Users /\ c.domain \in Domains
  BY <1>1, ChangeFields DEF IInv
<1>3. /\ doing' \in [Requests -> Change \cup {Idle}]
      /\ \A q \in Requests : Entitled(doing[q])'
  BY <1>1, EntitlementStays DEF InvitesStay
<1>4. late' \in [Users -> Nat]
  BY <1>1, LateIsCounted DEF IInv
<1>5. TypeOK'
  BY <1>1, <1>2, <1>3, <1>4 DEF IInv, TypeOK
<1> QED BY <1>1, <1>3, <1>5 DEF IInv, MembersAreInvited

(* Crash: a change that is not made leaves no trace.                       *)
LEMMA CrashKeepsIInv ==
  ASSUME IInv, NEW r \in Requests, Crash(r)
  PROVE  IInv'
<1>1. UNCHANGED <<rowVars, founder, late>> /\ Ends(r)
  BY DEF Crash
<1>2. /\ doing' \in [Requests -> Change \cup {Idle}]
      /\ \A q \in Requests : Entitled(doing[q])'
  BY <1>1, EntitlementStays DEF InvitesStay, rowVars
<1> QED BY <1>1, <1>2 DEF IInv, TypeOK, MembersAreInvited, rowVars

(* Every step keeps the inductive invariant.                               *)
LEMMA NextIInv == IInv /\ [Next]_vars => IInv'
<1> SUFFICES ASSUME IInv, [Next]_vars PROVE IInv'
  OBVIOUS
<1>1. ASSUME NEW r \in Requests, NEW c \in Change, Asks(r, c) PROVE IInv'
  BY <1>1, AsksKeepsIInv
<1>2. ASSUME NEW r \in Requests, CreateOrganization(r) PROVE IInv'
  BY <1>2, CreateOrganizationKeepsIInv
<1>3. ASSUME NEW r \in Requests, CreateOrganizationInvite(r) PROVE IInv'
  BY <1>3, CreateOrganizationInviteKeepsIInv
<1>4. ASSUME NEW r \in Requests, AcceptOrganizationInvite(r) PROVE IInv'
  BY <1>4, AcceptOrganizationInviteKeepsIInv
<1>5. ASSUME NEW r \in Requests, UpdateMemberRole(r) PROVE IInv'
  BY <1>5, UpdateMemberRoleKeepsIInv
<1>6. ASSUME NEW r \in Requests, CreateDomainAsset(r) PROVE IInv'
  BY <1>6, CreateDomainAssetKeepsIInv
<1>7. ASSUME NEW r \in Requests, Crash(r) PROVE IInv'
  BY <1>7, CrashKeepsIInv
<1>8. CASE UNCHANGED vars
  BY <1>8 DEF IInv, TypeOK, MembersAreInvited, Entitled, vars, rowVars
<1> QED BY <1>1, <1>2, <1>3, <1>4, <1>5, <1>6, <1>7, <1>8 DEF Next

-----------------------------------------------------------------------------
(* The inductive invariant: a request that is about to accept an invite    *)
(* has read it, at the address it was sent to.                             *)
THEOREM IInvCorrect == Spec => []IInv
<1>1. Init => IInv
  BY InitIInv
<1>2. IInv /\ [Next]_vars => IInv'
  BY NextIInv
<1> QED BY <1>1, <1>2, PTL DEF Spec

(* The rows of members, invites and domains keep their types.              *)
THEOREM TypeCorrect == Spec => []TypeOK
<1>1. IInv => TypeOK
  BY DEF IInv
<1> QED BY <1>1, IInvCorrect, PTL

(* Nobody is a member who neither founded the organization nor accepted an *)
(* invite to their own address.                                            *)
THEOREM MembersAreInvitedCorrect == Spec => []MembersAreInvited
<1>1. IInv => MembersAreInvited
  BY DEF IInv
<1> QED BY <1>1, IInvCorrect, PTL

-----------------------------------------------------------------------------
(* An acceptance uses up a request that had read the invite before.        *)
LEMMA NextAcceptedByReaders ==
  ASSUME IInv, AcceptedByReaders, [Next]_vars
  PROVE  AcceptedByReaders'
<1> DEFINE N == Cardinality(Requests)
<1>1. \A i : Accepting(i) \subseteq Requests /\ Accepting(i)' \subseteq Requests
  BY DEF Accepting
<1>2. ASSUME NEW S, S \subseteq Requests
      PROVE  IsFiniteSet(S) /\ Cardinality(S) \in Nat /\ N \in Nat
             /\ Cardinality(S) <= N
  BY <1>2, MembershipAssumption, FS_Subset, FS_CardinalityType
<1>3. \A i \in DOMAIN invites : invites[i].accepted \in Nat
  <2>1. \A i \in DOMAIN invites : invites[i] \in Invite
    BY DEF IInv, TypeOK
  <2> QED BY <2>1 DEF Invite
<1>4. ASSUME NEW i \in DOMAIN invites, invites'[i].accepted = invites[i].accepted,
             Accepting(i)' \subseteq Accepting(i)
      PROVE  invites'[i].accepted + Cardinality(Accepting(i)') <= N
  <2>1. Cardinality(Accepting(i)') <= Cardinality(Accepting(i))
    BY <1>1, <1>2, <1>4, FS_Subset
  <2>2. invites[i].accepted + Cardinality(Accepting(i)) <= N
    BY DEF AcceptedByReaders
  <2>3. Cardinality(Accepting(i)') \in Nat /\ Cardinality(Accepting(i)) \in Nat
        /\ N \in Nat
    BY <1>1, <1>2
  <2> HIDE DEF N
  <2> QED BY <1>3, <1>4, <2>1, <2>2, <2>3
<1>5. ASSUME NEW i, invites'[i].accepted = 0
      PROVE  invites'[i].accepted + Cardinality(Accepting(i)') <= N
  <2>1. Cardinality(Accepting(i)') <= N /\ Cardinality(Accepting(i)') \in Nat
    BY <1>1, <1>2
  <2> HIDE DEF N
  <2> QED BY <1>5, <2>1
<1>6. SUFFICES ASSUME NEW i \in DOMAIN invites'
               PROVE  invites'[i].accepted + Cardinality(Accepting(i)') <= N
  BY DEF AcceptedByReaders
<1> HIDE DEF N
<1>7. ASSUME NEW r \in Requests, NEW c \in Change, Asks(r, c)
      PROVE  invites'[i].accepted + Cardinality(Accepting(i)') <= N
  <2>1. invites' = invites /\ Allows(c) /\ doing' = [doing EXCEPT ![r] = c]
    BY <1>7 DEF Asks, rowVars
  <2>2. CASE c.what = "accept" /\ c.invite = i
    BY <1>5, <2>1, <2>2 DEF Allows, MayAccept
  <2>3. CASE ~(c.what = "accept" /\ c.invite = i)
    <3>1. Accepting(i)' \subseteq Accepting(i)
      BY <2>1, <2>3 DEF Accepting, IInv, TypeOK
    <3> QED BY <1>4, <1>6, <2>1, <3>1
  <2> QED BY <2>2, <2>3
<1>8. ASSUME NEW r \in Requests, Ends(r)
      PROVE  \A j : Accepting(j)' = Accepting(j) \ {r}
  BY <1>8 DEF Ends, Accepting, Idle, IInv, TypeOK
<1>9. ASSUME NEW r \in Requests, AcceptOrganizationInvite(r)
      PROVE  invites'[i].accepted + Cardinality(Accepting(i)') <= N
  <2> DEFINE k == doing[r].invite
  <2>1. /\ doing[r].what = "accept" /\ Ends(r)
        /\ invites' = [invites EXCEPT ![k].accepted = @ + 1]
    BY <1>9 DEF AcceptOrganizationInvite
  <2>2. k \in DOMAIN invites /\ DOMAIN invites' = DOMAIN invites
    BY <2>1 DEF IInv, Entitled
  <2>3. CASE i # k
    <3>1. invites'[i] = invites[i]
      BY <1>6, <2>1, <2>2, <2>3
    <3> QED BY <1>4, <1>6, <1>8, <2>1, <2>2, <3>1
  <2>4. CASE i = k
    <3>1. invites[i] \in Invite
      BY <1>6, <2>2 DEF IInv, TypeOK
    <3>2. invites'[i].accepted = invites[i].accepted + 1
      BY <2>1, <2>2, <2>4, <3>1 DEF Invite
    <3>3. r \in Accepting(i) /\ IsFiniteSet(Accepting(i))
      BY <1>1, <1>2, <2>1, <2>4 DEF Accepting
    <3>4. Cardinality(Accepting(i)') = Cardinality(Accepting(i)) - 1
      BY <1>8, <2>1, <3>3, FS_RemoveElement
    <3>5. invites[i].accepted + Cardinality(Accepting(i)) <= N
      BY <1>6, <2>2 DEF AcceptedByReaders, N
    <3>6. /\ invites[i].accepted \in Nat /\ Cardinality(Accepting(i)) \in Nat
          /\ N \in Nat
      BY <1>1, <1>2, <1>3, <1>6, <2>2
    <3> QED BY <3>2, <3>4, <3>5, <3>6
  <2> QED BY <2>3, <2>4
<1>10. ASSUME NEW r \in Requests, CreateOrganizationInvite(r)
       PROVE  invites'[i].accepted + Cardinality(Accepting(i)') <= N
  <2> DEFINE c == doing[r]
             new == [email |-> c.email, role |-> c.role, accepted |-> 0]
  <2>1. invites' = Append(invites, new) /\ Ends(r)
    BY <1>10 DEF CreateOrganizationInvite
  <2>2. new.accepted = 0
    OBVIOUS
  <2> HIDE DEF new
  <2>3. /\ DOMAIN invites' = DOMAIN invites \cup {Len(invites) + 1}
        /\ \A j \in DOMAIN invites : invites'[j] = invites[j]
        /\ invites'[Len(invites) + 1] = new
    BY <2>1 DEF IInv, TypeOK
  <2>4. CASE i \in DOMAIN invites
    BY <1>4, <1>8, <2>1, <2>3, <2>4
  <2>5. CASE i = Len(invites) + 1
    BY <1>5, <2>2, <2>3, <2>5
  <2> QED BY <1>6, <2>3, <2>4, <2>5
<1>11. ASSUME NEW r \in Requests, Ends(r), invites' = invites
       PROVE  invites'[i].accepted + Cardinality(Accepting(i)') <= N
  BY <1>4, <1>6, <1>8, <1>11
<1>12. ASSUME NEW r \in Requests,
              \/ CreateOrganization(r) \/ UpdateMemberRole(r)
              \/ CreateDomainAsset(r) \/ Crash(r)
       PROVE  Ends(r) /\ invites' = invites
  BY <1>12 DEF CreateOrganization, UpdateMemberRole, CreateDomainAsset, Crash, rowVars
<1>13. CASE UNCHANGED vars
  <2>1. invites' = invites /\ Accepting(i)' = Accepting(i)
    BY <1>13 DEF vars, rowVars, Accepting
  <2> QED BY <1>4, <1>6, <2>1
<1> QED BY <1>7, <1>9, <1>10, <1>11, <1>12, <1>13 DEF Next

(* An invite is accepted at most once per request that may have read it    *)
(* while it was open; where one request runs at a time, at most once.      *)
THEOREM AcceptedByReadersCorrect == Spec => []AcceptedByReaders
<1>1. Init => AcceptedByReaders
  BY DEF Init, AcceptedByReaders
<1>2. IInv /\ AcceptedByReaders /\ [Next]_vars => AcceptedByReaders'
  BY NextAcceptedByReaders
<1> QED BY <1>1, <1>2, IInvCorrect, PTL DEF Spec

-----------------------------------------------------------------------------
(* Who leads has made no late changes.                                     *)
LeadersStartAgain == \A u \in Users : role[u] \in Leaders => late[u] = 0

(* A late change uses up a request that had read the role before it was    *)
(* lost.                                                                   *)
LEMMA NextLateByReaders ==
  ASSUME IInv, LeadersStartAgain, LateByReaders, [Next]_vars
  PROVE  LeadersStartAgain' /\ LateByReaders'
<1> DEFINE N == Cardinality(Requests)
<1>1. ASSUME NEW u
      PROVE  /\ IsFiniteSet(InFlight(u)) /\ Cardinality(InFlight(u)) \in Nat
             /\ N \in Nat /\ Cardinality(InFlight(u)) <= N
  <2>1. InFlight(u) \subseteq Requests
    BY DEF InFlight
  <2> QED BY <2>1, MembershipAssumption, FS_Subset, FS_CardinalityType
<1> HIDE DEF N
<1>2. ASSUME NEW u \in Users
      PROVE  late[u] \in Nat /\ late[u] + Cardinality(InFlight(u)) <= N
  <2>1. late[u] \in Nat
    BY DEF IInv, TypeOK
  <2>2. CASE role[u] \in Leaders
    BY <1>1, <2>1, <2>2 DEF LeadersStartAgain
  <2>3. CASE role[u] \notin Leaders
    BY <2>1, <2>3 DEF LateByReaders, N
  <2> QED BY <2>1, <2>2, <2>3
<1>3. ASSUME NEW r \in Requests, Ends(r), NEW u \in Users
      PROVE  InFlight(u)' = InFlight(u) \ {r}
  BY <1>3 DEF Ends, InFlight, ByLeave, Idle, IInv, TypeOK
<1>4. ASSUME NEW u \in Users, late'[u] = late[u],
             InFlight(u)' \subseteq InFlight(u)
      PROVE  late'[u] + Cardinality(InFlight(u)') <= N
  <2>1. /\ Cardinality(InFlight(u)') <= Cardinality(InFlight(u))
        /\ Cardinality(InFlight(u)') \in Nat
    BY <1>1, <1>4, FS_Subset, FS_CardinalityType
  <2> QED BY <1>1, <1>2, <1>4, <2>1
<1>5. ASSUME NEW r \in Requests, Ends(r), CountLate(r)
      PROVE  LeadersStartAgain' /\ LateByReaders'
  <2>1. LeadersStartAgain'
    BY <1>5 DEF CountLate, LeadersStartAgain
  <2>2. ASSUME NEW u \in Users, role'[u] \notin Leaders
        PROVE  late'[u] + Cardinality(InFlight(u)') <= N
    <3>1. CASE r \in InFlight(u)
      <4>1. late'[u] = late[u] + 1
        BY <1>5, <2>2, <3>1 DEF CountLate
      <4>2. Cardinality(InFlight(u)') = Cardinality(InFlight(u)) - 1
        BY <1>1, <1>3, <1>5, <3>1, FS_RemoveElement
      <4> QED BY <1>1, <1>2, <4>1, <4>2
    <3>2. CASE r \notin InFlight(u)
      <4>1. late'[u] = late[u]
        BY <1>5, <2>2, <3>2 DEF CountLate
      <4> QED BY <1>3, <1>4, <1>5, <4>1
    <3> QED BY <3>1, <3>2
  <2> QED BY <2>1, <2>2 DEF LateByReaders, N
<1>6. ASSUME UNCHANGED <<role, late>>,
             \A u \in Users : role[u] \notin Leaders =>
               InFlight(u)' \subseteq InFlight(u)
      PROVE  LeadersStartAgain' /\ LateByReaders'
  BY <1>4, <1>6 DEF LeadersStartAgain, LateByReaders, N
<1>7. ASSUME NEW r \in Requests, NEW c \in Change, Asks(r, c)
      PROVE  LeadersStartAgain' /\ LateByReaders'
  <2>1. /\ UNCHANGED <<role, late>> /\ Allows(c)
        /\ doing' = [doing EXCEPT ![r] = c]
    BY <1>7 DEF Asks, rowVars
  <2>2. c.what \in ByLeave => role[c.by] \in Leaders
    BY <2>1 DEF Allows, MayGive, MayAdd, ByLeave
  <2>3. ASSUME NEW u \in Users, role[u] \notin Leaders
        PROVE  InFlight(u)' \subseteq InFlight(u)
    BY <2>1, <2>2, <2>3 DEF InFlight, IInv, TypeOK
  <2> QED BY <1>6, <2>1, <2>3
<1>8. ASSUME NEW r \in Requests, Crash(r)
      PROVE  LeadersStartAgain' /\ LateByReaders'
  <2>1. Ends(r) /\ UNCHANGED <<role, late>>
    BY <1>8 DEF Crash, rowVars
  <2> QED BY <1>3, <1>6, <2>1
<1>9. ASSUME NEW r \in Requests,
             \/ CreateOrganization(r) \/ CreateOrganizationInvite(r)
             \/ AcceptOrganizationInvite(r) \/ UpdateMemberRole(r)
             \/ CreateDomainAsset(r)
      PROVE  Ends(r) /\ CountLate(r)
  BY <1>9 DEF CreateOrganization, CreateOrganizationInvite,
      AcceptOrganizationInvite, UpdateMemberRole, CreateDomainAsset
<1>10. CASE UNCHANGED vars
  <2>1. UNCHANGED <<role, late, doing>>
    BY <1>10 DEF vars, rowVars
  <2> QED BY <1>6, <2>1 DEF InFlight
<1> QED BY <1>5, <1>7, <1>8, <1>9, <1>10 DEF Next

(* Who has lost a leading role makes no more late changes than there were  *)
(* requests that may have read it: one by one they run out, and none is    *)
(* allowed afresh.                                                         *)
THEOREM LateByReadersCorrect == Spec => []LateByReaders
<1>1. Init => LeadersStartAgain /\ LateByReaders
  <2> SUFFICES ASSUME Init PROVE LeadersStartAgain /\ LateByReaders
    OBVIOUS
  <2>1. ASSUME NEW u \in Users PROVE InFlight(u) = {} /\ late[u] = 0
    BY <2>1 DEF Init, InFlight, ByLeave, Idle
  <2>2. Cardinality({}) = 0 /\ Cardinality(Requests) \in Nat
    BY FS_EmptySet, FS_CardinalityType, MembershipAssumption
  <2> QED BY <2>1, <2>2 DEF LeadersStartAgain, LateByReaders
<1>2. /\ IInv /\ LeadersStartAgain /\ LateByReaders /\ [Next]_vars
      => LeadersStartAgain' /\ LateByReaders'
  BY NextLateByReaders
<1> QED BY <1>1, <1>2, IInvCorrect, PTL DEF Spec

-----------------------------------------------------------------------------
(* Without owners, open offers of ownership and requests that make some,   *)
(* no step brings any of them back.                                        *)
LEMMA NextOwnerless ==
  ASSUME IInv, Ownerless, [Next]_vars
  PROVE  Ownerless'
<1> DEFINE Closed(i) == invites[i].role = "owner" => invites[i].accepted > 0
<1>1. /\ founder # NoOne
      /\ \A u \in Users : role[u] # "owner"
      /\ \A i \in DOMAIN invites : Closed(i)
      /\ \A q \in Requests : ~GivesOwnership(doing[q])
  BY DEF Ownerless, Founded
<1>2. \A i \in DOMAIN invites : invites[i] \in Invite
  BY DEF IInv, TypeOK
<1>3. ASSUME NEW r \in Requests, NEW c \in Change, Asks(r, c) PROVE Ownerless'
  <2>1. /\ UNCHANGED <<rowVars, founder, late>> /\ Allows(c)
        /\ doing' = [doing EXCEPT ![r] = c]
    BY <1>3 DEF Asks
  <2>2. ~GivesOwnership(c)
    <3>1. c.by \in Users
      BY DEF Change
    <3> QED BY <1>1, <1>2, <2>1, <3>1 DEF Allows, MayAccept, MayGive, GivesOwnership,
                                          Invite
  <2> QED BY <1>1, <2>1, <2>2 DEF Ownerless, Founded, GivesOwnership, IInv, TypeOK,
                                  rowVars
<1>4. ASSUME NEW r \in Requests, Ends(r), InvitesStay, founder' = founder,
             \A u \in Users : role'[u] # "owner",
             \A i \in DOMAIN invites' : Closed(i)'
      PROVE  Ownerless'
  <2>1. ASSUME NEW q \in Requests PROVE ~GivesOwnership(doing[q])'
    <3>1. doing'[q] \in {doing[q], Idle} /\ Entitled(doing[q])
          /\ ~GivesOwnership(doing[q])
      BY <1>1, <1>4 DEF Ends, IInv, TypeOK
    <3> QED BY <1>4, <3>1 DEF GivesOwnership, Idle, InvitesStay, Entitled
  <2> QED BY <1>1, <1>4, <2>1 DEF Ownerless, Founded
<1>5. ASSUME NEW r \in Requests, CreateOrganization(r) PROVE Ownerless'
  <2>1. Ends(r) /\ UNCHANGED <<invites, role, founder>>
    BY <1>1, <1>5 DEF CreateOrganization, Founded
  <2> QED BY <1>1, <1>4, <2>1 DEF InvitesStay
<1>6. ASSUME NEW r \in Requests, CreateOrganizationInvite(r) PROVE Ownerless'
  <2> DEFINE c == doing[r]
             new == [email |-> c.email, role |-> c.role, accepted |-> 0]
  <2>1. /\ invites' = Append(invites, new) /\ Ends(r) /\ c.what = "invite"
        /\ UNCHANGED <<role, founder>>
    BY <1>6 DEF CreateOrganizationInvite
  <2>2. new.role # "owner"
    BY <1>1, <2>1 DEF GivesOwnership
  <2> HIDE DEF new
  <2>3. /\ DOMAIN invites' = DOMAIN invites \cup {Len(invites) + 1}
        /\ \A j \in DOMAIN invites : invites'[j] = invites[j]
        /\ invites'[Len(invites) + 1] = new
    BY <2>1 DEF IInv, TypeOK
  <2> QED BY <1>1, <1>4, <2>1, <2>2, <2>3 DEF InvitesStay
<1>7. ASSUME NEW r \in Requests, AcceptOrganizationInvite(r) PROVE Ownerless'
  <2> DEFINE c == doing[r]
             k == c.invite
             marked == [invites[k] EXCEPT !.accepted = invites[k].accepted + 1]
  <2>1. /\ c.what = "accept" /\ Ends(r) /\ founder' = founder
        /\ invites' = [invites EXCEPT ![k] = marked]
        /\ role' = [role EXCEPT ![c.by] = invites[k].role]
    BY <1>7 DEF AcceptOrganizationInvite
  <2>2. k \in DOMAIN invites /\ invites[k].role # "owner"
    BY <1>1, <2>1 DEF IInv, Entitled, GivesOwnership
  <2>3. /\ marked.email = invites[k].email /\ marked.role = invites[k].role
        BY <1>2, <2>2 DEF Invite
  <2> HIDE DEF marked
  <2>4. /\ DOMAIN invites' = DOMAIN invites
        /\ \A j \in DOMAIN invites : invites'[j] = IF j = k THEN marked ELSE invites[j]
    BY <2>1, <2>2
  <2>5. \A u \in Users : role'[u] # "owner"
    BY <1>1, <2>1, <2>2 DEF IInv, TypeOK
  <2> QED BY <1>1, <1>4, <2>1, <2>2, <2>3, <2>4, <2>5 DEF InvitesStay
<1>8. ASSUME NEW r \in Requests, UpdateMemberRole(r) PROVE Ownerless'
  <2>1. /\ doing[r].what = "assign" /\ Ends(r) /\ UNCHANGED <<invites, founder>>
        /\ role' = [role EXCEPT ![doing[r].member] =
                      IF @ = "none" THEN @ ELSE doing[r].role]
    BY <1>8 DEF UpdateMemberRole
  <2>2. doing[r].role # "owner"
    BY <1>1, <2>1 DEF GivesOwnership
  <2>3. \A u \in Users : role'[u] # "owner"
    BY <1>1, <2>1, <2>2 DEF IInv, TypeOK
  <2> QED BY <1>1, <1>4, <2>1, <2>3 DEF InvitesStay
<1>9. ASSUME NEW r \in Requests, CreateDomainAsset(r) \/ Crash(r) PROVE Ownerless'
  <2>1. Ends(r) /\ UNCHANGED <<invites, role, founder>>
    BY <1>9 DEF CreateDomainAsset, Crash, rowVars
  <2> QED BY <1>1, <1>4, <2>1 DEF InvitesStay
<1>10. CASE UNCHANGED vars
  BY <1>10 DEF Ownerless, Founded, GivesOwnership, vars, rowVars
<1> QED BY <1>3, <1>5, <1>6, <1>7, <1>8, <1>9, <1>10 DEF Next

(* An organization that has lost its last owner, with no offer of          *)
(* ownership left, stays without one.                                      *)
THEOREM OwnerlessIsFinalCorrect == Spec => OwnerlessIsFinal
<1>1. IInv /\ [Next]_vars => [Ownerless => Ownerless']_vars
  BY NextOwnerless
<1> QED BY <1>1, IInvCorrect, PTL DEF Spec, OwnerlessIsFinal
=============================================================================
