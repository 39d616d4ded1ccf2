----------------------- MODULE WorkspaceProofs -----------------------
(***************************************************************************)
(* What a workspace keeps for its users and its flows, for any of them:    *)
(* who is a member was let in, who is an owner was made one by an owner,   *)
(* and an owner stays; one channel profile is preferred and each is        *)
(* complete; what a run stores is kept from the runs of other sessions;    *)
(* along a flow handoffs are counted and a reply has something to say; and *)
(* what the publication of a flow has checked its runs and firings find.   *)
(***************************************************************************)
EXTENDS WorkspaceMembers, PublishedPath, FiniteSetTheorems, SequenceTheorems, TLAPS

\* The domains of the variables, by name.
NoRole    == Roles \cup {"none"}
Persons   == Users \cup {"none"}
Granters  == Managers \cup {"nobody", "none"}
Given     == InviteStates \ {"none"}
Targets   == Users \cup Invites \cup {"none"}
Invited   == [state : Given, email : Users, role : Roles, by : Managers]
Request   == [pc : Steps, by : Persons, as : NoRole, target : Targets, role : NoRole,
              todo : SUBSET Invites]
Domains ==
    /\ isDefault \in BOOLEAN /\ made \in BOOLEAN /\ clean \in BOOLEAN
    /\ account \subseteq Users /\ left \subseteq Users
    /\ member \in [Users -> NoRole]
    /\ invite \in [Invites -> {NoInvite} \cup Invited]
    /\ op \in [Requests -> Request]
    /\ grantedBy \in [Users -> Granters]

HaveAccounts == \A u \in Users : member[u] # "none" => u \in account

\* An invite that was given: its email stays, and only owners invite owners.
IsGiven(i) == invite[i].state # "none"
OwnersInviteOwners ==
    \A i \in Invites : IsGiven(i) => (invite[i].role = "owner" => invite[i].by = "owner")

\* What a request knows at each of its steps.
Been(u)   == member[u] # "none" \/ u \in left
Reads(r)  == \A i \in op[r].todo : IsGiven(i) /\ invite[i].email = op[r].by
Adds(r)   == op[r].target \in Users /\ op[r].as \in Managers /\ op[r].role \in Roles
Knows(r) ==
    /\ At(r, "firstUser") => op[r].by \in Users
    /\ At(r, "firstOwner") => op[r].by \in account
    /\ At(r, "invite") => Adds(r) /\ MayGrant(op[r].as, op[r].role)
    /\ At(r, "revoke") => \A i \in op[r].todo : IsGiven(i)
    /\ At(r, "newUser") => op[r].by \in Users /\ Reads(r) /\ account # {}
    /\ At(r, "reread") \/ At(r, "grant") => op[r].by \in account /\ Reads(r)
    /\ At(r, "mark") => /\ op[r].by \in account /\ Reads(r)
                        /\ op[r].target \in op[r].todo /\ Been(op[r].by)
    /\ At(r, "addUser") => Adds(r) /\ account # {}
    /\ At(r, "addMember") => Adds(r) /\ op[r].target \in account
    /\ At(r, "setRole") => op[r].target \in Users /\ op[r].as = "owner" /\ op[r].role \in Roles
    /\ At(r, "count") \/ At(r, "delete") => op[r].target \in Users

\* Who deletes an owner leaves another, as long as nobody else deletes.
OthersStay ==
    clean => \A r \in Requests : At(r, "delete") =>
        /\ \A q \in Requests : At(q, "delete") => q = r
        /\ op[r].role = "owner" => \E u \in Owners : u # op[r].target

\* A workspace that was made has an owner, or somebody is about to become one:
\* whoever has just made his account or the workspace, or is to make the first
\* account.
Founded ==
    clean /\ made =>
        \/ Owners # {}
        \/ \E r \in Requests : At(r, "firstOwner")
        \/ account = {} /\ \E r \in Requests : At(r, "firstUser")

Typing == Domains /\ HaveAccounts /\ OwnersInviteOwners /\ \A r \in Requests : Knows(r)
IInv == Typing /\ AcceptedAreMembers /\ OwnersMakeOwners /\ OthersStay /\ Founded

-----------------------------------------------------------------------------
(* Lemmas about the operators.                                             *)

\* A step of a request changes no other.
LEMMA GoOne ==
    ASSUME Domains, NEW r \in Requests, NEW o, Go(r, o)
    PROVE  /\ \A q \in Requests : op'[q] = IF q = r THEN o ELSE op[q]
           /\ o \in Request => op' \in [Requests -> Request]
  BY DEF Domains, Go

LEMMA IdleFields ==
    /\ Idle \in Request /\ Idle.pc = "idle" /\ Idle.todo = {}
    /\ Idle.by = "none" /\ Idle.as = "none" /\ Idle.target = "none" /\ Idle.role = "none"
  BY DEF Idle, Request, Persons, NoRole, Targets, Steps

LEMMA GivenRow ==
    ASSUME Domains, NEW i \in Invites
    PROVE  /\ IsGiven(i) => invite[i] \in Invited
           /\ ~IsGiven(i) => invite[i] = NoInvite
  BY DEF Domains, IsGiven, NoInvite, Invited, Given

\* A membership is granted to a user with an account, ownership by an owner.
Promotes(u, role, by) ==
    /\ u \in account /\ role \in Roles /\ by \in Managers \cup {"nobody"}
    /\ role = "owner" => by \in {"nobody", "owner"}
    /\ Upsert(u, role, by)

LEMMA Promotion ==
    ASSUME Domains, NEW u, NEW role, NEW by, Promotes(u, role, by)
    PROVE  /\ member' \in [Users -> NoRole] /\ left' \subseteq Users
           /\ grantedBy' \in [Users -> Granters]
           /\ clean' \in BOOLEAN
           /\ member'[u] = role
           /\ grantedBy'[u] = IF role = "owner" THEN by ELSE "none"
           /\ \A v \in Users \ {u} : member'[v] = member[v] /\ grantedBy'[v] = grantedBy[v]
           /\ \A v \in Users : Been(v) => Been(v)'
           /\ u \in Users /\ Been(u)'
           /\ clean' => clean /\ Owners \subseteq Owners'
           /\ role = "owner" => u \in Owners'
  <1>1. u \in Users /\ role \in NoRole /\ role # "none" /\ by \in Granters /\ "none" \in Granters
    BY DEF Promotes, Domains, NoRole, Roles, Granters
  <1>2. /\ member' \in [Users -> NoRole] /\ member'[u] = role
        /\ \A v \in Users \ {u} : member'[v] = member[v]
    BY <1>1 DEF Promotes, Upsert, Domains
  <1>3. /\ grantedBy' \in [Users -> Granters]
        /\ grantedBy'[u] = IF role = "owner" THEN by ELSE "none"
        /\ \A v \in Users \ {u} : grantedBy'[v] = grantedBy[v]
    BY <1>1 DEF Promotes, Upsert, Domains
  <1>4. left' = left \ {u}
    BY DEF Promotes, Upsert
  <1>5. clean' \in BOOLEAN /\ (clean' => clean /\ (member[u] = "owner" => role = "owner"))
    BY DEF Promotes, Upsert, Domains
  <1>6. \A v \in Users : Been(v) => Been(v)'
    BY <1>1, <1>2, <1>4 DEF Been
  <1>7. Been(u)'
    BY <1>1, <1>2 DEF Been
  <1>8. clean' => Owners \subseteq Owners'
    BY <1>2, <1>5 DEF Owners
  <1>9. role = "owner" => u \in Owners'
    BY <1>1, <1>2 DEF Owners
  <1> QED  BY <1>1, <1>2, <1>3, <1>4, <1>5, <1>6, <1>7, <1>8, <1>9 DEF Domains

LEMMA Removal ==
    ASSUME Domains, NEW r \in Requests, Knows(r), RemoveDelete(r)
    PROVE  /\ member' \in [Users -> NoRole] /\ left' \subseteq Users
           /\ grantedBy' \in [Users -> Granters]
           /\ clean' \in BOOLEAN
           /\ op[r].target \in Users
           /\ member'[op[r].target] = "none"
           /\ \A v \in Users \ {op[r].target} : member'[v] = member[v] /\ grantedBy'[v] = grantedBy[v]
           /\ \A v \in Users : Been(v) => Been(v)'
           /\ clean' => clean /\ (member[op[r].target] = "owner" => op[r].role = "owner")
  <1>1. op[r].target \in Users
    BY DEF RemoveDelete, Knows
  <1>2. /\ member' \in [Users -> NoRole] /\ member'[op[r].target] = "none"
        /\ \A v \in Users \ {op[r].target} : member'[v] = member[v]
    BY <1>1 DEF RemoveDelete, Domains, NoRole
  <1>3. /\ grantedBy' \in [Users -> Granters]
        /\ \A v \in Users \ {op[r].target} : grantedBy'[v] = grantedBy[v]
    BY <1>1 DEF RemoveDelete, Domains, Granters
  <1>4. left' = left \cup {op[r].target}
    BY DEF RemoveDelete
  <1>5. \A v \in Users : Been(v) => Been(v)'
    BY <1>1, <1>2, <1>4 DEF Been
  <1>6. /\ clean' \in BOOLEAN
        /\ clean' => clean /\ (member[op[r].target] = "owner" => op[r].role = "owner")
    BY DEF RemoveDelete, Domains
  <1> QED  BY <1>1, <1>2, <1>3, <1>4, <1>5, <1>6 DEF Domains

\* What a request knows stays true as long as it does not go on itself.
LEMMA KnowsKept ==
    ASSUME Typing, NEW q \in Requests, op'[q] = op[q],
           account \subseteq account',
           \A i \in Invites : IsGiven(i) => IsGiven(i)' /\ invite'[i].email = invite[i].email,
           \A u \in Users : Been(u) => Been(u)'
    PROVE  Knows(q)'
  <1>1. Knows(q) /\ op[q].todo \subseteq Invites /\ op[q].by \in Persons
    BY DEF Typing, Domains, Request
  <1>2. Reads(q) => Reads(q)'
    BY <1>1 DEF Reads
  <1>3. Adds(q) => Adds(q)'
    BY DEF Adds
  <1>4. \A pc : At(q, pc)' <=> At(q, pc)
    BY DEF At
  <1>5. op[q].by \in account /\ Been(op[q].by) => Been(op[q].by)'
    BY DEF Typing, Domains, Been
  <1>6. (account # {}) => (account' # {})
    OBVIOUS
  <1>7. MayGrant(op[q].as, op[q].role)' <=> MayGrant(op[q].as, op[q].role)
    BY DEF MayGrant
  <1>8. (\A i \in op[q].todo : IsGiven(i)) => \A i \in op'[q].todo : IsGiven(i)'
    BY <1>1
  <1> QED  BY <1>1, <1>2, <1>3, <1>4, <1>5, <1>6, <1>7, <1>8 DEF Knows

-----------------------------------------------------------------------------
(* Types, and what a request knows.                                        *)

LEMMA TypingInit == MembersInit => Typing
  <1> SUFFICES ASSUME MembersInit PROVE Typing
    OBVIOUS
  <1>1. account \subseteq Users
    BY UsersAssumption DEF MembersInit
  <1>2. Domains
    BY <1>1, IdleFields DEF MembersInit, Domains, NoRole, Granters
  <1>3. HaveAccounts /\ OwnersInviteOwners
    BY DEF MembersInit, HaveAccounts, OwnersInviteOwners, IsGiven, NoInvite
  <1>4. \A r \in Requests : Knows(r)
    BY IdleFields DEF MembersInit, Knows, At
  <1> QED  BY <1>2, <1>3, <1>4 DEF Typing

\* The invites that are there stay as they were given.
InvitesStay ==
    /\ invite' \in [Invites -> {NoInvite} \cup Invited]
    /\ \A i \in Invites : IsGiven(i) => IsGiven(i)' /\ invite'[i].email = invite[i].email
    /\ OwnersInviteOwners'

LEMMA SameInvites == Typing /\ invite' = invite => InvitesStay
  BY DEF Typing, Domains, InvitesStay, OwnersInviteOwners, IsGiven

\* Memberships change in one of three ways.
MembersChange(r) ==
    \/ UNCHANGED <<member, grantedBy, left>>
    \/ \E u, role, by : Promotes(u, role, by)
    \/ RemoveDelete(r)

LEMMA MembersTyped ==
    ASSUME Typing, NEW r \in Requests, MembersChange(r), account \subseteq account'
    PROVE  /\ member' \in [Users -> NoRole] /\ left' \subseteq Users
           /\ grantedBy' \in [Users -> Granters]
           /\ HaveAccounts'
           /\ \A u \in Users : Been(u) => Been(u)'
  <1>1. CASE UNCHANGED <<member, grantedBy, left>>
    BY <1>1 DEF Typing, Domains, HaveAccounts, Been
  <1>2. ASSUME NEW u, NEW role, NEW by, Promotes(u, role, by)
        PROVE  /\ member' \in [Users -> NoRole] /\ left' \subseteq Users
               /\ grantedBy' \in [Users -> Granters]
               /\ HaveAccounts'
               /\ \A v \in Users : Been(v) => Been(v)'
    BY <1>2, Promotion DEF Typing, HaveAccounts, Promotes
  <1>3. CASE RemoveDelete(r)
    BY <1>3, Removal DEF Typing, HaveAccounts
  <1> QED  BY <1>1, <1>2, <1>3 DEF MembersChange

LEMMA TypingGo ==
    ASSUME Typing, NEW r \in Requests, NEW o \in Request, Go(r, o), Knows(r)',
           account \subseteq account', account' \subseteq Users, MembersChange(r), InvitesStay,
           isDefault' \in BOOLEAN, made' \in BOOLEAN, clean' \in BOOLEAN
    PROVE  Typing'
  <1>1. /\ member' \in [Users -> NoRole] /\ left' \subseteq Users
        /\ grantedBy' \in [Users -> Granters]
        /\ HaveAccounts'
        /\ \A u \in Users : Been(u) => Been(u)'
    BY MembersTyped
  <1>2. /\ \A q \in Requests : op'[q] = IF q = r THEN o ELSE op[q]
        /\ op' \in [Requests -> Request]
    BY GoOne DEF Typing
  <1>3. Domains'
    BY <1>1, <1>2 DEF Domains, InvitesStay
  <1>4. \A q \in Requests : Knows(q)'
    <2> TAKE q \in Requests
    <2>1. CASE q # r
      BY <1>1, <1>2, <2>1, KnowsKept DEF InvitesStay
    <2>2. CASE q = r
      BY <2>2
    <2> QED  BY <2>1, <2>2
  <1> QED  BY <1>1, <1>3, <1>4 DEF Typing, InvitesStay

\* A request that ends knows nothing.
LEMMA TypingEnds ==
    ASSUME Typing, NEW r \in Requests, Ends(r),
           account \subseteq account', account' \subseteq Users, MembersChange(r), InvitesStay,
           isDefault' \in BOOLEAN, made' \in BOOLEAN, clean' \in BOOLEAN
    PROVE  Typing'
  <1>1. op'[r] = Idle
    BY GoOne DEF Ends, Typing
  <1>2. Knows(r)'
    BY <1>1, IdleFields DEF Knows, At
  <1> QED  BY <1>2, TypingGo, IdleFields DEF Ends

\* A request that begins or goes on, in a step that changes nothing else.
LEMMA TypingReads ==
    ASSUME Typing, NEW r \in Requests, NEW o \in Request, Go(r, o), Knows(r)', NoUpsert,
           UNCHANGED <<isDefault, made, account, invite>>
    PROVE  Typing'
  <1>1. MembersChange(r)
    BY DEF NoUpsert, MembersChange
  <1>2. /\ account \subseteq account' /\ account' \subseteq Users
        /\ isDefault' \in BOOLEAN /\ made' \in BOOLEAN /\ clean' \in BOOLEAN
    BY DEF NoUpsert, Typing, Domains
  <1> QED  BY <1>1, <1>2, TypingGo, SameInvites

LEMMA TypingReadsEnds ==
    ASSUME Typing, NEW r \in Requests, Ends(r), NoUpsert,
           UNCHANGED <<isDefault, made, account, invite>>
    PROVE  Typing'
  <1>1. op'[r] = Idle
    BY GoOne DEF Ends, Typing
  <1>2. Knows(r)'
    BY <1>1, IdleFields DEF Knows, At
  <1> QED  BY <1>2, TypingReads, IdleFields DEF Ends

\* The fields of a request that begins.
Holds(o, pc, by, as, target, role, todo) ==
    /\ o.pc = pc /\ o.by = by /\ o.as = as /\ o.target = target /\ o.role = role
    /\ o.todo = todo
    /\ o \in Request

LEMMA Beginning ==
    ASSUME NEW pc \in Steps, NEW u \in Persons, NEW e \in Targets, NEW role \in NoRole,
           NEW as \in NoRole, NEW todo \in SUBSET Invites
    PROVE  /\ Holds([Idle EXCEPT !.pc = pc, !.by = u], pc, u, "none", "none", "none", {})
           /\ Holds([Idle EXCEPT !.pc = pc, !.by = u, !.todo = todo],
                     pc, u, "none", "none", "none", todo)
           /\ Holds([Idle EXCEPT !.pc = pc, !.target = e, !.role = role],
                     pc, "none", "none", e, role, {})
           /\ Holds([[Idle EXCEPT !.pc = pc, !.as = as] EXCEPT !.target = e, !.role = role],
                     pc, "none", as, e, role, {})
           /\ Holds([[Idle EXCEPT !.pc = pc, !.as = as] EXCEPT !.todo = todo],
                     pc, "none", as, "none", "none", todo)
           /\ Holds([[Idle EXCEPT !.pc = pc, !.as = as] EXCEPT !.by = u],
                     pc, u, as, "none", "none", {})
  <1>1. "none" \in Persons /\ "none" \in NoRole /\ "none" \in Targets
    BY DEF Persons, NoRole, Targets
  <1> USE <1>1 DEF Holds, Idle, Request
  <1>2. Holds([Idle EXCEPT !.pc = pc, !.by = u], pc, u, "none", "none", "none", {})
    OBVIOUS
  <1>3. Holds([Idle EXCEPT !.pc = pc, !.by = u, !.todo = todo],
               pc, u, "none", "none", "none", todo)
    OBVIOUS
  <1>4. Holds([Idle EXCEPT !.pc = pc, !.target = e, !.role = role],
               pc, "none", "none", e, role, {})
    OBVIOUS
  <1>5. Holds([[Idle EXCEPT !.pc = pc, !.as = as] EXCEPT !.target = e, !.role = role],
               pc, "none", as, e, role, {})
    OBVIOUS
  <1>6. Holds([[Idle EXCEPT !.pc = pc, !.as = as] EXCEPT !.todo = todo],
               pc, "none", as, "none", "none", todo)
    OBVIOUS
  <1>7. Holds([[Idle EXCEPT !.pc = pc, !.as = as] EXCEPT !.by = u],
               pc, u, as, "none", "none", {})
    OBVIOUS
  <1> QED  BY <1>2, <1>3, <1>4, <1>5, <1>6, <1>7

LEMMA GoingOn ==
    ASSUME Domains, NEW r \in Requests, NEW pc \in Steps
    PROVE  Holds([op[r] EXCEPT !.pc = pc],
                  pc, op[r].by, op[r].as, op[r].target, op[r].role, op[r].todo)
  BY DEF Domains, Request, Holds

LEMMA GoingOnWith ==
    ASSUME Domains, NEW r \in Requests, NEW pc \in Steps, NEW e \in Targets
    PROVE  /\ Holds([op[r] EXCEPT !.pc = pc, !.target = e],
                     pc, op[r].by, op[r].as, e, op[r].role, op[r].todo)
           /\ \A todo \in SUBSET Invites :
                 Holds([op[r] EXCEPT !.pc = pc, !.target = e, !.todo = todo],
                        pc, op[r].by, op[r].as, e, op[r].role, todo)
  BY DEF Domains, Request, Holds

LEMMA FoundingTyping ==
    ASSUME Typing, NEW r \in Requests, Founding(r)
    PROVE  Typing'
  <1> USE DEF Typing
  <1>1. ASSUME NEW u \in Users, Bootstrap(r, u) \/ Create(r, u) PROVE Typing'
    <2>1. PICK pc \in {"firstUser", "firstOwner"} :
              /\ Go(r, [Idle EXCEPT !.pc = pc, !.by = u])
              /\ pc = "firstOwner" => u \in account
      BY <1>1 DEF Bootstrap, Create
    <2> DEFINE o == [Idle EXCEPT !.pc = pc, !.by = u]
    <2>2. pc \in Steps /\ u \in Persons /\ "none" \in NoRole /\ "none" \in Targets
      BY DEF Steps, Persons, NoRole, Targets
    <2>3. Holds(o, pc, u, "none", "none", "none", {})
      BY <2>2, Beginning
    <2>4. Go(r, o)
      BY <2>1
    <2> HIDE DEF o
    <2>5. op'[r] = o /\ o \in Request
      BY <2>3, <2>4, GoOne DEF Holds
    <2>6. UNCHANGED <<account, member, invite, grantedBy, left, clean, isDefault>> /\ made' = TRUE
      BY <1>1 DEF Bootstrap, Create
    <2>7. Knows(r)'
      BY <2>1, <2>3, <2>5, <2>6 DEF Knows, At, Holds
    <2> QED  BY <2>4, <2>5, <2>6, <2>7, TypingGo, SameInvites DEF MembersChange, Domains
  <1>2. ASSUME BootstrapUser(r) PROVE Typing'
    <2>1. UNCHANGED <<isDefault, made, member, invite, grantedBy, left, clean>> /\ MembersChange(r)
      BY <1>2 DEF BootstrapUser, NoUpsert, MembersChange
    <2>2. CASE op[r].by \in account
      BY <1>2, <2>1, <2>2, TypingEnds, SameInvites DEF BootstrapUser, Domains
    <2>3. CASE op[r].by \notin account
      <3> DEFINE o == [op[r] EXCEPT !.pc = "firstOwner"]
      <3>1. Go(r, o) /\ account' = account \cup {op[r].by} /\ op[r].by \in Users
        BY <1>2, <2>3 DEF BootstrapUser, Advance, Knows
      <3>2. o \in Request /\ o.pc = "firstOwner" /\ o.by = op[r].by
        <4>1. \A pc \in Steps : Holds([op[r] EXCEPT !.pc = pc], pc, op[r].by, op[r].as,
                                        op[r].target, op[r].role, op[r].todo)
          BY GoingOn
        <4> QED  BY <4>1 DEF Steps, Holds
      <3> HIDE DEF o
      <3>3. op'[r] = o
        BY <3>1, GoOne
      <3>4. Knows(r)'
        BY <3>1, <3>2, <3>3 DEF Knows, At
      <3> QED  BY <2>1, <3>1, <3>2, <3>4, TypingGo, SameInvites DEF Domains
    <2> QED  BY <2>2, <2>3
  <1>3. ASSUME FirstOwner(r) PROVE Typing'
    <2>1. Promotes(op[r].by, "owner", "nobody") /\ Ends(r)
      BY <1>3 DEF FirstOwner, Promotes, Knows, Roles
    <2>2. MembersChange(r) /\ clean' \in BOOLEAN
      BY <2>1, Promotion DEF MembersChange
    <2> QED  BY <1>3, <2>1, <2>2, TypingEnds, SameInvites DEF FirstOwner, Domains
  <1> QED  BY <1>1, <1>2, <1>3 DEF Founding

LEMMA InvitingTyping ==
    ASSUME Typing, NEW r \in Requests, Inviting(r)
    PROVE  Typing'
  <1> USE DEF Typing
  <1>0. "none" \in Persons /\ "none" \in NoRole /\ "none" \in Targets /\ {} \in SUBSET Invites
    BY DEF Persons, NoRole, Targets
  <1>1. ASSUME NEW u \in Users, NEW e \in Users, NEW role \in Roles, InviteAsked(r, u, e, role)
        PROVE  Typing'
    <2> DEFINE o == [Asks(u, "invite") EXCEPT !.target = e, !.role = role]
    <2>1. Go(r, o) /\ MayGrant(member[u], role) /\ member[u] \in NoRole
      BY <1>1 DEF InviteAsked, Domains
    <2>2. Holds(o, "invite", "none", member[u], e, role, {})
      BY <1>0, <2>1, Beginning DEF Asks, Steps, Targets, NoRole
    <2> HIDE DEF o
    <2>3. op'[r] = o /\ o \in Request
      BY <2>1, <2>2, GoOne DEF Holds
    <2>4. Knows(r)'
      BY <2>1, <2>2, <2>3 DEF Knows, At, Holds, Adds, MayGrant
    <2> QED  BY <1>1, <2>1, <2>3, <2>4, TypingReads DEF InviteAsked
  <1>2. ASSUME NEW i \in Invites, CreateInvite(r, i) PROVE Typing'
    <2> DEFINE row == [state |-> "pending", email |-> op[r].target, role |-> op[r].role,
                       by |-> op[r].as]
    <2>1. Adds(r) /\ MayGrant(op[r].as, op[r].role)
      BY <1>2 DEF CreateInvite, Knows
    <2>2. row \in Invited /\ (row.role = "owner" => row.by = "owner") /\ row.state # "none"
      BY <2>1 DEF Adds, MayGrant, Invited, Given, InviteStates
    <2>3. invite' = [invite EXCEPT ![i] = row] /\ ~IsGiven(i)
      BY <1>2 DEF CreateInvite, IsGiven
    <2> HIDE DEF row
    <2>4. InvitesStay
      BY <2>2, <2>3 DEF InvitesStay, Domains, OwnersInviteOwners, IsGiven
    <2> QED
      BY <1>2, <2>4, TypingEnds DEF CreateInvite, NoUpsert, MembersChange, Domains
  <1>3. ASSUME NEW i \in Invites, AcceptRead(r, i) PROVE Typing'
    <2> DEFINE o == [Idle EXCEPT !.pc = "newUser", !.by = invite[i].email, !.todo = {i}]
    <2>1. Go(r, o) /\ IsGiven(i) /\ account # {} /\ account' = account /\ invite' = invite
      BY <1>3 DEF AcceptRead, Pending, IsGiven
    <2>2. invite[i].email \in Users
      BY <2>1, GivenRow DEF Invited
    <2>3. Holds(o, "newUser", invite[i].email, "none", "none", "none", {i})
      BY <1>0, <2>2, Beginning DEF Steps, Persons
    <2> HIDE DEF o
    <2>4. op'[r] = o /\ o \in Request
      BY <2>1, <2>3, GoOne DEF Holds
    <2>5. Reads(r)'
      BY <2>1, <2>3, <2>4 DEF Reads, Holds, IsGiven
    <2>6. Knows(r)'
      BY <2>1, <2>2, <2>3, <2>4, <2>5 DEF Knows, At, Holds
    <2> QED  BY <1>3, <2>1, <2>4, <2>6, TypingReads DEF AcceptRead
  <1>4. ASSUME NEW i \in Invites, Grant(r, i) PROVE Typing'
    <2> DEFINE o == [op[r] EXCEPT !.pc = "mark", !.target = i]
    <2>1. At(r, "grant") /\ i \in op[r].todo /\ Go(r, o) /\ invite' = invite /\ account' = account
      BY <1>4 DEF Grant
    <2>2. op[r].by \in account /\ Reads(r) /\ op[r].todo \subseteq Invites
      BY <2>1 DEF Knows, Domains, Request
    <2>3. Holds(o, "mark", op[r].by, op[r].as, i, op[r].role, op[r].todo)
      BY <1>0, GoingOnWith DEF Steps, Targets
    <2> HIDE DEF o
    <2>4. op'[r] = o /\ o \in Request
      BY <2>1, <2>3, GoOne DEF Holds
    <2>5. invite[i] \in Invited /\ (invite[i].role = "owner" => invite[i].by = "owner")
      BY <2>1, <2>2, GivenRow DEF Reads, OwnersInviteOwners
    <2>6. Promotes(op[r].by, invite[i].role, invite[i].by)
      BY <1>4, <2>2, <2>5 DEF Grant, Promotes, Invited, Managers
    <2>7. (member'[op[r].by] # "none" \/ op[r].by \in left') /\ clean' \in BOOLEAN
      BY <2>6, Promotion DEF Been
    <2>8. Been(op[r].by)'
      BY <2>3, <2>4, <2>7 DEF Holds, Been
    <2>9. Reads(r)'
      BY <2>1, <2>2, <2>3, <2>4 DEF Reads, Holds, IsGiven
    <2>10. Knows(r)'
      BY <2>1, <2>2, <2>3, <2>4, <2>8, <2>9 DEF Knows, At, Holds
    <2> QED
      BY <1>4, <2>1, <2>4, <2>6, <2>7, <2>10, TypingGo, SameInvites
      DEF Grant, MembersChange, Domains
  <1>5. ASSUME NEW i \in Invites, NEW u \in Users, RevokeRead(r, u, i) PROVE Typing'
    <2> DEFINE o == [Asks(u, "revoke") EXCEPT !.todo = {i}]
    <2>1. Go(r, o) /\ IsGiven(i) /\ invite' = invite /\ member[u] \in NoRole
      BY <1>5 DEF RevokeRead, IsGiven, Domains
    <2>2. Holds(o, "revoke", "none", member[u], "none", "none", {i})
      BY <1>0, <2>1, Beginning DEF Asks, Steps
    <2> HIDE DEF o
    <2>3. op'[r] = o /\ o \in Request
      BY <2>1, <2>2, GoOne DEF Holds
    <2>4. Knows(r)'
      BY <2>1, <2>2, <2>3 DEF Knows, At, Holds, IsGiven
    <2> QED  BY <1>5, <2>1, <2>3, <2>4, TypingReads DEF RevokeRead
  <1>6. ASSUME NEW u \in Users, Login(r, u) PROVE Typing'
    <2> DEFINE mine == {i \in Invites : Pending(i) /\ invite[i].email = u}
               o == [Idle EXCEPT !.pc = "grant", !.by = u, !.todo = mine]
    <2>1. Go(r, o) /\ u \in account /\ account' = account /\ invite' = invite
      BY <1>6 DEF Login
    <2>2. mine \in SUBSET Invites /\ \A i \in mine : IsGiven(i) /\ invite[i].email = u
      BY DEF Pending, IsGiven
    <2> HIDE DEF mine
    <2>3. Holds(o, "grant", u, "none", "none", "none", mine)
      BY <1>0, <2>2, Beginning DEF Steps, Persons
    <2> HIDE DEF o
    <2>4. op'[r] = o /\ o \in Request
      BY <2>1, <2>3, GoOne DEF Holds
    <2>5. Reads(r)'
      BY <2>1, <2>2, <2>3, <2>4 DEF Reads, Holds, IsGiven
    <2>6. Knows(r)'
      BY <2>1, <2>3, <2>4, <2>5 DEF Knows, At, Holds
    <2> QED  BY <1>6, <2>1, <2>4, <2>6, TypingReads DEF Login
  <1>7. ASSUME RevokeWrite(r) PROVE Typing'
    <2>1. op[r].todo \subseteq Invites /\ \A i \in op[r].todo : IsGiven(i)
      BY <1>7 DEF RevokeWrite, Knows, Domains, Request
    <2>2. /\ \A i \in Invites \ op[r].todo : invite'[i] = invite[i]
          /\ \A i \in op[r].todo :
                \E state \in {"both", "revoked"} : invite'[i] = [invite[i] EXCEPT !.state = state]
          /\ DOMAIN invite' = Invites /\ invite' = [i \in Invites |-> invite'[i]]
      BY <1>7, <2>1 DEF RevokeWrite
    <2>3. \A i \in op[r].todo :
              /\ invite'[i] \in Invited
              /\ invite'[i].email = invite[i].email /\ invite'[i].role = invite[i].role
              /\ invite'[i].by = invite[i].by /\ invite'[i].state # "none"
      <3> TAKE i \in op[r].todo
      <3>1. invite[i] \in Invited
        BY <2>1, GivenRow
      <3>2. PICK state \in {"both", "revoked"} : invite'[i] = [invite[i] EXCEPT !.state = state]
        BY <2>2
      <3> QED  BY <3>1, <3>2 DEF Invited, Given, InviteStates
    <2>4. InvitesStay
      <3>1. \A i \in Invites : invite'[i] \in {NoInvite} \cup Invited
        BY <2>2, <2>3 DEF Domains
      <3>2. invite' \in [Invites -> {NoInvite} \cup Invited]
        BY <2>2, <3>1
      <3>3. ASSUME NEW i \in Invites, IsGiven(i)
            PROVE  IsGiven(i)' /\ invite'[i].email = invite[i].email
        BY <2>2, <2>3, <3>3 DEF IsGiven
      <3>4. ASSUME NEW i \in Invites, IsGiven(i)', invite'[i].role = "owner"
            PROVE  invite'[i].by = "owner"
        BY <2>1, <2>2, <2>3, <3>4 DEF IsGiven, OwnersInviteOwners
      <3> QED  BY <3>2, <3>3, <3>4 DEF InvitesStay, OwnersInviteOwners
    <2> QED
      BY <1>7, <2>4, TypingEnds DEF RevokeWrite, NoUpsert, MembersChange, Domains
  <1>8. ASSUME AcceptUser(r) PROVE Typing'
    <2>1. UNCHANGED <<isDefault, made, member, invite, grantedBy, left, clean>> /\ MembersChange(r)
      BY <1>8 DEF AcceptUser, NoUpsert, MembersChange
    <2>2. CASE op[r].by \in account
      BY <1>8, <2>1, <2>2, TypingEnds, SameInvites DEF AcceptUser, Domains
    <2>3. CASE op[r].by \notin account
      <3> DEFINE o == [op[r] EXCEPT !.pc = "reread"]
      <3>1. /\ Go(r, o) /\ account' = account \cup {op[r].by} /\ op[r].by \in Users /\ Reads(r)
        BY <1>8, <2>3 DEF AcceptUser, Advance, Knows
      <3>2. o \in Request /\ o.pc = "reread" /\ o.by = op[r].by /\ o.todo = op[r].todo
        <4>1. \A pc \in Steps : Holds([op[r] EXCEPT !.pc = pc], pc, op[r].by, op[r].as,
                                        op[r].target, op[r].role, op[r].todo)
          BY GoingOn
        <4> QED  BY <4>1 DEF Steps, Holds
      <3> HIDE DEF o
      <3>3. op'[r] = o
        BY <3>1, GoOne
      <3>4. Reads(r)'
        BY <2>1, <3>1, <3>2, <3>3 DEF Reads, IsGiven
      <3>5. Knows(r)'
        BY <3>1, <3>2, <3>3, <3>4 DEF Knows, At
      <3> QED  BY <2>1, <3>1, <3>2, <3>5, TypingGo, SameInvites DEF Domains
    <2> QED  BY <2>2, <2>3
  <1>9. ASSUME AcceptAgain(r) PROVE Typing'
    <2>1. CASE Ends(r)
      BY <1>9, <2>1, TypingReadsEnds DEF AcceptAgain
    <2>2. CASE Advance(r, "grant")
      <3> DEFINE o == [op[r] EXCEPT !.pc = "grant"]
      <3>1. Go(r, o) /\ op[r].by \in account /\ Reads(r) /\ account' = account /\ invite' = invite
        BY <1>9, <2>2 DEF AcceptAgain, Advance, Knows
      <3>2. o \in Request /\ o.pc = "grant" /\ o.by = op[r].by /\ o.todo = op[r].todo
        <4>1. \A pc \in Steps : Holds([op[r] EXCEPT !.pc = pc], pc, op[r].by, op[r].as,
                                        op[r].target, op[r].role, op[r].todo)
          BY GoingOn
        <4> QED  BY <4>1 DEF Steps, Holds
      <3> HIDE DEF o
      <3>3. op'[r] = o
        BY <3>1, GoOne
      <3>4. Reads(r)'
        BY <3>1, <3>2, <3>3 DEF Reads, IsGiven
      <3>5. Knows(r)'
        BY <3>1, <3>2, <3>3, <3>4 DEF Knows, At
      <3> QED  BY <1>9, <3>1, <3>2, <3>5, TypingReads DEF AcceptAgain
    <2> QED  BY <1>9, <2>1, <2>2 DEF AcceptAgain
  <1>10. ASSUME Mark(r) PROVE Typing'
    <2> DEFINE i == op[r].target
    <2>1. /\ i \in op[r].todo /\ op[r].todo \subseteq Invites /\ op[r].by \in account /\ Reads(r)
          /\ account' = account
      BY <1>10 DEF Mark, Knows, Domains, Request
    <2>2. PICK state \in {"accepted", "both"} : invite' = [invite EXCEPT ![i].state = state]
      BY <1>10 DEF Mark, Accepted
    <2>3. IsGiven(i) /\ invite[i] \in Invited
      BY <2>1, GivenRow DEF Reads
    <2>4. InvitesStay
      <3> DEFINE row == [invite[i] EXCEPT !.state = state]
      <3>1. /\ row \in Invited /\ row.email = invite[i].email /\ row.role = invite[i].role
            /\ row.by = invite[i].by /\ row.state # "none"
        BY <2>3 DEF Invited, Given, InviteStates
      <3>2. invite' = [invite EXCEPT ![i] = row]
        BY <2>2
      <3> HIDE DEF row
      <3>3. /\ invite'[i] = row /\ \A j \in Invites \ {i} : invite'[j] = invite[j]
            /\ invite' \in [Invites -> {NoInvite} \cup Invited]
        BY <2>1, <3>1, <3>2 DEF Domains
      <3>4. \A j \in Invites : IsGiven(j) => IsGiven(j)' /\ invite'[j].email = invite[j].email
        BY <3>1, <3>3 DEF IsGiven
      <3>5. ASSUME NEW j \in Invites, IsGiven(j)', invite'[j].role = "owner"
            PROVE  invite'[j].by = "owner"
        BY <2>1, <2>3, <3>1, <3>3, <3>5 DEF IsGiven, OwnersInviteOwners
      <3> QED  BY <3>3, <3>4, <3>5 DEF InvitesStay, OwnersInviteOwners
    <2>5. CASE Ends(r)
      BY <1>10, <2>4, <2>5, TypingEnds DEF Mark, NoUpsert, MembersChange, Domains
    <2>6. ASSUME NEW rest, rest \subseteq op[r].todo,
                 Go(r, [op[r] EXCEPT !.pc = "grant", !.target = "none", !.todo = rest])
          PROVE  Typing'
      <3> DEFINE o == [op[r] EXCEPT !.pc = "grant", !.target = "none", !.todo = rest]
      <3>1. o \in Request /\ o.pc = "grant" /\ o.by = op[r].by /\ o.todo = rest
        <4>1. "grant" \in Steps /\ rest \in SUBSET Invites
          BY <2>1, <2>6 DEF Steps
        <4>2. Holds(o, "grant", op[r].by, op[r].as, "none", op[r].role, rest)
          BY <1>0, <4>1, GoingOnWith
        <4> HIDE DEF o
        <4> QED  BY <4>2 DEF Holds
      <3>2. Go(r, o)
        BY <2>6
      <3> HIDE DEF o
      <3>3. op'[r] = o
        BY <3>2, GoOne
      <3>4. Reads(r)'
        BY <2>1, <2>4, <2>6, <3>1, <3>3 DEF Reads, InvitesStay
      <3>5. Knows(r)'
        BY <2>1, <3>1, <3>3, <3>4 DEF Knows, At
      <3> QED
        BY <1>10, <2>4, <3>1, <3>2, <3>5, TypingGo DEF Mark, NoUpsert, MembersChange, Domains
    <2> QED  BY <1>10, <2>5, <2>6 DEF Mark
  <1> QED
    BY <1>1, <1>2, <1>3, <1>4, <1>5, <1>6, <1>7, <1>8, <1>9, <1>10 DEF Inviting

LEMMA ManagingTyping ==
    ASSUME Typing, NEW r \in Requests, Managing(r)
    PROVE  Typing'
  <1> USE DEF Typing
  <1>0. "none" \in Persons /\ "none" \in NoRole /\ "none" \in Targets /\ {} \in SUBSET Invites
    BY DEF Persons, NoRole, Targets
  <1>1. ASSUME NEW u \in Users, NEW e \in Users, NEW role \in Roles, AddAsked(r, u, e, role)
        PROVE  Typing'
    <2> DEFINE pc == IF e \in account THEN "addMember" ELSE "addUser"
               o  == [Asks(u, pc) EXCEPT !.target = e, !.role = role]
    <2>1. /\ Go(r, o) /\ member[u] \in Managers /\ member[u] \in NoRole /\ account' = account
          /\ u \in account
      BY <1>1 DEF AddAsked, Domains, HaveAccounts, Managers
    <2>2. pc \in Steps /\ e \in Targets /\ role \in NoRole
      BY DEF Steps, Targets, NoRole
    <2>3. (pc = "addMember" /\ e \in account) \/ (pc = "addUser" /\ account # {})
      BY <2>1
    <2> HIDE DEF pc
    <2>4. Holds(o, pc, "none", member[u], e, role, {})
      BY <1>0, <2>1, <2>2, Beginning DEF Asks
    <2> HIDE DEF o
    <2>5. op'[r] = o /\ o \in Request
      BY <2>1, <2>4, GoOne DEF Holds
    <2>6. Knows(r)'
      BY <2>1, <2>3, <2>4, <2>5 DEF Knows, At, Holds, Adds
    <2> QED  BY <1>1, <2>1, <2>5, <2>6, TypingReads DEF AddAsked
  <1>2. ASSUME NEW u \in Users, NEW e \in Users, NEW role \in Roles, RoleAsked(r, u, e, role)
        PROVE  Typing'
    <2> DEFINE o == [Asks(u, "setRole") EXCEPT !.target = e, !.role = role]
    <2>1. Go(r, o) /\ member[u] = "owner" /\ member[u] \in NoRole
      BY <1>2 DEF RoleAsked, Domains
    <2>2. Holds(o, "setRole", "none", member[u], e, role, {})
      BY <1>0, <2>1, Beginning DEF Asks, Steps, Targets, NoRole
    <2> HIDE DEF o
    <2>3. op'[r] = o /\ o \in Request
      BY <2>1, <2>2, GoOne DEF Holds
    <2>4. Knows(r)'
      BY <2>1, <2>2, <2>3 DEF Knows, At, Holds
    <2> QED  BY <1>2, <2>1, <2>3, <2>4, TypingReads DEF RoleAsked
  <1>3. ASSUME AddUser(r) PROVE Typing'
    <2>1. UNCHANGED <<isDefault, made, member, invite, grantedBy, left, clean>> /\ MembersChange(r)
      BY <1>3 DEF AddUser, NoUpsert, MembersChange
    <2>2. CASE op[r].target \in account
      BY <1>3, <2>1, <2>2, TypingEnds, SameInvites DEF AddUser, Domains
    <2>3. CASE op[r].target \notin account
      <3> DEFINE o == [op[r] EXCEPT !.pc = "addMember"]
      <3>1. Go(r, o) /\ account' = account \cup {op[r].target} /\ Adds(r)
        BY <1>3, <2>3 DEF AddUser, Advance, Knows
      <3>2. /\ o \in Request /\ o.pc = "addMember" /\ o.target = op[r].target /\ o.as = op[r].as
            /\ o.role = op[r].role
        <4>1. \A pc \in Steps : Holds([op[r] EXCEPT !.pc = pc], pc, op[r].by, op[r].as,
                                        op[r].target, op[r].role, op[r].todo)
          BY GoingOn
        <4> QED  BY <4>1 DEF Steps, Holds
      <3> HIDE DEF o
      <3>3. op'[r] = o
        BY <3>1, GoOne
      <3>4. Knows(r)'
        BY <3>1, <3>2, <3>3 DEF Knows, At, Adds
      <3> QED  BY <2>1, <3>1, <3>2, <3>4, TypingGo, SameInvites DEF Domains, Adds
    <2> QED  BY <2>2, <2>3
  <1>4. ASSUME AddMember(r) PROVE Typing'
    <2>1. CASE NoUpsert
      BY <1>4, <2>1, TypingReadsEnds DEF AddMember
    <2>2. CASE MayGrant(op[r].as, op[r].role) /\ Upsert(op[r].target, op[r].role, op[r].as)
      <3>1. Promotes(op[r].target, op[r].role, op[r].as)
        BY <1>4, <2>2 DEF AddMember, Knows, Adds, MayGrant, Promotes
      <3>2. MembersChange(r) /\ clean' \in BOOLEAN
        BY <3>1, Promotion DEF MembersChange
      <3> QED  BY <1>4, <3>2, TypingEnds, SameInvites DEF AddMember, Domains
    <2> QED  BY <1>4, <2>1, <2>2 DEF AddMember
  <1>5. ASSUME SetRole(r) PROVE Typing'
    <2>1. CASE NoUpsert
      BY <1>5, <2>1, TypingReadsEnds DEF SetRole
    <2>2. CASE member[op[r].target] # "none" /\ Upsert(op[r].target, op[r].role, op[r].as)
      <3>1. Promotes(op[r].target, op[r].role, op[r].as)
        BY <1>5, <2>2 DEF SetRole, Knows, HaveAccounts, Promotes, Managers
      <3>2. MembersChange(r) /\ clean' \in BOOLEAN
        BY <3>1, Promotion DEF MembersChange
      <3> QED  BY <1>5, <3>2, TypingEnds, SameInvites DEF SetRole, Domains
    <2> QED  BY <1>5, <2>1, <2>2 DEF SetRole
  <1>6. ASSUME NEW u \in Users, RemoveAsked(r, u) PROVE Typing'
    <2> DEFINE o == [Asks(u, "remove") EXCEPT !.by = u]
    <2>1. Go(r, o) /\ member[u] \in NoRole
      BY <1>6 DEF RemoveAsked, Domains
    <2>2. Holds(o, "remove", u, member[u], "none", "none", {})
      BY <1>0, <2>1, Beginning DEF Asks, Steps, Persons
    <2> HIDE DEF o
    <2>3. op'[r] = o /\ o \in Request
      BY <2>1, <2>2, GoOne DEF Holds
    <2>4. Knows(r)'
      BY <2>2, <2>3 DEF Knows, At, Holds
    <2> QED  BY <1>6, <2>1, <2>3, <2>4, TypingReads DEF RemoveAsked
  <1>7. ASSUME NEW e \in Users, RemoveRead(r, e) PROVE Typing'
    <2> DEFINE o == [Idle EXCEPT !.pc = "count", !.target = e, !.role = member[e]]
    <2>1. Go(r, o) /\ member[e] \in NoRole
      BY <1>7 DEF RemoveRead, Domains
    <2>2. Holds(o, "count", "none", "none", e, member[e], {})
      BY <1>0, <2>1, Beginning DEF Steps, Targets
    <2> HIDE DEF o
    <2>3. op'[r] = o /\ o \in Request
      BY <2>1, <2>2, GoOne DEF Holds
    <2>4. Knows(r)'
      BY <2>2, <2>3 DEF Knows, At, Holds
    <2> QED  BY <1>7, <2>1, <2>3, <2>4, TypingReads DEF RemoveRead
  <1>8. ASSUME RemoveCount(r) PROVE Typing'
    <2>1. /\ UNCHANGED <<isDefault, made, account, invite>> /\ MembersChange(r)
          /\ clean' \in BOOLEAN
      BY <1>8 DEF RemoveCount, MembersChange, Domains
    <2>2. CASE Ends(r)
      BY <2>1, <2>2, TypingEnds, SameInvites DEF Domains
    <2>3. CASE Advance(r, "delete")
      <3> DEFINE o == [op[r] EXCEPT !.pc = "delete"]
      <3>1. Go(r, o) /\ op[r].target \in Users
        BY <1>8, <2>3 DEF RemoveCount, Advance, Knows
      <3>2. o \in Request /\ o.pc = "delete" /\ o.target = op[r].target
        <4>1. \A pc \in Steps : Holds([op[r] EXCEPT !.pc = pc], pc, op[r].by, op[r].as,
                                        op[r].target, op[r].role, op[r].todo)
          BY GoingOn
        <4> QED  BY <4>1 DEF Steps, Holds
      <3> HIDE DEF o
      <3>3. op'[r] = o
        BY <3>1, GoOne
      <3>4. Knows(r)'
        BY <3>1, <3>2, <3>3 DEF Knows, At
      <3> QED  BY <2>1, <3>1, <3>2, <3>4, TypingGo, SameInvites DEF Domains
    <2> QED  BY <1>8, <2>2, <2>3 DEF RemoveCount
  <1>9. ASSUME RemoveDelete(r) PROVE Typing'
    <2>1. MembersChange(r) /\ clean' \in BOOLEAN
      BY <1>9, Removal DEF MembersChange
    <2> QED  BY <1>9, <2>1, TypingEnds, SameInvites DEF RemoveDelete, Domains
  <1> QED
    BY <1>1, <1>2, <1>3, <1>4, <1>5, <1>6, <1>7, <1>8, <1>9 DEF Managing

LEMMA FailsTyping ==
    ASSUME Typing, NEW r \in Requests, Fails(r)
    PROVE  Typing'
  <1>1. /\ Ends(r) /\ UNCHANGED <<isDefault, made, account, invite>> /\ MembersChange(r)
        /\ clean' \in BOOLEAN
    BY DEF Fails, MembersChange, Typing, Domains
  <1> QED  BY <1>1, TypingEnds, SameInvites DEF Typing, Domains

LEMMA ExpireTyping ==
    ASSUME Typing, NEW i \in Invites, Expire(i)
    PROVE  Typing' /\ InvitesStay
  <1> DEFINE row == [invite[i] EXCEPT !.state = "expired"]
  <1>1. invite' = [invite EXCEPT ![i] = row] /\ IsGiven(i) /\ invite[i].state = "pending"
    BY DEF Expire, Pending, IsGiven
  <1>2. /\ row \in Invited /\ row.email = invite[i].email /\ row.role = invite[i].role
        /\ row.by = invite[i].by /\ row.state = "expired"
    BY <1>1, GivenRow DEF Typing, Invited, Given, InviteStates
  <1> HIDE DEF row
  <1>3. /\ invite'[i] = row /\ \A j \in Invites \ {i} : invite'[j] = invite[j]
        /\ invite' \in [Invites -> {NoInvite} \cup Invited]
    BY <1>1, <1>2 DEF Typing, Domains
  <1>4. \A j \in Invites : IsGiven(j) => IsGiven(j)' /\ invite'[j].email = invite[j].email
    BY <1>2, <1>3 DEF IsGiven
  <1>5. ASSUME NEW j \in Invites, IsGiven(j)', invite'[j].role = "owner"
        PROVE  invite'[j].by = "owner"
    BY <1>1, <1>2, <1>3, <1>5 DEF IsGiven, OwnersInviteOwners, Typing
  <1>6. InvitesStay
    BY <1>3, <1>4, <1>5 DEF InvitesStay, OwnersInviteOwners
  <1>7. UNCHANGED <<isDefault, made, account, member, op, grantedBy, left, clean>>
    BY DEF Expire, NoUpsert
  <1>8. \A q \in Requests : Knows(q)'
    BY <1>6, <1>7, KnowsKept DEF InvitesStay, Been
  <1> QED  BY <1>6, <1>7, <1>8 DEF Typing, Domains, InvitesStay, HaveAccounts

LEMMA TypingStep == Typing /\ [MembersNext]_membersVars => Typing'
  <1> SUFFICES ASSUME Typing, [MembersNext]_membersVars PROVE Typing'
    OBVIOUS
  <1>1. CASE UNCHANGED membersVars
    BY <1>1, KnowsKept
    DEF membersVars, Typing, Domains, HaveAccounts, OwnersInviteOwners, IsGiven, Been
  <1> QED
    BY <1>1, FoundingTyping, InvitingTyping, ManagingTyping, FailsTyping, ExpireTyping DEF MembersNext

-----------------------------------------------------------------------------
(* Accepted invites and owners.                                            *)

\* What a step does to the members.
MembersStep ==
    \/ UNCHANGED <<member, grantedBy, left>>
    \/ \E u, role, by : Promotes(u, role, by)
    \/ \E r \in Requests : RemoveDelete(r)

LEMMA StepOnMembers ==
    ASSUME Typing, [MembersNext]_membersVars
    PROVE  MembersStep
  <1> USE DEF Typing
  <1>1. ASSUME NEW r \in Requests, FirstOwner(r) PROVE MembersStep
    <2>1. Promotes(op[r].by, "owner", "nobody")
      BY <1>1 DEF FirstOwner, Promotes, Knows, Roles
    <2> QED  BY <2>1 DEF MembersStep
  <1>2. ASSUME NEW r \in Requests, NEW i \in Invites, Grant(r, i) PROVE MembersStep
    <2>1. op[r].by \in account /\ IsGiven(i)
      BY <1>2 DEF Grant, Knows, Reads
    <2>2. invite[i] \in Invited /\ (invite[i].role = "owner" => invite[i].by = "owner")
      BY <2>1, GivenRow DEF OwnersInviteOwners
    <2>3. Promotes(op[r].by, invite[i].role, invite[i].by)
      BY <1>2, <2>1, <2>2 DEF Grant, Promotes, Invited, Managers
    <2> QED  BY <2>3 DEF MembersStep
  <1>3. ASSUME NEW r \in Requests, AddMember(r) PROVE MembersStep
    <2>1. CASE MayGrant(op[r].as, op[r].role) /\ Upsert(op[r].target, op[r].role, op[r].as)
      <3>1. Promotes(op[r].target, op[r].role, op[r].as)
        BY <1>3, <2>1 DEF AddMember, Knows, Adds, MayGrant, Promotes
      <3> QED  BY <3>1 DEF MembersStep
    <2> QED  BY <1>3, <2>1 DEF AddMember, NoUpsert, MembersStep
  <1>4. ASSUME NEW r \in Requests, SetRole(r) PROVE MembersStep
    <2>1. CASE member[op[r].target] # "none" /\ Upsert(op[r].target, op[r].role, op[r].as)
      <3>1. Promotes(op[r].target, op[r].role, op[r].as)
        BY <1>4, <2>1 DEF SetRole, Knows, HaveAccounts, Promotes, Managers
      <3> QED  BY <3>1 DEF MembersStep
    <2> QED  BY <1>4, <2>1 DEF SetRole, NoUpsert, MembersStep
  <1>5. ASSUME NEW r \in Requests, Founding(r) PROVE MembersStep
    BY <1>1, <1>5 DEF Founding, Bootstrap, Create, BootstrapUser, NoUpsert, MembersStep
  <1>6. ASSUME NEW r \in Requests, Inviting(r) PROVE MembersStep
    BY <1>2, <1>6 DEF Inviting, InviteAsked, CreateInvite, AcceptRead, RevokeRead, Login,
       RevokeWrite, AcceptUser, AcceptAgain, Mark, NoUpsert, MembersStep
  <1>7. ASSUME NEW r \in Requests, Managing(r) PROVE MembersStep
    BY <1>3, <1>4, <1>7 DEF Managing, AddAsked, RoleAsked, AddUser, RemoveAsked, RemoveRead,
       RemoveCount, NoUpsert, MembersStep
  <1> QED
    BY <1>5, <1>6, <1>7 DEF MembersNext, Fails, Expire, membersVars, NoUpsert, MembersStep

LEMMA OwnersStep ==
    ASSUME Typing, OwnersMakeOwners, [MembersNext]_membersVars
    PROVE  OwnersMakeOwners'
  <1>1. CASE UNCHANGED <<member, grantedBy, left>>
    BY <1>1 DEF OwnersMakeOwners, Owners
  <1>2. ASSUME NEW u, NEW role, NEW by, Promotes(u, role, by)
        PROVE  OwnersMakeOwners'
    <2>1. /\ member'[u] = role /\ grantedBy'[u] = IF role = "owner" THEN by ELSE "none"
          /\ \A v \in Users \ {u} : member'[v] = member[v] /\ grantedBy'[v] = grantedBy[v]
      BY <1>2, Promotion DEF Typing
    <2>2. role = "owner" => by \in {"nobody", "owner"}
      BY <1>2 DEF Promotes
    <2> QED  BY <2>1, <2>2 DEF OwnersMakeOwners, Owners
  <1>3. ASSUME NEW r \in Requests, RemoveDelete(r)
        PROVE  OwnersMakeOwners'
    BY <1>3, Removal DEF Typing, OwnersMakeOwners, Owners
  <1> QED  BY <1>1, <1>2, <1>3, StepOnMembers DEF MembersStep

\* An invite that is marked was marked, or its user is a member.
IsAccepted(i) == invite[i].state \in {"accepted", "both"}
AcceptedStay ==
    \A i \in Invites : IsAccepted(i)' =>
        \/ IsAccepted(i) /\ invite'[i].email = invite[i].email
        \/ UNCHANGED <<member, left>> /\ Been(invite[i].email) /\ invite'[i].email = invite[i].email

LEMMA StepOnInvites ==
    ASSUME Typing, [MembersNext]_membersVars
    PROVE  AcceptedStay
  <1>1. CASE invite' = invite
    BY <1>1 DEF AcceptedStay, IsAccepted
  <1>2. ASSUME NEW r \in Requests, NEW i \in Invites, CreateInvite(r, i) PROVE AcceptedStay
    <2>1. /\ invite'[i].state = "pending"
          /\ \A j \in Invites \ {i} : invite'[j] = invite[j]
      BY <1>2 DEF CreateInvite, Typing, Domains
    <2> QED  BY <2>1 DEF AcceptedStay, IsAccepted
  <1>3. ASSUME NEW r \in Requests, RevokeWrite(r) PROVE AcceptedStay
    <2>1. \A i \in op[r].todo : i \in Invites => invite[i] \in Invited
      BY <1>3, GivenRow DEF RevokeWrite, Typing, Knows
    <2>2. ASSUME NEW i \in Invites, i \in op[r].todo
          PROVE  invite'[i].email = invite[i].email /\ (IsAccepted(i)' => IsAccepted(i))
      <3>1. invite'[i] = [invite[i] EXCEPT !.state = IF @ \in {"accepted", "both"} THEN "both"
                                                     ELSE "revoked"]
        BY <1>3, <2>2 DEF RevokeWrite
      <3>2. invite[i] \in Invited
        BY <2>1, <2>2
      <3>3. invite'[i].email = invite[i].email
        BY <3>1, <3>2 DEF Invited
      <3>4. invite[i].state \notin {"accepted", "both"} => invite'[i].state = "revoked"
        BY <3>1, <3>2 DEF Invited
      <3> QED  BY <3>3, <3>4 DEF IsAccepted
    <2>3. \A i \in Invites : i \notin op[r].todo => invite'[i] = invite[i]
      BY <1>3 DEF RevokeWrite
    <2> QED  BY <2>2, <2>3 DEF AcceptedStay, IsAccepted
  <1>4. ASSUME NEW r \in Requests, Mark(r) PROVE AcceptedStay
    <2>1. /\ op[r].target \in Invites /\ op[r].target \in op[r].todo
          /\ IsGiven(op[r].target) /\ invite[op[r].target].email = op[r].by /\ Been(op[r].by)
      BY <1>4 DEF Mark, Typing, Knows, Reads, Domains, Request
    <2>2. /\ invite'[op[r].target].email = invite[op[r].target].email
          /\ \A j \in Invites \ {op[r].target} : invite'[j] = invite[j]
      <3>1. invite[op[r].target] \in Invited
        BY <2>1, GivenRow DEF Typing
      <3> QED  BY <1>4, <2>1, <3>1 DEF Mark, Accepted, Typing, Domains, Invited
    <2>3. UNCHANGED <<member, left>>
      BY <1>4 DEF Mark, NoUpsert
    <2> QED  BY <2>1, <2>2, <2>3 DEF AcceptedStay, IsAccepted
  <1>5. ASSUME NEW i \in Invites, Expire(i) PROVE AcceptedStay
    <2>1. invite[i] \in Invited
      BY <1>5, GivenRow DEF Expire, Pending, IsGiven, Typing
    <2>2. invite'[i].state = "expired" /\ \A j \in Invites \ {i} : invite'[j] = invite[j]
      BY <1>5, <2>1 DEF Expire, Typing, Domains, Invited
    <2> QED  BY <2>2 DEF AcceptedStay, IsAccepted
  <1>6. ASSUME NEW r \in Requests, Founding(r) \/ Managing(r) \/ Fails(r) PROVE invite' = invite
    BY <1>6 DEF Founding, Managing, Fails, Bootstrap, Create, BootstrapUser, FirstOwner,
       AddAsked, RoleAsked, AddUser, AddMember, SetRole, RemoveAsked, RemoveRead, RemoveCount,
       RemoveDelete
  <1>7. ASSUME NEW r \in Requests, Inviting(r) PROVE AcceptedStay
    BY <1>1, <1>2, <1>3, <1>4, <1>7
    DEF Inviting, InviteAsked, AcceptRead, Grant, RevokeRead, Login, AcceptUser, AcceptAgain
  <1> QED
    BY <1>1, <1>5, <1>6, <1>7 DEF MembersNext, membersVars

LEMMA AcceptedStep ==
    ASSUME Typing, AcceptedAreMembers, [MembersNext]_membersVars
    PROVE  AcceptedAreMembers'
  <1>1. \A u \in Users : Been(u) => Been(u)'
    <2>1. CASE UNCHANGED <<member, grantedBy, left>>
      BY <2>1 DEF Been
    <2>2. ASSUME NEW u, NEW role, NEW by, Promotes(u, role, by)
          PROVE  \A v \in Users : Been(v) => Been(v)'
      BY <2>2, Promotion DEF Typing
    <2>3. ASSUME NEW r \in Requests, RemoveDelete(r)
          PROVE  \A v \in Users : Been(v) => Been(v)'
      BY <2>3, Removal DEF Typing
    <2> QED  BY <2>1, <2>2, <2>3, StepOnMembers DEF MembersStep
  <1>2. SUFFICES ASSUME NEW i \in Invites, IsAccepted(i)'
                 PROVE  member'[invite'[i].email] # "none" \/ invite'[i].email \in left'
    BY DEF AcceptedAreMembers, IsAccepted
  <1>3. \/ IsAccepted(i) /\ invite'[i].email = invite[i].email
        \/ UNCHANGED <<member, left>> /\ Been(invite[i].email) /\ invite'[i].email = invite[i].email
    BY <1>2, StepOnInvites DEF AcceptedStay
  <1>4. CASE IsAccepted(i)
    <2>1. invite[i].email \in Users
      BY <1>4, GivenRow DEF IsAccepted, IsGiven, Typing, Invited
    <2>2. Been(invite[i].email)
      BY <1>4 DEF AcceptedAreMembers, IsAccepted, Been
    <2>3. \A u \in Users : Been(u) => member'[u] # "none" \/ u \in left'
      BY <1>1 DEF Been
    <2> QED  BY <1>3, <2>1, <2>2, <2>3
  <1>5. CASE UNCHANGED <<member, left>> /\ Been(invite[i].email)
             /\ invite'[i].email = invite[i].email
    BY <1>5 DEF Been
  <1> QED  BY <1>3, <1>4, <1>5

-----------------------------------------------------------------------------
(* An owner is kept.                                                       *)

\* A step of a request that neither founds the workspace nor begins to delete.
Quiet(r) ==
    /\ \A q \in Requests \ {r} : op'[q] = op[q]
    /\ ~At(r, "firstUser") /\ ~At(r, "firstOwner") /\ ~At(r, "delete")'
    /\ made' = made
    /\ account' # account => account # {}

LEMMA InvitingQuiet ==
    ASSUME Typing, NEW r \in Requests, Inviting(r)
    PROVE  Quiet(r)
  <1> USE DEF Typing
  <1>1. ASSUME NEW o, Go(r, o), At(r, "idle"), o.pc # "delete", UNCHANGED <<made, account>>
        PROVE  Quiet(r)
    BY <1>1, GoOne DEF Quiet, At
  <1>2. ASSUME Ends(r), ~At(r, "firstUser"), ~At(r, "firstOwner"), made' = made,
               account' # account => account # {}
        PROVE  Quiet(r)
    BY <1>2, GoOne, IdleFields DEF Ends, Quiet, At
  <1>3. ASSUME NEW pc \in {"reread", "grant", "mark"}, NEW e, NEW todo,
               \/ Go(r, [op[r] EXCEPT !.pc = pc])
               \/ Go(r, [op[r] EXCEPT !.pc = pc, !.target = e])
               \/ Go(r, [op[r] EXCEPT !.pc = pc, !.target = e, !.todo = todo]),
               ~At(r, "firstUser"), ~At(r, "firstOwner"), made' = made,
               account' # account => account # {}
        PROVE  Quiet(r)
    <2>1. \A q \in Requests \ {r} : op'[q] = op[q]
      BY <1>3, GoOne
    <2>2. \/ op'[r] = [op[r] EXCEPT !.pc = pc]
          \/ op'[r] = [op[r] EXCEPT !.pc = pc, !.target = e]
          \/ op'[r] = [op[r] EXCEPT !.pc = pc, !.target = e, !.todo = todo]
      BY <1>3, GoOne
    <2>3. op[r] \in Request
      BY DEF Domains
    <2>4. op'[r].pc = pc
      BY <2>2, <2>3 DEF Request
    <2> QED  BY <1>3, <2>1, <2>4 DEF Quiet, At
  <1>4. ASSUME NEW u \in Users, NEW e \in Users, NEW role \in Roles, InviteAsked(r, u, e, role)
        PROVE  Quiet(r)
    <2> DEFINE o == [Asks(u, "invite") EXCEPT !.target = e, !.role = role]
    <2>1. o.pc = "invite"
      BY DEF Asks, Idle
    <2>2. Go(r, o) /\ At(r, "idle") /\ UNCHANGED <<made, account>>
      BY <1>4 DEF InviteAsked
    <2> HIDE DEF o
    <2> QED  BY <1>1, <2>1, <2>2
  <1>5. ASSUME NEW i \in Invites, AcceptRead(r, i) PROVE Quiet(r)
    <2> DEFINE o == [Idle EXCEPT !.pc = "newUser", !.by = invite[i].email, !.todo = {i}]
    <2>1. o.pc = "newUser"
      BY DEF Idle
    <2>2. Go(r, o) /\ At(r, "idle") /\ UNCHANGED <<made, account>>
      BY <1>5 DEF AcceptRead
    <2> HIDE DEF o
    <2> QED  BY <1>1, <2>1, <2>2
  <1>6. ASSUME NEW i \in Invites, NEW u \in Users, RevokeRead(r, u, i) PROVE Quiet(r)
    <2> DEFINE o == [Asks(u, "revoke") EXCEPT !.todo = {i}]
    <2>1. o.pc = "revoke"
      BY DEF Asks, Idle
    <2>2. Go(r, o) /\ At(r, "idle") /\ UNCHANGED <<made, account>>
      BY <1>6 DEF RevokeRead
    <2> HIDE DEF o
    <2> QED  BY <1>1, <2>1, <2>2
  <1>7. ASSUME NEW u \in Users, Login(r, u) PROVE Quiet(r)
    <2> DEFINE mine == {i \in Invites : Pending(i) /\ invite[i].email = u}
               o == [Idle EXCEPT !.pc = "grant", !.by = u, !.todo = mine]
    <2> HIDE DEF mine
    <2>1. o.pc = "grant"
      BY DEF Idle
    <2>2. Go(r, o) /\ At(r, "idle") /\ UNCHANGED <<made, account>>
      BY <1>7 DEF Login, mine
    <2> HIDE DEF o
    <2> QED  BY <1>1, <2>1, <2>2
  <1>8. ASSUME NEW i \in Invites, CreateInvite(r, i) PROVE Quiet(r)
    BY <1>2, <1>8 DEF CreateInvite, At
  <1>9. ASSUME RevokeWrite(r) PROVE Quiet(r)
    BY <1>2, <1>9 DEF RevokeWrite, At
  <1>10. ASSUME NEW i \in Invites, Grant(r, i) PROVE Quiet(r)
    BY <1>3, <1>10 DEF Grant, At
  <1>11. ASSUME AcceptUser(r) PROVE Quiet(r)
    <2>1. At(r, "newUser") /\ account # {} /\ made' = made
      BY <1>11 DEF AcceptUser, Knows
    <2> QED  BY <1>2, <1>3, <1>11, <2>1 DEF AcceptUser, Advance, At
  <1>12. ASSUME AcceptAgain(r) PROVE Quiet(r)
    BY <1>2, <1>3, <1>12 DEF AcceptAgain, Advance, At
  <1>13. ASSUME Mark(r) PROVE Quiet(r)
    BY <1>2, <1>3, <1>13 DEF Mark, At
  <1> QED
    BY <1>4, <1>5, <1>6, <1>7, <1>8, <1>9, <1>10, <1>11, <1>12, <1>13 DEF Inviting

LEMMA ManagingQuiet ==
    ASSUME Typing, NEW r \in Requests, Managing(r)
    PROVE  Quiet(r) \/ RemoveCount(r)
  <1> USE DEF Typing
  <1>1. ASSUME NEW o, Go(r, o), At(r, "idle") \/ At(r, "remove"), o.pc # "delete",
               UNCHANGED <<made, account>>
        PROVE  Quiet(r)
    BY <1>1, GoOne DEF Quiet, At
  <1>2. ASSUME Ends(r), ~At(r, "firstUser"), ~At(r, "firstOwner"), made' = made,
               account' # account => account # {}
        PROVE  Quiet(r)
    BY <1>2, GoOne, IdleFields DEF Ends, Quiet, At
  <1>3. ASSUME NEW u \in Users, NEW e \in Users, NEW role \in Roles, AddAsked(r, u, e, role)
        PROVE  Quiet(r)
    <2> DEFINE pc == IF e \in account THEN "addMember" ELSE "addUser"
               o  == [Asks(u, pc) EXCEPT !.target = e, !.role = role]
    <2>1. pc # "delete"
      OBVIOUS
    <2>2. Go(r, o) /\ At(r, "idle") /\ UNCHANGED <<made, account>>
      BY <1>3 DEF AddAsked
    <2> HIDE DEF pc
    <2>3. o.pc # "delete"
      BY <2>1 DEF Asks, Idle
    <2> HIDE DEF o
    <2> QED  BY <1>1, <2>2, <2>3
  <1>4. ASSUME NEW u \in Users, NEW e \in Users, NEW role \in Roles, RoleAsked(r, u, e, role)
        PROVE  Quiet(r)
    <2> DEFINE o == [Asks(u, "setRole") EXCEPT !.target = e, !.role = role]
    <2>1. o.pc = "setRole"
      BY DEF Asks, Idle
    <2>2. Go(r, o) /\ At(r, "idle") /\ UNCHANGED <<made, account>>
      BY <1>4 DEF RoleAsked
    <2> HIDE DEF o
    <2> QED  BY <1>1, <2>1, <2>2
  <1>5. ASSUME AddUser(r) PROVE Quiet(r)
    <2>1. At(r, "addUser") /\ account # {} /\ made' = made
      BY <1>5 DEF AddUser, Knows
    <2>2. CASE Ends(r)
      BY <1>2, <2>1, <2>2 DEF At
    <2>3. CASE Advance(r, "addMember")
      <3>1. op'[r].pc = "addMember" /\ \A q \in Requests \ {r} : op'[q] = op[q]
        BY <2>3, GoOne DEF Advance, Domains, Request
      <3> QED  BY <2>1, <3>1 DEF Quiet, At
    <2> QED  BY <1>5, <2>2, <2>3 DEF AddUser
  <1>6. ASSUME AddMember(r) \/ SetRole(r) \/ RemoveDelete(r) PROVE Quiet(r)
    BY <1>2, <1>6 DEF AddMember, SetRole, RemoveDelete, At
  <1>7. ASSUME NEW u \in Users, RemoveAsked(r, u) PROVE Quiet(r)
    <2> DEFINE o == [Asks(u, "remove") EXCEPT !.by = u]
    <2>1. o.pc = "remove"
      BY DEF Asks, Idle
    <2>2. Go(r, o) /\ At(r, "idle") /\ UNCHANGED <<made, account>>
      BY <1>7 DEF RemoveAsked
    <2> HIDE DEF o
    <2> QED  BY <1>1, <2>1, <2>2
  <1>8. ASSUME NEW u \in Users, RemoveRead(r, u) PROVE Quiet(r)
    <2> DEFINE o == [Idle EXCEPT !.pc = "count", !.target = u, !.role = member[u]]
    <2>1. o.pc = "count"
      BY DEF Idle
    <2>2. Go(r, o) /\ At(r, "remove") /\ UNCHANGED <<made, account>>
      BY <1>8 DEF RemoveRead
    <2> HIDE DEF o
    <2> QED  BY <1>1, <2>1, <2>2
  <1> QED
    BY <1>3, <1>4, <1>5, <1>6, <1>7, <1>8 DEF Managing

\* As long as the history is clean, owners stay but for those that are deleted.
LEMMA OwnersGrow ==
    ASSUME Typing, [MembersNext]_membersVars
    PROVE  clean' => /\ clean
                     /\ Owners \subseteq Owners' \/ \E r \in Requests : RemoveDelete(r)
  <1> USE DEF Typing
  <1>1. CASE UNCHANGED <<member, grantedBy, left>>
    <2>1. Owners' = Owners
      BY <1>1 DEF Owners
    <2>2. clean' => clean
      <3>1. ASSUME NEW u, NEW role, NEW by, Upsert(u, role, by) PROVE clean' => clean
        BY <3>1 DEF Upsert
      <3>2. NoUpsert => (clean' => clean)
        BY DEF NoUpsert
      <3>3. ASSUME NEW r \in Requests, Founding(r) PROVE clean' => clean
        BY <3>1, <3>2, <3>3 DEF Founding, Bootstrap, Create, BootstrapUser, FirstOwner
      <3>4. ASSUME NEW r \in Requests, Inviting(r) PROVE clean' => clean
        BY <3>1, <3>2, <3>4 DEF Inviting, InviteAsked, CreateInvite, AcceptRead, Grant,
           RevokeRead, Login, RevokeWrite, AcceptUser, AcceptAgain, Mark
      <3>5. ASSUME NEW r \in Requests, Managing(r) PROVE clean' => clean
        BY <3>1, <3>2, <3>5 DEF Managing, AddAsked, RoleAsked, AddUser, AddMember, SetRole,
           RemoveAsked, RemoveRead, RemoveCount, RemoveDelete
      <3> QED  BY <3>2, <3>3, <3>4, <3>5 DEF MembersNext, Fails, Expire, membersVars
    <2> QED  BY <2>1, <2>2
  <1>2. ASSUME NEW u, NEW role, NEW by, Promotes(u, role, by)
        PROVE  clean' => clean /\ Owners \subseteq Owners'
    BY <1>2, Promotion
  <1>3. ASSUME NEW r \in Requests, RemoveDelete(r) PROVE clean' => clean
    BY <1>3 DEF RemoveDelete
  <1> QED  BY <1>1, <1>2, <1>3, StepOnMembers DEF MembersStep

\* Two of a set are not one.
LEMMA AnotherOne ==
    ASSUME NEW S, NEW x, Cardinality(S) > 1
    PROVE  \E y \in S : y # x
  <1> SUFFICES ASSUME \A y \in S : y = x PROVE FALSE
    OBVIOUS
  <1>1. S = {} \/ S = {x}
    OBVIOUS
  <1>2. Cardinality({}) = 0 /\ Cardinality({x}) = 1
    BY FS_EmptySet, FS_Singleton
  <1>3. CASE S = {}
    BY <1>2, <1>3
  <1>4. CASE S = {x}
    BY <1>2, <1>4
  <1> QED  BY <1>1, <1>3, <1>4

\* Of the requests that are about to delete, none begins but by counting.
LEMMA DeletesOnlyCounted ==
    ASSUME Typing, [MembersNext]_membersVars, \A r \in Requests : ~RemoveCount(r), NEW q \in Requests,
           At(q, "delete")'
    PROVE  At(q, "delete") /\ op'[q] = op[q] /\ ~RemoveDelete(q)
  <1> USE DEF Typing
  <1>1. ASSUME NEW r \in Requests, Quiet(r)
        PROVE  At(q, "delete") /\ op'[q] = op[q] /\ ~RemoveDelete(q)
    <2>1. q # r
      BY <1>1 DEF Quiet
    <2>2. op'[q] = op[q]
      BY <1>1, <2>1 DEF Quiet
    <2> QED  BY <2>2, GoOne, IdleFields DEF At, RemoveDelete, Ends
  <1>2. ASSUME NEW r \in Requests, Founding(r)
        PROVE  At(q, "delete") /\ op'[q] = op[q]
    <2>1. \E o : Go(r, o) /\ o.pc # "delete"
      <3>1. ASSUME Ends(r) PROVE \E o : Go(r, o) /\ o.pc # "delete"
        BY <3>1, IdleFields DEF Ends
      <3>2. ASSUME NEW u \in Users, NEW pc \in {"firstUser", "firstOwner"},
                   Go(r, [Idle EXCEPT !.pc = pc, !.by = u])
            PROVE  \E o : Go(r, o) /\ o.pc # "delete"
        <4> DEFINE o == [Idle EXCEPT !.pc = pc, !.by = u]
        <4>1. Go(r, o) /\ o.pc = pc
          BY <3>2 DEF Idle
        <4> HIDE DEF o
        <4> QED  BY <4>1
      <3>3. ASSUME Advance(r, "firstOwner")
            PROVE  \E o : Go(r, o) /\ o.pc # "delete"
        <4> DEFINE o == [op[r] EXCEPT !.pc = "firstOwner"]
        <4>1. Go(r, o) /\ o.pc = "firstOwner"
          BY <3>3 DEF Advance, Domains, Request
        <4> HIDE DEF o
        <4> QED  BY <4>1
      <3> QED
        BY <1>2, <3>1, <3>2, <3>3 DEF Founding, Bootstrap, Create, BootstrapUser, FirstOwner
    <2> QED  BY <2>1, GoOne DEF At
  <1>3. ASSUME NEW r \in Requests, Fails(r)
        PROVE  At(q, "delete") /\ op'[q] = op[q]
    BY <1>3, GoOne, IdleFields DEF Fails, Ends, At
  <1>4. ASSUME op' = op
        PROVE  At(q, "delete") /\ op'[q] = op[q]
    BY <1>4 DEF At
  <1>5. At(q, "delete") /\ op'[q] = op[q]
    BY <1>1, <1>2, <1>3, <1>4, InvitingQuiet, ManagingQuiet DEF MembersNext, Expire, membersVars
  <1>6. ~RemoveDelete(q)
    BY <1>5, GoOne, IdleFields DEF RemoveDelete, Ends, At
  <1> QED  BY <1>5, <1>6

LEMMA OthersStayStep ==
    ASSUME Typing, OthersStay, [MembersNext]_membersVars
    PROVE  OthersStay'
  <1> USE DEF Typing
  <1> SUFFICES ASSUME clean' PROVE OthersStay'
    BY DEF OthersStay
  <1>1. clean /\ (Owners \subseteq Owners' \/ \E r \in Requests : RemoveDelete(r))
    BY OwnersGrow
  <1>2. ASSUME NEW r \in Requests, RemoveCount(r) PROVE OthersStay'
    <2>1. \A q \in Requests : ~At(q, "delete")
      BY <1>2 DEF RemoveCount
    <2>2. \A q \in Requests \ {r} : ~At(q, "delete")'
      BY <1>2, <2>1, GoOne DEF RemoveCount, Advance, Ends, At
    <2>3. At(r, "delete")' =>
              /\ op'[r].target = op[r].target /\ op'[r].role = op[r].role
              /\ MayRemove(op[r].role)
      BY <1>2, GoOne, IdleFields DEF RemoveCount, Advance, Ends, At, Domains, Request
    <2>4. MayRemove(op[r].role) /\ op[r].role = "owner" => \E u \in Owners : u # op[r].target
      BY AnotherOne DEF MayRemove
    <2>5. Owners' = Owners
      BY <1>2 DEF RemoveCount, Owners
    <2> QED  BY <2>2, <2>3, <2>4, <2>5 DEF OthersStay
  <1>3. ASSUME \A r \in Requests : ~RemoveCount(r) PROVE OthersStay'
    <2>1. \A q \in Requests : At(q, "delete")' =>
              At(q, "delete") /\ op'[q] = op[q] /\ ~RemoveDelete(q)
      BY <1>3, DeletesOnlyCounted
    <2>2. CASE Owners \subseteq Owners'
      BY <1>1, <2>1, <2>2 DEF OthersStay
    <2>3. ASSUME NEW r \in Requests, RemoveDelete(r) PROVE OthersStay'
      <3>1. At(r, "delete")
        BY <2>3 DEF RemoveDelete
      <3>2. \A q \in Requests : ~At(q, "delete")'
        BY <1>1, <2>1, <2>3, <3>1 DEF OthersStay
      <3> QED  BY <3>2 DEF OthersStay
    <2> QED  BY <1>1, <2>2, <2>3
  <1> QED  BY <1>2, <1>3

\* An owner that is deleted leaves another.
LEMMA DeletionLeavesOwner ==
    ASSUME Typing, OthersStay, clean', NEW r \in Requests, RemoveDelete(r), Owners # {}
    PROVE  Owners' # {}
  <1>1. /\ op[r].target \in Users /\ clean
        /\ member[op[r].target] = "owner" => op[r].role = "owner"
        /\ \A v \in Users \ {op[r].target} : member'[v] = member[v]
    BY Removal DEF Typing
  <1>2. \E u \in Owners : u # op[r].target
    <2>1. CASE member[op[r].target] = "owner"
      BY <1>1, <2>1 DEF OthersStay, RemoveDelete
    <2>2. CASE member[op[r].target] # "owner"
      BY <2>2 DEF Owners
    <2> QED  BY <2>1, <2>2
  <1> QED  BY <1>1, <1>2 DEF Owners

LEMMA FoundedStep ==
    ASSUME Typing, OthersStay, Founded, [MembersNext]_membersVars
    PROVE  Founded'
  <1> USE DEF Typing
  <1> SUFFICES ASSUME clean', made' PROVE Founded'
    BY DEF Founded
  <1>1. clean /\ (Owners # {} => Owners' # {})
    BY OwnersGrow, DeletionLeavesOwner
  <1>2. ASSUME NEW r \in Requests, Quiet(r) PROVE Founded'
    <2>1. made /\ (account = {} => account' = {})
      BY <1>2 DEF Quiet
    <2>2. \A q \in Requests, pc \in {"firstOwner", "firstUser"} : At(q, pc) => At(q, pc)'
      BY <1>2 DEF Quiet, At
    <2> QED  BY <1>1, <2>1, <2>2 DEF Founded
  <1>3. ASSUME NEW r \in Requests, Founding(r) PROVE Founded'
    <2>1. ASSUME NEW u \in Users, Bootstrap(r, u) PROVE Founded'
      <3> DEFINE o == [Idle EXCEPT !.pc = "firstUser", !.by = u]
      <3>0. Go(r, o) /\ o.pc = "firstUser"
        BY <2>1 DEF Bootstrap, Idle
      <3> HIDE DEF o
      <3>1. op'[r].pc = "firstUser" /\ account' = {}
        BY <2>1, <3>0, GoOne DEF Bootstrap
      <3> QED  BY <3>1 DEF Founded, At
    <2>2. ASSUME NEW u \in Users, Create(r, u) PROVE Founded'
      <3> DEFINE o == [Idle EXCEPT !.pc = "firstOwner", !.by = u]
      <3>0. Go(r, o) /\ o.pc = "firstOwner"
        BY <2>2 DEF Create, Idle
      <3> HIDE DEF o
      <3>1. op'[r].pc = "firstOwner"
        BY <2>2, <3>0, GoOne DEF Create
      <3> QED  BY <3>1 DEF Founded, At
    <2>3. ASSUME BootstrapUser(r) PROVE Founded'
      <3>1. CASE op[r].by \in account
        <4>1. \A q \in Requests \ {r} : op'[q] = op[q]
          BY <2>3, <3>1, GoOne DEF BootstrapUser, Ends
        <4>2. Owners # {} \/ \E q \in Requests \ {r} : At(q, "firstOwner")
          BY <1>1, <2>3, <3>1 DEF BootstrapUser, Founded, At
        <4> QED  BY <1>1, <4>1, <4>2 DEF Founded, At
      <3>2. CASE op[r].by \notin account
        <4>1. op'[r].pc = "firstOwner"
          BY <2>3, <3>2, GoOne DEF BootstrapUser, Advance, Domains, Request
        <4> QED  BY <4>1 DEF Founded, At
      <3> QED  BY <3>1, <3>2
    <2>4. ASSUME FirstOwner(r) PROVE Founded'
      <3>1. Promotes(op[r].by, "owner", "nobody")
        BY <2>4 DEF FirstOwner, Promotes, Knows, Roles
      <3>2. op[r].by \in Owners'
        BY <3>1, Promotion
      <3> QED  BY <3>2 DEF Founded
    <2> QED  BY <1>3, <2>1, <2>2, <2>3, <2>4 DEF Founding
  <1>4. ASSUME NEW r \in Requests, RemoveCount(r) PROVE Founded'
    <2>1. \A q \in Requests \ {r} : op'[q] = op[q]
      BY <1>4, GoOne DEF RemoveCount, Advance, Ends
    <2>2. \A q \in Requests, pc \in {"firstOwner", "firstUser"} : At(q, pc) => At(q, pc)'
      BY <1>4, <2>1 DEF RemoveCount, At
    <2> QED  BY <1>1, <1>4, <2>2 DEF Founded, RemoveCount
  <1>5. ASSUME NEW r \in Requests, Fails(r) PROVE Founded'
    <2>1. ~At(r, "firstOwner") /\ ~At(r, "firstUser") /\ made' = made /\ account' = account
      BY <1>5 DEF Fails
    <2>2. \A q \in Requests \ {r} : op'[q] = op[q]
      BY <1>5, GoOne DEF Fails, Ends
    <2>3. \A q \in Requests, pc \in {"firstOwner", "firstUser"} : At(q, pc) => At(q, pc)'
      BY <2>1, <2>2 DEF At
    <2> QED  BY <1>1, <2>1, <2>3 DEF Founded
  <1>6. CASE UNCHANGED <<op, made, account>>
    BY <1>1, <1>6 DEF Founded, At
  <1> QED
    BY <1>2, <1>3, <1>4, <1>5, <1>6, InvitingQuiet, ManagingQuiet DEF MembersNext, Expire, membersVars

-----------------------------------------------------------------------------
(* The theorems.                                                           *)

\* The invariant is inductive.
THEOREM Invariance == MembersSpec => []IInv
  <1>1. MembersInit => IInv
    <2> SUFFICES ASSUME MembersInit PROVE IInv
      OBVIOUS
    <2>1. AcceptedAreMembers /\ OwnersMakeOwners /\ Founded
      BY DEF MembersInit, AcceptedAreMembers, NoInvite, OwnersMakeOwners, Owners, Founded
    <2>2. OthersStay
      BY IdleFields DEF MembersInit, OthersStay, At
    <2> QED  BY <2>1, <2>2, TypingInit DEF IInv
  <1>2. IInv /\ [MembersNext]_membersVars => IInv'
    BY TypingStep, AcceptedStep, OwnersStep, OthersStayStep, FoundedStep DEF IInv
  <1> QED  BY <1>1, <1>2, PTL DEF MembersSpec

\* Who is a member was let in, and who is an owner was made one by an owner:
\* whichever invites, sign-ins, additions, changes of role and removals
\* interleave, and wherever one of them fails between its statements.
THEOREM Earning == MembersSpec => []RolesEarned
  <1>1. IInv => RolesEarned
    <2> SUFFICES ASSUME IInv PROVE RolesEarned
      OBVIOUS
    <2>1. \A i \in Invites : invite[i] = NoInvite \/ invite[i] \in
              [state : InviteStates, email : Users, role : Roles, by : Managers]
      BY DEF IInv, Typing, Domains, Invited, Given
    <2>2. \A r \in Requests : op[r] \in
              [pc : Steps, by : Users \cup {"none"}, as : Roles \cup {"none"},
               target : Users \cup Invites \cup {"none"}, role : Roles \cup {"none"},
               todo : SUBSET Invites]
      BY DEF IInv, Typing, Domains, Request, Persons, NoRole, Targets
    <2>3. MembersTypeOK
      BY <2>1, <2>2 DEF MembersTypeOK, IInv, Typing, Domains, HaveAccounts, NoRole, Granters
    <2> QED  BY <2>3 DEF RolesEarned, IInv
  <1> QED  BY <1>1, Invariance, PTL

\* A workspace keeps an owner, whoever removes whom, as long as no owner is
\* demoted, no two removals overlap and its creation is not cut short.
THEOREM Keeping == MembersSpec => []KeepsAnOwner
  <1>1. IInv => KeepsAnOwner
    BY DEF IInv, Founded, KeepsAnOwner
  <1> QED  BY <1>1, Invariance, PTL

-----------------------------------------------------------------------------
(* ChannelProfiles, whatever the requests of a workspace do.               *)

\* The domains of the rows and of what requests hold of them.
Kinds    == {Blank} \cup {ResolveStoredChannelType(f) : f \in Forms}
Places   == {Blank} \cup {f.target : f \in Forms}
Secrets  == UNION {CHANNEL_PROFILE_TEMPLATES[t].secrets : t \in DOMAIN CHANNEL_PROFILE_TEMPLATES}
Profile  == [template : {Blank} \cup DOMAIN CHANNEL_PROFILE_TEMPLATES, channelType : Kinds,
             target : Places, secrets : SUBSET Secrets, applied : BOOLEAN]
Call     == [op : {"idle", "save", "apply"}, id : {Blank} \cup ProfileIds, row : Profile,
             left : SUBSET ProfileIds, locked : SUBSET ProfileIds]

\* A profile has the secrets its template requires.
Complete(p) ==
    p.template # Blank => CHANNEL_PROFILE_TEMPLATES[p.template].required
                         \cap CHANNEL_PROFILE_TEMPLATES[p.template].secrets \subseteq p.secrets

\* What is stored, and what a save is about to store, is complete.
ProfilesTyped ==
    /\ rows \in [ProfileIds -> Profile] /\ calls \in [Callers -> Call] /\ grown \in BOOLEAN
    /\ \A id \in ProfileIds : Complete(rows[id])
    /\ \A c \in Callers : calls[c].op = "save" =>
         calls[c].row.template # Blank /\ ~calls[c].row.applied /\ Complete(calls[c].row)

\* A profile that is applied clears all others: what is stored is locked or
\* waits to be, but for itself.
OnlyPreferred == \A p, q \in Stored : rows[p].applied /\ rows[q].applied => p = q
AllCleared ==
    \A c \in Callers : calls[c].op = "apply" =>
        Stored \subseteq calls[c].left \cup calls[c].locked \cup {calls[c].id}
ProfilesInv == ProfilesTyped /\ (grown \/ (OnlyPreferred /\ AllCleared))

LEMMA BlankProfile == NoProfile \in Profile /\ Complete(NoProfile) /\ IdleCall \in Call
  BY DEF NoProfile, Profile, Complete, IdleCall, Call, Kinds, Places

\* What a form makes of a profile is complete if the form is accepted.
LEMMA SavedIsComplete ==
    ASSUME NEW form \in Forms, NEW stored \in Profile, SanitizeProfilePayload(form, stored)
    PROVE  /\ ProfileOf(form, stored) \in Profile /\ Complete(ProfileOf(form, stored))
           /\ ProfileOf(form, stored).template # Blank /\ ~ProfileOf(form, stored).applied
  <1> DEFINE t == form.template
             T == CHANNEL_PROFILE_TEMPLATES[t]
  <1>1. t \in DOMAIN CHANNEL_PROFILE_TEMPLATES
    BY FormsAssumption
  <1>2. Blank \notin DOMAIN CHANNEL_PROFILE_TEMPLATES
    BY Zenon DEF CHANNEL_PROFILE_TEMPLATES, Blank
  <1>3. T.required \cap T.secrets \subseteq form.given \cup stored.secrets
    BY DEF SanitizeProfilePayload
  <1>4. stored.secrets \cup (form.given \cap T.secrets) \in SUBSET Secrets
    BY <1>1 DEF Profile, Secrets
  <1>5. ResolveStoredChannelType(form) \in Kinds /\ form.target \in Places
    BY DEF Kinds, Places
  <1> HIDE DEF T
  <1>6. ProfileOf(form, stored) = [template |-> t, channelType |-> ResolveStoredChannelType(form),
                                   target |-> form.target, applied |-> FALSE,
                                   secrets |-> stored.secrets \cup (form.given \cap T.secrets)]
    BY DEF ProfileOf, T
  <1>7. ProfileOf(form, stored) \in Profile
    BY <1>1, <1>4, <1>5, <1>6 DEF Profile
  <1>8. Complete(ProfileOf(form, stored))
    BY <1>3, <1>6 DEF Complete, T
  <1> QED  BY <1>1, <1>2, <1>6, <1>7, <1>8

LEMMA ProfilesInitially == ProfilesInit => ProfilesInv
  <1> SUFFICES ASSUME ProfilesInit PROVE ProfilesInv
    OBVIOUS
  <1>1. \A id \in ProfileIds : rows[id] \in Profile /\ Complete(rows[id]) /\ ~rows[id].applied
    <2> SUFFICES ASSUME NEW id \in ProfileIds
                 PROVE  rows[id] \in Profile /\ Complete(rows[id]) /\ ~rows[id].applied
      OBVIOUS
    <2>1. CASE rows[id] = NoProfile
      BY <2>1, BlankProfile DEF NoProfile
    <2>2. CASE rows[id] # NoProfile
      <3>1. PICK form \in Forms : /\ SanitizeProfilePayload(form, NoProfile)
                                  /\ rows[id] = ProfileOf(form, NoProfile)
        BY <2>2 DEF ProfilesInit
      <3> QED  BY <3>1, BlankProfile, SavedIsComplete
    <2> QED  BY <2>1, <2>2
  <1>2. rows \in [ProfileIds -> Profile]
    <2>1. rows = [id \in ProfileIds |-> rows[id]]
      BY DEF ProfilesInit
    <2> QED  BY <1>1, <2>1
  <1>3. calls = [c \in Callers |-> IdleCall] /\ grown = FALSE
    BY DEF ProfilesInit
  <1>4. \A c \in Callers : calls[c].op = "idle"
    BY <1>3 DEF IdleCall
  <1>5. calls \in [Callers -> Call]
    BY <1>3, BlankProfile
  <1> QED  BY <1>1, <1>2, <1>3, <1>4, <1>5 DEF ProfilesInv, ProfilesTyped, OnlyPreferred, AllCleared, Stored

\* A request takes another step; what its call names stays in the domains.
LEMMA CallMoves ==
    ASSUME ProfilesTyped, NEW c \in Callers, NEW call \in Call, calls' = [calls EXCEPT ![c] = call]
    PROVE  /\ calls' \in [Callers -> Call] /\ calls'[c] = call
           /\ \A d \in Callers : d # c => calls'[d] = calls[d]
  BY DEF ProfilesTyped

LEMMA StartSaveKeeps ==
    ASSUME ProfilesInv, NEW c \in Callers, NEW id \in ProfileIds \cup {Blank}, NEW form \in Forms,
           StartSave(c, id, form)
    PROVE  ProfilesInv'
  <1> DEFINE stored == IF id = Blank THEN NoProfile ELSE rows[id]
             call == [IdleCall EXCEPT !.op = "save", !.id = id, !.row = ProfileOf(form, stored)]
  <1>1. ProfilesTyped /\ stored \in Profile
    BY BlankProfile DEF ProfilesInv, ProfilesTyped
  <1>2. SanitizeProfilePayload(form, stored) /\ calls' = [calls EXCEPT ![c] = call]
        /\ UNCHANGED <<rows, grown>>
    BY DEF StartSave
  <1>3. /\ ProfileOf(form, stored) \in Profile /\ Complete(ProfileOf(form, stored))
        /\ ProfileOf(form, stored).template # Blank /\ ~ProfileOf(form, stored).applied
    BY <1>1, <1>2, SavedIsComplete
  <1> HIDE DEF stored
  <1>4. /\ call \in Call /\ call.op = "save" /\ call.row = ProfileOf(form, stored)
    BY <1>3 DEF IdleCall, Call
  <1> HIDE DEF call
  <1>5. /\ calls' \in [Callers -> Call] /\ calls'[c] = call
        /\ \A d \in Callers : d # c => calls'[d] = calls[d]
    BY <1>1, <1>2, <1>4, CallMoves
  <1>6. ProfilesTyped'
    BY <1>1, <1>2, <1>3, <1>4, <1>5 DEF ProfilesTyped
  <1>7. (grown \/ (OnlyPreferred /\ AllCleared))'
    BY <1>2, <1>4, <1>5 DEF ProfilesInv, OnlyPreferred, AllCleared, Stored
  <1> QED  BY <1>6, <1>7 DEF ProfilesInv

LEMMA InsertKeeps ==
    ASSUME ProfilesInv, NEW c \in Callers, InsertProfile(c)
    PROVE  ProfilesInv'
  <1>1. ProfilesTyped
    BY DEF ProfilesInv
  <1>2. PICK id \in ProfileIds \ Stored : rows' = [rows EXCEPT ![id] = calls[c].row]
    BY DEF InsertProfile
  <1>3. /\ calls[c].row \in Profile /\ calls[c].row.template # Blank /\ ~calls[c].row.applied
        /\ Complete(calls[c].row)
    BY <1>1 DEF InsertProfile, ProfilesTyped, Call
  <1>4. calls' = [calls EXCEPT ![c] = IdleCall] /\ IdleCall \in Call /\ IdleCall.op = "idle"
    BY BlankProfile DEF InsertProfile, IdleCall
  <1>5. /\ calls' \in [Callers -> Call] /\ calls'[c] = IdleCall
        /\ \A d \in Callers : d # c => calls'[d] = calls[d]
    BY <1>1, <1>4, CallMoves
  <1>6. grown' = (grown \/ \E d \in Callers : calls[d].op = "apply")
    BY DEF InsertProfile
  <1>7. ProfilesTyped'
    <2>1. rows' \in [ProfileIds -> Profile] /\ \A i \in ProfileIds : Complete(rows'[i])
      BY <1>1, <1>2, <1>3 DEF ProfilesTyped
    <2>2. grown' \in BOOLEAN
      BY <1>6, <1>1, Zenon DEF ProfilesTyped
    <2> QED  BY <1>1, <1>4, <1>5, <2>1, <2>2 DEF ProfilesTyped
  <1>8. ASSUME ~grown' PROVE OnlyPreferred' /\ AllCleared'
    <2>1. ~grown /\ \A d \in Callers : calls[d].op # "apply"
      BY <1>6, <1>8, Zenon
    <2>2. AllCleared'
      BY <2>1, <1>4, <1>5 DEF AllCleared
    <2>3. OnlyPreferred'
      BY <2>1, <1>1, <1>2, <1>3 DEF ProfilesInv, ProfilesTyped, OnlyPreferred, Stored
    <2> QED  BY <2>2, <2>3
  <1> QED  BY <1>7, <1>8, Zenon DEF ProfilesInv

LEMMA UpdateKeeps ==
    ASSUME ProfilesInv, NEW c \in Callers, UpdateProfile(c)
    PROVE  ProfilesInv'
  <1>1. ProfilesTyped
    BY DEF ProfilesInv
  <1> DEFINE id  == calls[c].id
             new == [calls[c].row EXCEPT !.applied = rows[id].applied]
  <1>2. /\ rows' = IF id \in Stored THEN [rows EXCEPT ![id] = new] ELSE rows
        /\ calls[c].op = "save" /\ UNCHANGED grown
    BY DEF UpdateProfile
  <1>3. calls' = [calls EXCEPT ![c] = IdleCall] /\ IdleCall \in Call /\ IdleCall.op = "idle"
    BY BlankProfile DEF UpdateProfile, IdleCall
  <1>4. /\ calls' \in [Callers -> Call] /\ calls'[c] = IdleCall
        /\ \A d \in Callers : d # c => calls'[d] = calls[d]
    BY <1>1, <1>3, CallMoves
  <1>5. /\ calls[c].row \in Profile /\ calls[c].row.template # Blank
        /\ Complete(calls[c].row)
    BY <1>1, <1>2 DEF ProfilesTyped, Call
  <1>6. id \in Stored => /\ id \in ProfileIds /\ new \in Profile /\ Complete(new)
                         /\ new.template # Blank /\ new.applied = rows[id].applied
    <2> SUFFICES ASSUME id \in Stored
                 PROVE  /\ id \in ProfileIds /\ new \in Profile /\ Complete(new)
                        /\ new.template # Blank /\ new.applied = rows[id].applied
      OBVIOUS
    <2>1. id \in ProfileIds /\ rows[id] \in Profile
      BY <1>1 DEF ProfilesTyped, Stored
    <2>2. rows[id].applied \in BOOLEAN
      BY <2>1 DEF Profile
    <2>3. /\ new \in Profile /\ new.template = calls[c].row.template
          /\ new.secrets = calls[c].row.secrets /\ new.applied = rows[id].applied
      BY <1>5, <2>2 DEF Profile
    <2> HIDE DEF new
    <2> QED  BY <1>5, <2>1, <2>3 DEF Complete
  <1> HIDE DEF new
  <1>7. ProfilesTyped'
    <2>1. rows' \in [ProfileIds -> Profile] /\ \A i \in ProfileIds : Complete(rows'[i])
      BY <1>1, <1>2, <1>6 DEF ProfilesTyped
    <2> QED  BY <1>1, <1>2, <1>3, <1>4, <2>1 DEF ProfilesTyped
  <1>8. Stored' = Stored /\ \A p \in Stored : rows'[p].applied = rows[p].applied
    BY <1>1, <1>2, <1>6 DEF ProfilesTyped, Stored
  <1>9. (grown \/ (OnlyPreferred /\ AllCleared))'
    <2>1. OnlyPreferred => OnlyPreferred'
      BY <1>8 DEF OnlyPreferred
    <2>2. AllCleared => AllCleared'
      BY <1>3, <1>4, <1>8 DEF AllCleared
    <2> QED  BY <1>2, <2>1, <2>2 DEF ProfilesInv
  <1> QED  BY <1>7, <1>9 DEF ProfilesInv

LEMMA DeleteKeeps ==
    ASSUME ProfilesInv, NEW id \in ProfileIds, DeleteChannelProfile(id)
    PROVE  ProfilesInv'
  <1>1. rows' = [rows EXCEPT ![id] = NoProfile] /\ UNCHANGED <<calls, grown>>
    BY DEF DeleteChannelProfile
  <1>2. NoProfile.template = Blank
    BY DEF NoProfile
  <1>3. ProfilesTyped'
    BY <1>1, BlankProfile DEF ProfilesInv, ProfilesTyped
  <1>4. Stored' \subseteq Stored /\ \A p \in Stored' : rows'[p] = rows[p]
    BY <1>1, <1>2 DEF ProfilesInv, ProfilesTyped, Stored
  <1>5. (grown \/ (OnlyPreferred /\ AllCleared))'
    BY <1>1, <1>4 DEF ProfilesInv, OnlyPreferred, AllCleared
  <1> QED  BY <1>3, <1>5 DEF ProfilesInv

LEMMA ApplyBegins ==
    ASSUME ProfilesInv, NEW c \in Callers, NEW id \in ProfileIds, StartApply(c, id)
    PROVE  ProfilesInv'
  <1> DEFINE call == [IdleCall EXCEPT !.op = "apply", !.id = id, !.left = Stored \ {id}]
  <1>1. ProfilesTyped /\ calls' = [calls EXCEPT ![c] = call] /\ UNCHANGED <<rows, grown>>
    BY DEF StartApply, ProfilesInv
  <1>2. /\ call \in Call /\ call.op = "apply" /\ call.left = Stored \ {id}
        /\ call.id = id
    BY BlankProfile DEF IdleCall, Call, Stored
  <1> HIDE DEF call
  <1>3. /\ calls' \in [Callers -> Call] /\ calls'[c] = call
        /\ \A d \in Callers : d # c => calls'[d] = calls[d]
    BY <1>1, <1>2, CallMoves
  <1>4. ProfilesTyped' /\ Stored' = Stored
    BY <1>1, <1>2, <1>3 DEF ProfilesTyped, Stored
  <1>5. (grown \/ (OnlyPreferred /\ AllCleared))'
    <2>1. OnlyPreferred => OnlyPreferred'
      BY <1>1, <1>4 DEF OnlyPreferred
    <2>2. AllCleared => AllCleared'
      BY <1>2, <1>3, <1>4 DEF AllCleared
    <2> QED  BY <1>1, <2>1, <2>2 DEF ProfilesInv
  <1> QED  BY <1>4, <1>5 DEF ProfilesInv

LEMMA ApplyClears ==
    ASSUME ProfilesInv, NEW c \in Callers, NEW id \in ProfileIds, ClearOther(c, id)
    PROVE  ProfilesInv'
  <1> DEFINE call == [[calls[c] EXCEPT !.left = calls[c].left \ {id}]
                         EXCEPT !.locked = calls[c].locked \cup {id}]
  <1>1. ProfilesTyped /\ UNCHANGED <<rows, grown>> /\ calls[c] \in Call /\ calls[c].op = "apply"
    BY DEF ClearOther, ProfilesInv, ProfilesTyped
  <1>2. calls' = [calls EXCEPT ![c] = call]
    BY <1>1 DEF ClearOther, ProfilesTyped
  <1>3. /\ call \in Call /\ call.op = "apply" /\ call.left = calls[c].left \ {id}
        /\ call.locked = calls[c].locked \cup {id} /\ call.id = calls[c].id
    BY <1>1 DEF Call
  <1> HIDE DEF call
  <1>4. /\ calls' \in [Callers -> Call] /\ calls'[c] = call
        /\ \A d \in Callers : d # c => calls'[d] = calls[d]
    BY <1>1, <1>2, <1>3, CallMoves
  <1>5. ProfilesTyped' /\ Stored' = Stored
    BY <1>1, <1>3, <1>4 DEF ProfilesTyped, Stored
  <1>6. (grown \/ (OnlyPreferred /\ AllCleared))'
    <2>1. OnlyPreferred => OnlyPreferred'
      BY <1>1, <1>5 DEF OnlyPreferred
    <2>2. AllCleared => AllCleared'
      BY <1>1, <1>3, <1>4, <1>5 DEF AllCleared
    <2> QED  BY <1>1, <2>1, <2>2 DEF ProfilesInv
  <1> QED  BY <1>5, <1>6 DEF ProfilesInv

LEMMA ApplyEnds ==
    ASSUME ProfilesInv, NEW c \in Callers, FinishApply(c)
    PROVE  ProfilesInv'
  <1> DEFINE id   == calls[c].id
             mine == calls[c].locked \cup ({id} \cap Stored)
  <1>1. /\ ProfilesTyped /\ UNCHANGED grown /\ calls[c].op = "apply" /\ calls[c].left = {}
        /\ rows' = [p \in ProfileIds |-> IF p \in mine THEN [rows[p] EXCEPT !.applied = (p = id)]
                                         ELSE rows[p]]
    BY DEF FinishApply, ProfilesInv
  <1>2. calls' = [calls EXCEPT ![c] = IdleCall] /\ IdleCall \in Call /\ IdleCall.op = "idle"
    BY BlankProfile DEF FinishApply, IdleCall
  <1>3. /\ calls' \in [Callers -> Call] /\ calls'[c] = IdleCall
        /\ \A d \in Callers : d # c => calls'[d] = calls[d]
    BY <1>1, <1>2, CallMoves
  <1>4. ASSUME NEW p \in ProfileIds
        PROVE  /\ rows'[p] \in Profile /\ rows'[p].template = rows[p].template
               /\ rows'[p].secrets = rows[p].secrets
               /\ p \in mine => (rows'[p].applied <=> p = id)
               /\ p \notin mine => rows'[p] = rows[p]
    <2>1. rows[p] \in Profile
      BY <1>1 DEF ProfilesTyped
    <2>2. CASE p \in mine
      <3>1. rows'[p] = [rows[p] EXCEPT !.applied = (p = id)]
        BY <1>1, <2>2
      <3>2. (p = id) \in BOOLEAN
        OBVIOUS
      <3>3. PICK b \in BOOLEAN : b = (p = id)
        BY <3>2
      <3>4. rows'[p] = [rows[p] EXCEPT !.applied = b]
        BY <3>1, <3>3
      <3> HIDE DEF id, mine
      <3>5. /\ rows'[p] \in Profile /\ rows'[p].template = rows[p].template
            /\ rows'[p].secrets = rows[p].secrets /\ rows'[p].applied = b
        BY <2>1, <3>4 DEF Profile
      <3> QED  BY <2>2, <3>3, <3>5
    <2>3. CASE p \notin mine
      BY <1>1, <2>1, <2>3
    <2> QED  BY <2>2, <2>3
  <1>5. rows' = [p \in ProfileIds |-> rows'[p]]
    BY <1>1
  <1> HIDE DEF mine
  <1>6. ProfilesTyped'
    <2>1. rows' \in [ProfileIds -> Profile]
      BY <1>4, <1>5
    <2>2. \A p \in ProfileIds : Complete(rows'[p])
      BY <1>1, <1>4 DEF ProfilesTyped, Complete
    <2> QED  BY <1>1, <1>2, <1>3, <2>1, <2>2 DEF ProfilesTyped
  <1>7. Stored' = Stored
    BY <1>4 DEF Stored
  <1>8. ASSUME ~grown PROVE OnlyPreferred' /\ AllCleared'
    <2>1. OnlyPreferred /\ AllCleared
      BY <1>8 DEF ProfilesInv
    <2>2. Stored \subseteq calls[c].locked \cup {id}
      BY <1>1, <2>1 DEF AllCleared
    <2>3. Stored \subseteq mine
      BY <2>2 DEF mine
    <2>4. \A p \in Stored' : rows'[p].applied => p = id
      BY <1>4, <1>7, <2>3 DEF Stored
    <2>5. AllCleared'
      BY <1>2, <1>3, <1>7, <2>1 DEF AllCleared
    <2> QED  BY <2>4, <2>5 DEF OnlyPreferred
  <1> QED  BY <1>1, <1>6, <1>8 DEF ProfilesInv

LEMMA ApplyAborts ==
    ASSUME ProfilesInv, NEW c \in Callers, AbortApply(c)
    PROVE  ProfilesInv'
  <1>1. /\ ProfilesTyped /\ UNCHANGED <<rows, grown>> /\ IdleCall \in Call /\ IdleCall.op = "idle"
        /\ calls' = [calls EXCEPT ![c] = IdleCall]
    BY BlankProfile DEF AbortApply, ProfilesInv, IdleCall
  <1>2. /\ calls' \in [Callers -> Call] /\ calls'[c] = IdleCall
        /\ \A d \in Callers : d # c => calls'[d] = calls[d]
    BY <1>1, CallMoves
  <1>3. ProfilesTyped' /\ Stored' = Stored
    BY <1>1, <1>2 DEF ProfilesTyped, Stored
  <1> QED  BY <1>1, <1>2, <1>3 DEF ProfilesInv, OnlyPreferred, AllCleared

LEMMA ProfilesInductive == ProfilesInv /\ [ProfilesNext]_profileVars => ProfilesInv'
  <1> SUFFICES ASSUME ProfilesInv, [ProfilesNext]_profileVars PROVE ProfilesInv'
    OBVIOUS
  <1>1. CASE UNCHANGED profileVars
    BY <1>1 DEF profileVars, ProfilesInv, ProfilesTyped, OnlyPreferred, AllCleared, Stored
  <1>2. CASE ProfilesNext
    BY <1>2, StartSaveKeeps, InsertKeeps, UpdateKeeps, DeleteKeeps, ApplyBegins, ApplyClears,
       ApplyEnds, ApplyAborts DEF ProfilesNext
  <1> QED  BY <1>1, <1>2

LEMMA ProfilesFollow == ProfilesInv => ProfilesUsable
  <1> SUFFICES ASSUME ProfilesInv PROVE AtMostOnePreferred /\ RequiredKept
    BY DEF ProfilesUsable
  <1>1. AtMostOnePreferred
    <2> SUFFICES ASSUME ~grown PROVE Cardinality({id \in Stored : rows[id].applied}) <= 1
      BY DEF AtMostOnePreferred
    <2> DEFINE P == {id \in Stored : rows[id].applied}
    <2>1. CASE P = {}
      BY <2>1, FS_EmptySet
    <2>2. CASE P # {}
      <3>1. PICK id : id \in P
        BY <2>2
      <3>2. P = {id}
        BY <3>1 DEF ProfilesInv, OnlyPreferred
      <3> HIDE DEF P
      <3>3. Cardinality(P) = 1
        BY <3>2, FS_Singleton
      <3> QED  BY <3>3 DEF P
    <2> QED  BY <2>1, <2>2
  <1>2. RequiredKept
    BY DEF RequiredKept, ProfilesInv, ProfilesTyped, Complete, Stored
  <1> QED  BY <1>1, <1>2

\* Of the steps of PublishedPath only a request for the profiles touches them.
LEMMA ProfilesApart == [Next]_vars => [ProfilesNext]_profileVars
  <1> SUFFICES ASSUME [Next]_vars, ~UNCHANGED profileVars PROVE ProfilesNext
    OBVIOUS
  <1>1. CASE UNCHANGED vars
    BY <1>1 DEF vars
  <1>2. ASSUME NEW i \in DOMAIN nodes, EditField(i) PROVE FALSE
    BY <1>2 DEF EditField
  <1>3. CASE Publish
    BY <1>3 DEF Publish
  <1>4. ASSUME NEW policy, UpdateExecPolicy(policy) \/ RestartAdapter(policy) PROVE FALSE
    BY <1>4 DEF UpdateExecPolicy, RestartAdapter
  <1>5. ASSUME NEW s, ChannelsChange(s) PROVE FALSE
    BY <1>5 DEF ChannelsChange
  <1>6. CASE ProfileRequest
    BY <1>6 DEF ProfileRequest
  <1>7. ASSUME NEW r, NEW events, NEW payload, Begin(r, events, payload) PROVE FALSE
    BY <1>7 DEF Begin
  <1>8. CASE FireJob
    BY <1>7, <1>8 DEF FireJob
  <1>9. ASSUME NEW r \in Runs, StartRun(r) \/ Approve(r) \/ Resume(r) PROVE FALSE
    BY <1>7, <1>9 DEF StartRun, Approve, Resume
  <1>10. ASSUME NEW r \in Runs, Step(r) PROVE FALSE
    <2>1. \A run : ~Settle(r, run)
      BY DEF Settle
    <2>2. \A profile, asked, keep : ~Deliver(r, profile, asked, keep)
      BY <2>1 DEF Deliver
    <2>3. ~PlainStep(r)
      BY <2>1 DEF PlainStep
    <2>4. ~MemoryWriteStep(r) /\ ~MemoryQueryStep(r) /\ ~BindContextStep(r)
      BY <2>1 DEF MemoryWriteStep, MemoryQueryStep, BindContextStep
    <2>5. ~ExecNodeStep(r)
      BY <2>1 DEF ExecNodeStep
    <2>6. ~ChannelReplyNodeStep(r)
      BY <2>1, <2>2 DEF ChannelReplyNodeStep
    <2>7. ~ChannelRouteNodeStep(r)
      BY <2>1, <2>2 DEF ChannelRouteNodeStep
    <2> QED  BY <1>10, <2>3, <2>4, <2>5, <2>6, <2>7 DEF Step
  <1> QED  BY <1>1, <1>2, <1>3, <1>4, <1>5, <1>6, <1>8, <1>9, <1>10 DEF Next

\* However requests of a workspace interleave, at most one profile is preferred
\* (unless one appeared while another was applied), and each that is stored has
\* the secrets its template requires (channel-profiles.ts 397, 600, 656).
THEOREM Profiling == Spec => []ProfilesUsable
  <1>1. Init => ProfilesInv
    BY ProfilesInitially DEF Init
  <1>2. ProfilesInv /\ [Next]_vars => ProfilesInv'
    BY ProfilesApart, ProfilesInductive
  <1> QED  BY <1>1, <1>2, ProfilesFollow, PTL DEF Spec

-----------------------------------------------------------------------------
(* MemoryStore, under the runs of a flow.                                  *)

RunFields == {"phase", "at", "payload", "policy", "grant", "why", "seen", "sessions", "wrote",
              "said", "sent"}

\* A run has been in every session its payload names.
RunsShaped ==
    /\ DOMAIN runs = Runs
    /\ \A r \in Runs : DOMAIN runs[r] = RunFields /\ Sessions(runs[r].payload) \subseteq runs[r].sessions

\* An entry of a session was written by a run that had been in it; who has seen
\* it has been in it too.
OfItsSession(e) ==
    e.value \in Runs /\ (e.namespace = "session" => e.scope \in runs[e.value].sessions)
EntriesOwned == \A e \in entries : OfItsSession(e)
SeenOwned ==
    \A r \in Runs : \A e \in runs[r].seen :
        OfItsSession(e) /\ (e.namespace = "session" => e.scope \in runs[r].sessions)
MemoryInv == RunsShaped /\ EntriesOwned /\ SeenOwned /\ WritesKept

LEMMA NoRunShaped ==
    /\ DOMAIN NoRun = RunFields /\ NoRun.seen = {} /\ NoRun.wrote = {} /\ NoRun.sessions = {}
    /\ Sessions(NoRun.payload) = {}
  <1>1. NoRun.payload = TextPayload
    BY DEF NoRun
  <1>2. \A f \in Fields : NoFields[f] = Blank
    BY DEF NoFields
  <1>3. "sessionKey" \in Fields
    BY DEF Fields
  <1>4. GetStringPathValue(TextPayload, "sessionKey") = Blank
    BY <1>2, <1>3 DEF GetStringPathValue, TextPayload
  <1> QED  BY <1>1, <1>4 DEF NoRun, RunFields, Sessions

\* What a step makes of a run, apart from what it notes.
LEMMA AfterIs ==
    ASSUME NEW run, DOMAIN run = RunFields, Sessions(run.payload) \subseteq run.sessions, NEW outcome
    PROVE  /\ DOMAIN After(run, outcome) = RunFields
           /\ run.sessions \subseteq After(run, outcome).sessions
           /\ Sessions(After(run, outcome).payload) \subseteq After(run, outcome).sessions
           /\ After(run, outcome).seen = run.seen /\ After(run, outcome).wrote = run.wrote
           /\ outcome.why = Blank => Sessions(outcome.payload) \subseteq After(run, outcome).sessions
  <1>1. CASE outcome.why # Blank
    <2>1. After(run, outcome) = [run EXCEPT !.phase = "failed", !.why = outcome.why]
      BY <1>1 DEF After
    <2> QED  BY <1>1, <2>1 DEF RunFields
  <1>2. CASE outcome.why = Blank
    <2>1. PICK at, phase : After(run, outcome) =
            [run EXCEPT !.payload = outcome.payload,
                        !.sessions = run.sessions \cup Sessions(outcome.payload),
                        !.at = at, !.phase = phase]
      BY <1>2 DEF After, RunFields
    <2> QED  BY <1>2, <2>1 DEF RunFields
  <1> QED  BY <1>1, <1>2

\* A run that goes on keeps its sessions and what it wrote, and sees of the
\* store only what belongs to them.
GoesOnAs(run, r) ==
    /\ DOMAIN run = RunFields
    /\ runs[r].sessions \subseteq run.sessions /\ Sessions(run.payload) \subseteq run.sessions
    /\ run.wrote = runs[r].wrote
    /\ \A e \in run.seen : \/ e \in runs[r].seen
                           \/ e \in entries /\ (e.namespace = "session" => e.scope \in run.sessions)

LEMMA RunGoesOn ==
    ASSUME MemoryInv, NEW r \in Runs, NEW run, runs' = [runs EXCEPT ![r] = run], GoesOnAs(run, r),
           UNCHANGED entries
    PROVE  MemoryInv'
  <1>1. /\ DOMAIN runs' = Runs /\ runs'[r] = run
        /\ \A q \in Runs : q # r => runs'[q] = runs[q]
    BY DEF MemoryInv, RunsShaped
  <1>2. \A q \in Runs : runs[q].sessions \subseteq runs'[q].sessions
    BY <1>1 DEF GoesOnAs
  <1>3. RunsShaped'
    BY <1>1 DEF MemoryInv, RunsShaped, GoesOnAs, Sessions
  <1>4. \A e : OfItsSession(e) => OfItsSession(e)'
    BY <1>2 DEF OfItsSession
  <1>5. EntriesOwned'
    BY <1>4 DEF MemoryInv, EntriesOwned
  <1>6. SeenOwned'
    <2> SUFFICES ASSUME NEW q \in Runs, NEW e \in runs'[q].seen
                 PROVE  OfItsSession(e)' /\ (e.namespace = "session" => e.scope \in runs'[q].sessions)
      BY DEF SeenOwned
    <2>1. CASE e \in runs[q].seen
      BY <1>2, <1>4, <2>1 DEF MemoryInv, SeenOwned
    <2>2. CASE e \notin runs[q].seen
      <3>1. q = r /\ e \in entries /\ (e.namespace = "session" => e.scope \in run.sessions)
        BY <1>1, <2>2 DEF GoesOnAs
      <3> QED  BY <1>1, <1>4, <3>1 DEF MemoryInv, EntriesOwned
    <2> QED  BY <2>1, <2>2
  <1>7. WritesKept'
    <2> SUFFICES ASSUME NEW q \in Runs, NEW w \in runs'[q].wrote
                 PROVE  \E e \in entries : /\ SameSlot(e, w)
                                           /\ w.namespace = "session" => w.scope \in runs'[e.value].sessions
      BY DEF WritesKept
    <2>1. w \in runs[q].wrote
      BY <1>1 DEF GoesOnAs
    <2>2. PICK e \in entries : SameSlot(e, w) /\ (w.namespace = "session" => w.scope \in runs[e.value].sessions)
      BY <2>1 DEF MemoryInv, WritesKept
    <2>3. e.value \in Runs
      BY DEF MemoryInv, EntriesOwned, OfItsSession
    <2> QED  BY <1>2, <2>2, <2>3
  <1> QED  BY <1>3, <1>5, <1>6, <1>7 DEF MemoryInv

\* What a reader loads of a session is what the payload names.
LEMMA LoadsItsSession ==
    ASSUME NEW payload, NEW e \in LoadPersistedMemory(entries, ReaderOf(payload))
    PROVE  e \in entries /\ (e.namespace = "session" => e.scope \in Sessions(payload))
  <1> DEFINE session == GetStringPathValue(payload, "sessionKey")
  <1>1. ReaderOf(payload).session = session
    BY DEF ReaderOf, Reader
  <1> HIDE DEF session
  <1>2. e \in entries /\ (e.namespace = "session" => session # Blank /\ e.scope = session)
    BY <1>1 DEF LoadPersistedMemory
  <1> QED  BY <1>2 DEF session, Sessions

LEMMA StartsSeeing ==
    ASSUME MemoryInv, NEW r \in Runs, NEW events, NEW payload, Begin(r, events, payload)
    PROVE  MemoryInv'
  <1>1. PICK entry : runs' = [runs EXCEPT ![r] =
                    [NoRun EXCEPT !.phase = "running", !.at = entry, !.payload = payload,
                                  !.policy = workspace, !.sessions = Sessions(payload),
                                  !.seen = LoadPersistedMemory(entries, ReaderOf(payload))]]
    BY DEF Begin
  <1> DEFINE run == [NoRun EXCEPT !.phase = "running", !.at = entry, !.payload = payload,
                                  !.policy = workspace, !.sessions = Sessions(payload),
                                  !.seen = LoadPersistedMemory(entries, ReaderOf(payload))]
  <1>2. runs[r] = NoRun /\ UNCHANGED entries
    BY DEF Begin
  <1>3. /\ DOMAIN run = RunFields /\ run.sessions = Sessions(payload) /\ run.payload = payload
        /\ run.wrote = {} /\ run.seen = LoadPersistedMemory(entries, ReaderOf(payload))
    BY NoRunShaped DEF RunFields
  <1>4. runs' = [runs EXCEPT ![r] = run]
    BY <1>1
  <1> HIDE DEF run
  <1>5. GoesOnAs(run, r)
    BY <1>2, <1>3, NoRunShaped, LoadsItsSession DEF GoesOnAs
  <1> QED  BY <1>2, <1>4, <1>5, RunGoesOn

\* The steps of a run that leave the store alone.
LEMMA RunOn ==
    ASSUME MemoryInv, NEW r \in Runs, NEW outcome, NEW said, NEW sent
    PROVE  /\ GoesOnAs(After(runs[r], outcome), r)
           /\ GoesOnAs([After(runs[r], outcome) EXCEPT !.said = said], r)
           /\ GoesOnAs([After(runs[r], outcome) EXCEPT !.sent = sent], r)
  <1> DEFINE after == After(runs[r], outcome)
  <1>1. /\ DOMAIN runs[r] = RunFields /\ Sessions(runs[r].payload) \subseteq runs[r].sessions
    BY DEF MemoryInv, RunsShaped
  <1>2. /\ DOMAIN after = RunFields /\ runs[r].sessions \subseteq after.sessions
        /\ Sessions(after.payload) \subseteq after.sessions
        /\ after.seen = runs[r].seen /\ after.wrote = runs[r].wrote
    BY <1>1, AfterIs
  <1> HIDE DEF after
  <1>3. GoesOnAs(after, r)
    BY <1>2 DEF GoesOnAs
  <1>4. GoesOnAs([after EXCEPT !.said = said], r)
    BY <1>2 DEF GoesOnAs, RunFields
  <1>5. GoesOnAs([after EXCEPT !.sent = sent], r)
    BY <1>2 DEF GoesOnAs, RunFields
  <1> QED  BY <1>3, <1>4, <1>5 DEF after

LEMMA SettlesAs ==
    ASSUME MemoryInv, NEW r \in Runs, NEW run, Settle(r, run), GoesOnAs(run, r), UNCHANGED entries
    PROVE  MemoryInv'
  BY RunGoesOn DEF Settle

LEMMA PlainRemembers ==
    ASSUME MemoryInv, NEW r \in Runs, PlainStep(r)
    PROVE  MemoryInv'
  <1>1. PICK outcome, said : Settle(r, [After(runs[r], outcome) EXCEPT !.said = said])
    <2>1. PICK outcome : Settle(r, [After(runs[r], outcome) EXCEPT !.said =
                IF Current(r).type \in ReplyProducers /\ outcome.payload.here["replyText"] # Blank
                THEN runs[r].at ELSE @])
      BY DEF PlainStep
    <2>2. PICK said : said = IF Current(r).type \in ReplyProducers /\ outcome.payload.here["replyText"] # Blank
                             THEN runs[r].at ELSE After(runs[r], outcome).said
      OBVIOUS
    <2>3. Settle(r, [After(runs[r], outcome) EXCEPT !.said = said])
      BY <2>1, <2>2
    <2> QED  BY <2>3
  <1>2. UNCHANGED entries
    BY DEF PlainStep
  <1> QED  BY <1>1, <1>2, RunOn, SettlesAs

LEMMA ExecRemembers ==
    ASSUME MemoryInv, NEW r \in Runs, ExecNodeStep(r)
    PROVE  MemoryInv'
  <1>1. UNCHANGED entries
    BY DEF ExecNodeStep
  <1>2. \/ \E outcome : Settle(r, After(runs[r], outcome))
        \/ \E grant : Settle(r, [runs[r] EXCEPT !.phase = "asking", !.grant = grant])
    BY DEF ExecNodeStep
  <1>3. ASSUME NEW grant PROVE GoesOnAs([runs[r] EXCEPT !.phase = "asking", !.grant = grant], r)
    BY DEF GoesOnAs, MemoryInv, RunsShaped, RunFields
  <1> QED  BY <1>1, <1>2, <1>3, RunOn, SettlesAs

LEMMA DeliverRemembers ==
    ASSUME MemoryInv, NEW r \in Runs, NEW profile, NEW asked, NEW keep,
           Deliver(r, profile, asked, keep), UNCHANGED entries
    PROVE  MemoryInv'
  <1>1. \/ \E outcome : Settle(r, After(runs[r], outcome))
        \/ \E outcome, sent : Settle(r, [After(runs[r], outcome) EXCEPT !.sent = sent])
    BY DEF Deliver
  <1> QED  BY <1>1, RunOn, SettlesAs

LEMMA RepliesRemember ==
    ASSUME MemoryInv, NEW r \in Runs, ChannelReplyNodeStep(r) \/ ChannelRouteNodeStep(r)
    PROVE  MemoryInv'
  <1>1. UNCHANGED entries
    BY DEF ChannelReplyNodeStep, ChannelRouteNodeStep
  <1>2. \/ \E why : Settle(r, After(runs[r], Failed(why)))
        \/ \E profile, asked, keep : Deliver(r, profile, asked, keep)
    <2>1. CASE ChannelReplyNodeStep(r)
      BY <2>1 DEF ChannelReplyNodeStep
    <2>2. CASE ChannelRouteNodeStep(r)
      BY <2>2 DEF ChannelRouteNodeStep
    <2> QED  BY <2>1, <2>2
  <1> QED  BY <1>1, <1>2, RunOn, SettlesAs, DeliverRemembers

\* A query and a binding see only entries of the session they read for.
LEMMA QueryRemembers ==
    ASSUME MemoryInv, NEW r \in Runs, MemoryQueryStep(r)
    PROVE  MemoryInv'
  <1> DEFINE found == QueryPersistedMemory(entries, ReaderOf(runs[r].payload),
                                           Current(r).data.namespace, Current(r).data.keyPrefix)
  <1>1. PICK outcome : Settle(r, [After(runs[r], outcome) EXCEPT !.seen = @ \cup found])
    BY DEF MemoryQueryStep
  <1>2. UNCHANGED entries
    BY DEF MemoryQueryStep
  <1>3. \A e \in found : e \in LoadPersistedMemory(entries, ReaderOf(runs[r].payload))
    BY DEF QueryPersistedMemory, QueryMemoryEntries
  <1>4. \A e \in found : e \in entries /\ (e.namespace = "session" => e.scope \in Sessions(runs[r].payload))
    BY <1>3, LoadsItsSession
  <1> HIDE DEF found
  <1> DEFINE after == After(runs[r], outcome)
  <1>5. /\ DOMAIN after = RunFields /\ after.seen = runs[r].seen
        /\ Sessions(runs[r].payload) \subseteq after.sessions /\ GoesOnAs(after, r)
    <2>1. /\ DOMAIN runs[r] = RunFields /\ Sessions(runs[r].payload) \subseteq runs[r].sessions
      BY DEF MemoryInv, RunsShaped
    <2> QED  BY <2>1, AfterIs, RunOn
  <1>6. Settle(r, [after EXCEPT !.seen = after.seen \cup found])
    BY <1>1
  <1> HIDE DEF after
  <1>7. GoesOnAs([after EXCEPT !.seen = after.seen \cup found], r)
    BY <1>4, <1>5 DEF GoesOnAs, RunFields
  <1> QED  BY <1>2, <1>6, <1>7, SettlesAs

LEMMA BindRemembers ==
    ASSUME MemoryInv, NEW r \in Runs, BindContextStep(r)
    PROVE  MemoryInv'
  <1>1. UNCHANGED entries
    BY DEF BindContextStep
  <1>2. PICK outcome : Settle(r, [After(runs[r], outcome) EXCEPT
                      !.seen = IF outcome.why # Blank THEN @
                               ELSE MergePersistedMemoryIntoInput(
                                      @, LoadPersistedMemory(entries, ReaderOf(outcome.payload)))])
    BY DEF BindContextStep
  <1> DEFINE after == After(runs[r], outcome)
             loaded == LoadPersistedMemory(entries, ReaderOf(outcome.payload))
  <1>3. PICK seen : /\ seen = IF outcome.why # Blank THEN after.seen
                              ELSE MergePersistedMemoryIntoInput(after.seen, loaded)
                    /\ Settle(r, [after EXCEPT !.seen = seen])
    BY <1>2
  <1>4. \A e \in loaded : e \in entries /\ (e.namespace = "session" => e.scope \in Sessions(outcome.payload))
    BY LoadsItsSession
  <1> HIDE DEF loaded
  <1>5. /\ DOMAIN after = RunFields /\ after.seen = runs[r].seen /\ GoesOnAs(after, r)
        /\ outcome.why = Blank => Sessions(outcome.payload) \subseteq after.sessions
    <2>1. /\ DOMAIN runs[r] = RunFields /\ Sessions(runs[r].payload) \subseteq runs[r].sessions
      BY DEF MemoryInv, RunsShaped
    <2> QED  BY <2>1, AfterIs, RunOn
  <1> HIDE DEF after
  <1>6. \A e \in seen : e \in runs[r].seen \/ (outcome.why = Blank /\ e \in loaded)
    BY <1>3, <1>5 DEF MergePersistedMemoryIntoInput
  <1>7. GoesOnAs([after EXCEPT !.seen = seen], r)
    BY <1>4, <1>5, <1>6 DEF GoesOnAs, RunFields
  <1> QED  BY <1>1, <1>3, <1>7, SettlesAs

\* A write puts in the place of an entry one of the same slot, and goes under a
\* session only if the run is in it.
LEMMA WriteSucceeds ==
    ASSUME NEW run, NEW data, NEW outcome \in Outcomes(run, "context.memory-write", data, Blank),
           outcome.why = Blank
    PROVE  MemoryScope(data.namespace, run.payload, Flow) # Blank
  <1>1. Outcomes(run, "context.memory-write", data, Blank) = MemoryWriteOutput(data, run.payload, Flow)
    BY DEF Outcomes, Transcripts
  <1>2. "field" # Blank /\ "payload" # Blank
    BY Zenon DEF Blank
  <1> QED  BY <1>1, <1>2 DEF MemoryWriteOutput, Unless, Failed, Done

LEMMA WriteRemembers ==
    ASSUME MemoryInv, NEW r \in Runs, MemoryWriteStep(r)
    PROVE  MemoryInv'
  <1> DEFINE data  == Current(r).data
             scope == MemoryScope(data.namespace, runs[r].payload, Flow)
  <1>0. PICK entry : entry = [flow |-> Flow, namespace |-> data.namespace, scope |-> scope,
                              key |-> data.key, value |-> r]
    OBVIOUS
  <1>1. PICK outcome \in Outcomes(runs[r], "context.memory-write", data, Blank) :
          /\ Settle(r, [After(runs[r], outcome) EXCEPT
                          !.wrote = IF outcome.why = Blank THEN @ \cup {entry} ELSE @])
          /\ entries' = IF outcome.why = Blank THEN PersistMemoryWrite(entries, entry) ELSE entries
    BY <1>0 DEF MemoryWriteStep
  <1> DEFINE after == After(runs[r], outcome)
  <1>2. /\ DOMAIN after = RunFields /\ after.seen = runs[r].seen /\ after.wrote = runs[r].wrote
        /\ runs[r].sessions \subseteq after.sessions /\ Sessions(after.payload) \subseteq after.sessions
        /\ GoesOnAs(after, r) /\ DOMAIN runs = Runs
        /\ Sessions(runs[r].payload) \subseteq runs[r].sessions
    <2>1. /\ DOMAIN runs[r] = RunFields /\ Sessions(runs[r].payload) \subseteq runs[r].sessions
          /\ DOMAIN runs = Runs
      BY DEF MemoryInv, RunsShaped
    <2> QED  BY <2>1, AfterIs, RunOn
  <1>3. PICK wrote : /\ wrote = IF outcome.why = Blank THEN after.wrote \cup {entry} ELSE after.wrote
                     /\ Settle(r, [after EXCEPT !.wrote = wrote])
    BY <1>1
  <1>4. outcome.why = Blank => scope # Blank
    BY WriteSucceeds
  <1>5. outcome.why = Blank /\ data.namespace = "session" => scope \in runs[r].sessions
    BY <1>2, <1>4 DEF MemoryScope, Sessions
  <1>6. entry.value = r /\ entry.namespace = data.namespace /\ entry.scope = scope
    BY <1>0
  <1> HIDE DEF after, scope
  <1>7. CASE outcome.why # Blank
    <2>1. GoesOnAs([after EXCEPT !.wrote = wrote], r)
      BY <1>2, <1>3, <1>7 DEF GoesOnAs, RunFields
    <2> QED  BY <1>1, <1>3, <1>7, <2>1, SettlesAs
  <1>8. CASE outcome.why = Blank
    <2>1. /\ entries' = PersistMemoryWrite(entries, entry)
          /\ runs' = [runs EXCEPT ![r] = [after EXCEPT !.wrote = after.wrote \cup {entry}]]
      BY <1>1, <1>3, <1>8 DEF Settle
    <2> HIDE DEF data
    <2> DEFINE run == [after EXCEPT !.wrote = after.wrote \cup {entry}]
    <2>2. /\ DOMAIN run = RunFields /\ run.sessions = after.sessions /\ run.payload = after.payload
          /\ run.seen = after.seen /\ run.wrote = after.wrote \cup {entry}
      BY <1>2 DEF RunFields
    <2> HIDE DEF run
    <2>3. /\ DOMAIN runs' = Runs /\ runs'[r] = run
          /\ \A q \in Runs : q # r => runs'[q] = runs[q]
      BY <1>2, <2>1 DEF run
    <2>4. \A q \in Runs : runs[q].sessions \subseteq runs'[q].sessions
      BY <1>2, <2>2, <2>3
    <2>5. RunsShaped'
      BY <1>2, <2>2, <2>3 DEF MemoryInv, RunsShaped, Sessions
    <2>6. \A e : OfItsSession(e) => OfItsSession(e)'
      BY <2>4 DEF OfItsSession
    <2>7. OfItsSession(entry)'
      BY <1>5, <1>6, <1>8, <2>4 DEF OfItsSession
    <2>8. \A e \in entries' : e \in entries \/ e = entry
      BY <2>1 DEF PersistMemoryWrite
    <2>9. EntriesOwned'
      BY <2>6, <2>7, <2>8 DEF MemoryInv, EntriesOwned
    <2>10. SeenOwned'
      BY <1>2, <2>2, <2>3, <2>4, <2>6 DEF MemoryInv, SeenOwned
    <2>11. WritesKept'
      <3> SUFFICES ASSUME NEW q \in Runs, NEW w \in runs'[q].wrote
                   PROVE  \E e \in entries' :
                            /\ SameSlot(e, w)
                            /\ w.namespace = "session" => w.scope \in runs'[e.value].sessions
        BY DEF WritesKept
      <3>1. entry \in entries' /\ entry.value = r
        BY <1>6, <2>1 DEF PersistMemoryWrite
      <3>2. CASE SameSlot(entry, w)
        <4>1. w.namespace = entry.namespace /\ w.scope = entry.scope
          BY <3>2 DEF SameSlot
        <4>2. w.namespace = "session" => w.scope \in runs'[entry.value].sessions
          BY <2>7, <4>1 DEF OfItsSession
        <4> QED  BY <3>1, <3>2, <4>2
      <3>3. CASE ~SameSlot(entry, w)
        <4>1. SameSlot(entry, entry)
          BY DEF SameSlot
        <4>2. w \in runs[q].wrote
          BY <1>2, <2>2, <2>3, <3>3, <4>1
        <4>3. PICK e \in entries : SameSlot(e, w) /\ (w.namespace = "session" => w.scope \in runs[e.value].sessions)
          BY <4>2 DEF MemoryInv, WritesKept
        <4>4. ~SameSlot(e, entry)
          BY <3>3, <4>3 DEF SameSlot
        <4>5. e \in entries' /\ e.value \in Runs
          BY <2>1, <4>4 DEF PersistMemoryWrite, MemoryInv, EntriesOwned, OfItsSession
        <4> QED  BY <2>4, <4>3, <4>5
      <3> QED  BY <3>2, <3>3
    <2> QED  BY <2>5, <2>9, <2>10, <2>11 DEF MemoryInv
  <1> QED  BY <1>7, <1>8

LEMMA StepRemembers ==
    ASSUME MemoryInv, NEW r \in Runs, Step(r)
    PROVE  MemoryInv'
  BY PlainRemembers, WriteRemembers, QueryRemembers, BindRemembers, ExecRemembers, RepliesRemember
     DEF Step

LEMMA DecisionRemembers ==
    ASSUME MemoryInv, NEW r \in Runs, Approve(r) \/ Resume(r)
    PROVE  MemoryInv'
  <1>1. UNCHANGED entries /\ DOMAIN runs = Runs /\ DOMAIN runs[r] = RunFields
    BY DEF Approve, Resume, MemoryInv, RunsShaped
  <1>2. CASE Approve(r)
    <2>1. PICK phase, why : runs' = [runs EXCEPT ![r] = [runs[r] EXCEPT !.phase = phase, !.why = why]]
      BY <1>1, <1>2 DEF Approve
    <2>2. GoesOnAs([runs[r] EXCEPT !.phase = phase, !.why = why], r)
      BY <1>1 DEF GoesOnAs, MemoryInv, RunsShaped, RunFields
    <2> QED  BY <1>1, <2>1, <2>2, RunGoesOn
  <1>3. CASE Resume(r)
    <2>1. runs' = [runs EXCEPT ![r] = [runs[r] EXCEPT !.phase = "running", !.policy = workspace]]
      BY <1>1, <1>3 DEF Resume
    <2>2. GoesOnAs([runs[r] EXCEPT !.phase = "running", !.policy = workspace], r)
      BY <1>1 DEF GoesOnAs, MemoryInv, RunsShaped, RunFields
    <2> QED  BY <1>1, <2>1, <2>2, RunGoesOn
  <1> QED  BY <1>2, <1>3

\* What starts no run and takes no step of one leaves runs and store alone.
LEMMA OthersKeepRuns ==
    ASSUME \/ \E i \in DOMAIN nodes : EditField(i)
           \/ Publish
           \/ \E policy \in WorkspacePolicies : UpdateExecPolicy(policy)
           \/ \E policy \in AdapterPolicies : RestartAdapter(policy)
           \/ \E s \in Statuses : ChannelsChange(s)
           \/ ProfileRequest
    PROVE  UNCHANGED <<entries, runs>>
  BY DEF EditField, Publish, UpdateExecPolicy, RestartAdapter, ChannelsChange, ProfileRequest

LEMMA FiringStarts ==
    ASSUME FireJob
    PROVE  \/ \E r \in Runs : \E events, payload : Begin(r, events, payload)
           \/ UNCHANGED <<entries, runs>>
  BY DEF FireJob

LEMMA MemoryInductive == MemoryInv /\ [Next]_vars => MemoryInv'
  <1> SUFFICES ASSUME MemoryInv, [Next]_vars PROVE MemoryInv'
    OBVIOUS
  <1>1. CASE UNCHANGED <<entries, runs>>
    BY <1>1 DEF MemoryInv, RunsShaped, EntriesOwned, SeenOwned, OfItsSession, WritesKept
  <1>2. CASE UNCHANGED vars
    <2>1. UNCHANGED <<entries, runs>>
      BY <1>2 DEF vars
    <2> QED  BY <1>1, <2>1
  <1>3. CASE FireJob
    BY <1>1, <1>3, FiringStarts, StartsSeeing
  <1>4. ASSUME NEW r \in Runs, StartRun(r) PROVE MemoryInv'
    BY <1>4, StartsSeeing DEF StartRun
  <1>5. ASSUME NEW r \in Runs, Approve(r) \/ Resume(r) \/ Step(r) PROVE MemoryInv'
    BY <1>5, DecisionRemembers, StepRemembers
  <1> QED  BY <1>1, <1>2, <1>3, <1>4, <1>5, OthersKeepRuns DEF Next

LEMMA MemoryInitially == Init => MemoryInv
  <1> SUFFICES ASSUME Init PROVE MemoryInv
    OBVIOUS
  <1>1. runs = [r \in Runs |-> NoRun] /\ entries = {}
    BY DEF Init
  <1> QED  BY <1>1, NoRunShaped DEF MemoryInv, RunsShaped, EntriesOwned, SeenOwned, WritesKept

\* What a run wrote under a session stays until a run of that session replaces
\* it, and only runs of the session see it (memory-store.ts 69, 131), whatever
\* the flow, its payloads and its sessions are.
THEOREM Remembering == Spec => []MemoryKept
  <1>1. MemoryInv => MemoryKept
    <2> SUFFICES ASSUME MemoryInv PROVE ScopesApart
      BY DEF MemoryInv, MemoryKept
    <2> SUFFICES ASSUME NEW r \in Runs, NEW e \in runs[r].seen, e.namespace = "session"
                 PROVE  runs[r].sessions \cap runs[e.value].sessions # {}
      BY DEF ScopesApart
    <2>1. e.scope \in runs[r].sessions /\ e.scope \in runs[e.value].sessions
      BY DEF MemoryInv, SeenOwned, OfItsSession
    <2> QED  BY <2>1
  <1> QED  BY <1>1, MemoryInitially, MemoryInductive, PTL DEF Spec

-----------------------------------------------------------------------------
(* The payload along the path: how deep a handoff is, and what a reply     *)
(* finds to say.                                                           *)

\* The draft: a trigger comes first, and a reply has one of the catalog's
\* templates.
ReplyTemplates == {Blank, "text", "{{replyText}}"}
Drawn ==
    /\ DOMAIN nodes = 1..Len(nodes) /\ Len(nodes) \in Nat
    /\ \A i \in DOMAIN nodes :
        /\ DOMAIN nodes[i] = {"type", "data"}
        /\ nodes[i].type \in TriggerKinds => i = 1
        /\ nodes[i].type \in Replies => /\ "messageTemplate" \in DOMAIN nodes[i].data
                                        /\ nodes[i].data.messageTemplate \in ReplyTemplates

Shaped(p) == DOMAIN p = DOMAIN TextPayload /\ p.depth \in Nat
Said(p)   == p.object /\ DOMAIN p.here = Fields /\ p.here["replyText"] # Blank

\* What the handoffs right before the step add up to is what the payload says.
Counts(run) ==
    \A first \in 1..(run.at - 1) :
        (\A i \in first..(run.at - 1) : nodes[i].type = "action.agent-send")
            => run.at - first <= run.payload.depth
Bounded(run) ==
    \A first, last \in 1..(run.at - 1) :
        (\A i \in first..last : nodes[i].type = "action.agent-send") /\ first <= last
          => last - first + 1 <= MaxDepth(nodes[last].data)

\* What was said is on the first level right after, and on one of the two after
\* one step more.
Spoke(run) ==
    run.said # 0 =>
        /\ run.said < run.at
        /\ run.at = run.said + 1 => Said(run.payload)
        /\ run.at = run.said + 2 =>
             \/ BareText(nodes[run.said + 1]) \/ nodes[run.said + 1].type \in ReplyProducers \cup Replies
             \/ GetStringPathValue(run.payload, "replyText") # Blank
Carries(run) ==
    (run.why = "template" /\ nodes[run.at].type \in Replies /\ run.said # 0)
      => \/ run.at - run.said > 2
         \/ \E i \in (run.said + 1)..(run.at - 1) :
              BareText(nodes[i]) \/ nodes[i].type \in ReplyProducers \cup Replies
Delivers(sent) == sent.asked # Blank /\ Cardinality(sent.known) > 1 => sent.used = sent.asked

\* A run that is under way stands at a step, and nothing has failed.
OnPath(run) ==
    run.phase \in {"running", "asking", "approved"} => run.at \in DOMAIN nodes /\ run.why = Blank

Proceeds(run) ==
    /\ OnPath(run)
    /\ run.at \in Nat /\ run.said \in Nat /\ Shaped(run.payload)
    /\ Counts(run) /\ Bounded(run) /\ Spoke(run) /\ Carries(run) /\ Delivers(run.sent)
PathInv ==
    /\ Drawn
    /\ ~published => \A r \in Runs : runs[r] = NoRun
    /\ \A r \in Runs : Proceeds(runs[r])

LEMMA Built ==
    /\ Shaped(TextPayload) /\ DOMAIN NoFields = Fields /\ "replyText" \in Fields
    /\ \A here, input : \A depth \in Nat :
         /\ Shaped(Payload(here, input, depth)) /\ Payload(here, input, depth).object
         /\ Payload(here, input, depth).here = here /\ Payload(here, input, depth).input = input
         /\ Payload(here, input, depth).depth = depth
  BY DEF Shaped, TextPayload, Payload, NoFields, Fields

\* A step that keeps the payload or takes it one level down loses no text.
LEMMA Wraps ==
    ASSUME NEW p, NEW fields, NEW depth \in Nat
    PROVE  /\ Shaped(Wrap(p, fields, depth)) /\ Wrap(p, fields, depth).object
           /\ Wrap(p, fields, depth).here = fields /\ Wrap(p, fields, depth).depth = depth
           /\ Said(p) => GetStringPathValue(Wrap(p, fields, depth), "replyText") # Blank
  <1>1. Wrap(p, fields, depth) = Payload(fields, p.here, depth)
    BY DEF Wrap
  <1>2. /\ Shaped(Payload(fields, p.here, depth)) /\ Payload(fields, p.here, depth).object
        /\ Payload(fields, p.here, depth).here = fields /\ Payload(fields, p.here, depth).input = p.here
        /\ Payload(fields, p.here, depth).depth = depth
    BY Built
  <1> QED  BY <1>1, <1>2 DEF GetStringPathValue, Said

LEMMA Keeps ==
    ASSUME NEW p, Shaped(p)
    PROVE  /\ Said(p) => GetStringPathValue(p, "replyText") # Blank
           /\ Shaped(MergeObjectOutput(p)) /\ (Said(p) => MergeObjectOutput(p) = p)
  <1>1. Shaped(Payload(NoFields, NoFields, 0))
    BY Built
  <1> QED  BY <1>1 DEF GetStringPathValue, Said, MergeObjectOutput

LEMMA Binds ==
    ASSUME NEW p, Shaped(p), NEW value
    PROVE  /\ Shaped(BindContext(p, value))
           /\ Said(p) => GetStringPathValue(BindContext(p, value), "replyText") # Blank
  <1> DEFINE q == MergeObjectOutput(p)
  <1>1. Shaped(q) /\ (Said(p) => q = p)
    BY Keeps
  <1>2. PICK thread, session : BindContext(p, value) =
          [q EXCEPT !.here["threadId"] = thread, !.here["sessionKey"] = session]
    BY DEF BindContext
  <1> HIDE DEF q
  <1>3. DOMAIN q = {"here", "input", "depth", "object"}
    BY <1>1 DEF Shaped, TextPayload
  <1>4. /\ DOMAIN BindContext(p, value) = DOMAIN q /\ BindContext(p, value).depth = q.depth
        /\ BindContext(p, value).here = [q.here EXCEPT !["threadId"] = thread, !["sessionKey"] = session]
    BY <1>2, <1>3
  <1>5. Said(p) => BindContext(p, value).here["replyText"] = p.here["replyText"]
    BY <1>1, <1>4, Built DEF Said, Fields
  <1> QED  BY <1>1, <1>4, <1>5 DEF Shaped, GetStringPathValue, Said

LEMMA Refused ==
    /\ \A why \in {"field", "number", "template", "payload", "depth", "profile", "service"} :
         why # Blank /\ Failed(why).why # Blank
    /\ \A why : Failed(why).payload = TextPayload /\ Failed(why).why = why
    /\ \A p : Done(p).why = Blank /\ Done(p).payload = p
  <1>1. \A why \in {"field", "number", "template", "payload", "depth", "profile", "service"} : why # Blank
    BY Zenon DEF Blank
  <1>2. \A why : Failed(why).why = why /\ Failed(why).payload = TextPayload
    BY DEF Failed
  <1>3. \A p : Done(p).why = Blank /\ Done(p).payload = p
    BY DEF Done
  <1> QED  BY <1>1, <1>2, <1>3

Whys == {"field", "number", "template", "payload", "depth", "profile", "service"}
FailsAs(o) == o.why \in Whys /\ o.why # Blank /\ o.payload = TextPayload

\* A handler's checks are passed one by one.
LEMMA ChecksFirst ==
    ASSUME NEW blank, NEW why \in Whys, NEW rest, NEW o \in Unless(blank, why, rest)
    PROVE  FailsAs(o) \/ (~blank /\ o \in rest)
  BY Refused DEF Unless, FailsAs, Whys

LEMMA FailsOnly ==
    \A why \in Whys : FailsAs(Failed(why))
  BY Refused DEF FailsAs, Whys

Succeeds(o)   == o.why = Blank /\ Shaped(o.payload)
HandsOn(p, o) == Succeeds(o) /\ (Said(p) => GetStringPathValue(o.payload, "replyText") # Blank)

LEMMA DoneHandsOn ==
    ASSUME NEW p, Shaped(p), NEW o
    PROVE  /\ o = Done(p) => HandsOn(p, o)
           /\ o = Done(MergeObjectOutput(p)) => HandsOn(p, o)
           /\ \A fields : \A depth \in Nat : o = Done(Wrap(p, fields, depth)) => HandsOn(p, o)
  <1>1. HandsOn(p, Done(p)) /\ HandsOn(p, Done(MergeObjectOutput(p)))
    BY Keeps, Refused DEF HandsOn, Succeeds
  <1>2. \A fields : \A depth \in Nat : HandsOn(p, Done(Wrap(p, fields, depth)))
    BY Wraps, Refused DEF HandsOn, Succeeds
  <1> QED  BY <1>1, <1>2, Refused

\* A turn's text is on the first level.
Turned(p, o, depth) ==
    /\ o.payload.object /\ DOMAIN o.payload.here = Fields /\ o.payload.depth = depth
    /\ HandsOn(p, o)

LEMMA TurnIs ==
    ASSUME NEW p, Shaped(p), NEW key, NEW depth \in Nat, NEW o \in Turn(p, key, depth)
    PROVE  FailsAs(o) \/ Turned(p, o, depth)
  <1>1. CASE o = Failed("service")
    BY <1>1, FailsOnly DEF Whys
  <1>2. ASSUME NEW text \in {Blank, "said"},
               o = Done(Wrap(p, [NoFields EXCEPT !["sessionKey"] = key, !["replyText"] = text], depth))
        PROVE  Turned(p, o, depth)
    <2> DEFINE fields == [NoFields EXCEPT !["sessionKey"] = key, !["replyText"] = text]
    <2>1. DOMAIN fields = Fields
      BY Built
    <2> HIDE DEF fields
    <2>2. o.payload = Wrap(p, fields, depth)
      BY <1>2, Refused DEF fields
    <2>3. /\ o.payload.object /\ o.payload.here = fields /\ o.payload.depth = depth
          /\ HandsOn(p, o)
      BY <1>2, <2>2, Wraps, Refused DEF HandsOn, Succeeds, fields
    <2> QED  BY <2>1, <2>3 DEF Turned
  <1> QED  BY <1>1, <1>2 DEF Turn

LEMMA SpeakersTurn ==
    ASSUME NEW p, Shaped(p), NEW data, NEW session,
           NEW o \in AgentOutput(data, p, session) \cup SkillOutput(data, p, session)
    PROVE  FailsAs(o) \/ Turned(p, o, 0)
  <1> DEFINE turn  == Turn(p, KeyOf(data, session), 0)
             waits == Unless(BadNumber(data, "waitTimeoutMs"), "number", turn)
  <1>1. \E blank : o \in Unless(blank, "field", waits)
    BY DEF AgentOutput, SkillOutput
  <1> HIDE DEF waits
  <1>2. FailsAs(o) \/ o \in waits
    BY <1>1, ChecksFirst DEF Whys
  <1>3. o \in waits => FailsAs(o) \/ o \in turn
    BY ChecksFirst DEF Whys, waits
  <1> QED  BY <1>2, <1>3, TurnIs

LEMMA HandoffTurns ==
    ASSUME NEW p, Shaped(p), NEW data, NEW session, NEW o \in AgentSendOutput(data, p, session)
    PROVE  FailsAs(o) \/ (Turned(p, o, p.depth + 1) /\ MaxDepth(data) \in Nat /\ p.depth + 1 <= MaxDepth(data))
  <1>1. \/ FailsAs(o)
        \/ /\ ~BadNumber(data, "maxDelegationDepth") /\ ~(p.depth + 1 > MaxDepth(data))
           /\ o \in Turn(p, KeyOf(data, session), p.depth + 1)
    <2> DEFINE turn == Turn(p, KeyOf(data, session), p.depth + 1)
               waits == Unless(BadNumber(data, "waitTimeoutMs"), "number", turn)
               deep  == Unless(p.depth + 1 > MaxDepth(data), "depth", waits)
               counts == Unless(BadNumber(data, "maxDelegationDepth"), "number", deep)
    <2>1. o \in Unless(data.targetAgent = Blank, "field", counts)
      BY DEF AgentSendOutput, NextDelegationDepth
    <2> HIDE DEF counts
    <2>2. FailsAs(o) \/ o \in counts
      BY <2>1, ChecksFirst DEF Whys
    <2> HIDE DEF deep
    <2>3. FailsAs(o) \/ (~BadNumber(data, "maxDelegationDepth") /\ o \in deep)
      BY <2>2, ChecksFirst DEF Whys, counts
    <2> HIDE DEF waits
    <2>4. o \in deep => FailsAs(o) \/ (~(p.depth + 1 > MaxDepth(data)) /\ o \in waits)
      BY ChecksFirst DEF Whys, deep
    <2>5. o \in waits => FailsAs(o) \/ o \in turn
      BY ChecksFirst DEF Whys, waits
    <2> QED  BY <2>3, <2>4, <2>5
  <1>2. p.depth + 1 \in Nat
    BY DEF Shaped
  <1>3. ~BadNumber(data, "maxDelegationDepth") => MaxDepth(data) \in Nat
    BY NumbersAssumption DEF BadNumber, MaxDepth
  <1> QED  BY <1>1, <1>2, <1>3, TurnIs

\* The other handlers hand on what they got, on one level or the other, but for
\* those that BareText names.
LEMMA BareSucceeds ==
    /\ Succeeds(Done(TextPayload)) /\ Succeeds(Done(Payload(NoFields, NoFields, 0)))
  BY Built, Refused DEF Succeeds

LEMMA ToolsHandOn ==
    ASSUME NEW p, Shaped(p), NEW data,
           NEW o \in HttpOutput(data, p) \cup BrowserOutput(data, p) \cup ExecOutput(p)
    PROVE  FailsAs(o) \/ HandsOn(p, o)
  <1> DEFINE end == {Done(Wrap(p, NoFields, 0)), Failed("service")}
  <1>1. o \in end => FailsAs(o) \/ HandsOn(p, o)
    BY FailsOnly, DoneHandsOn DEF Whys
  <1> HIDE DEF end
  <1>2. CASE o \in HttpOutput(data, p)
    <2> DEFINE number == Unless(BadNumber(data, "timeoutMs"), "number", end)
               filled == Unless(RenderInputTemplate(data.url, p) = Blank, "template", number)
    <2>1. o \in Unless(data.url = Blank, "field", filled)
      BY <1>2 DEF HttpOutput, end
    <2> HIDE DEF filled
    <2>2. FailsAs(o) \/ o \in filled
      BY <2>1, ChecksFirst DEF Whys
    <2> HIDE DEF number
    <2>3. o \in filled => FailsAs(o) \/ o \in number
      BY ChecksFirst DEF Whys, filled
    <2>4. o \in number => FailsAs(o) \/ o \in end
      BY ChecksFirst DEF Whys, number
    <2> QED  BY <1>1, <2>2, <2>3, <2>4
  <1>3. CASE o \in BrowserOutput(data, p)
    <2> DEFINE selector == BrowserSelector(data)
               hint   == Unless(data.action = "click" /\ RenderInputTemplate(selector, p) = Blank, "template", end)
               chosen == Unless(data.action = "click" /\ selector = Blank, "field", hint)
               filled == Unless(RenderInputTemplate(data.target, p) = Blank, "template", chosen)
               target == Unless(data.target = Blank, "field", filled)
    <2>1. o \in Unless(BadNumber(data, "timeoutMs"), "number", target)
      BY <1>3 DEF BrowserOutput, end
    <2> HIDE DEF target
    <2>2. FailsAs(o) \/ o \in target
      BY <2>1, ChecksFirst DEF Whys
    <2> HIDE DEF filled
    <2>3. o \in target => FailsAs(o) \/ o \in filled
      BY ChecksFirst DEF Whys, target
    <2> HIDE DEF chosen
    <2>4. o \in filled => FailsAs(o) \/ o \in chosen
      BY ChecksFirst DEF Whys, filled
    <2> HIDE DEF hint
    <2>5. o \in chosen => FailsAs(o) \/ o \in hint
      BY ChecksFirst DEF Whys, chosen
    <2>6. o \in hint => FailsAs(o) \/ o \in end
      BY ChecksFirst DEF Whys, hint
    <2> QED  BY <1>1, <2>2, <2>3, <2>4, <2>5, <2>6
  <1>4. CASE o \in ExecOutput(p)
    BY <1>1, <1>4 DEF ExecOutput, end
  <1> QED  BY <1>2, <1>3, <1>4

LEMMA SearchHandsOn ==
    ASSUME NEW p, Shaped(p), NEW data, NEW o \in WebSearchOutput(data, p)
    PROVE  \/ FailsAs(o)
           \/ /\ Succeeds(o)
              /\ data.outputMode \notin {"top-result", "top-result-url"} => HandsOn(p, o)
  <1> DEFINE found == CASE data.outputMode = "top-result-url" -> Done(TextPayload)
                        [] data.outputMode = "top-result"     -> Done(Payload(NoFields, NoFields, 0))
                        [] OTHER                              -> Done(Wrap(p, NoFields, 0))
             end    == {Failed("service"), found}
             filled == Unless(RenderInputTemplate(data.query, p) = Blank, "template", end)
             query  == Unless(data.query = Blank, "field", filled)
  <1>1. o \in Unless(BadNumber(data, "limit"), "number", query)
    BY DEF WebSearchOutput
  <1>2. /\ Succeeds(found)
        /\ data.outputMode \notin {"top-result", "top-result-url"} => HandsOn(p, found)
    BY BareSucceeds, DoneHandsOn DEF HandsOn
  <1> HIDE DEF query, found
  <1>3. FailsAs(o) \/ o \in query
    BY <1>1, ChecksFirst DEF Whys
  <1> HIDE DEF filled
  <1>4. o \in query => FailsAs(o) \/ o \in filled
    BY ChecksFirst DEF Whys, query
  <1>5. o \in filled => FailsAs(o) \/ o \in end
    BY ChecksFirst DEF Whys, filled
  <1>6. o = Failed("service") => FailsAs(o)
    BY FailsOnly DEF Whys
  <1> QED  BY <1>2, <1>3, <1>4, <1>5, <1>6

LEMMA TranscriptHandsOn ==
    ASSUME NEW p, Shaped(p), NEW data, NEW settings \in BOOLEAN,
           NEW o \in TranscriptOutput(data, p, settings)
    PROVE  \/ FailsAs(o)
           \/ Succeeds(o) /\ (data.outputMode # "transcript-only" => HandsOn(p, o))
  <1> DEFINE heard == CASE data.outputMode = "transcript-only" -> Done(TextPayload)
                        [] data.outputMode = "replace"         -> Done(Wrap(p, NoFields, 0))
                        [] OTHER                               -> Done(MergeObjectOutput(p))
             end   == {Failed("service"), heard}
             named == Unless(TranscriptOf(data, p) = Blank, "payload", end)
  <1>1. o \in Unless(~settings, "profile", named)
    BY DEF TranscriptOutput
  <1>2. Succeeds(heard) /\ (data.outputMode # "transcript-only" => HandsOn(p, heard))
    BY BareSucceeds, DoneHandsOn DEF HandsOn
  <1> HIDE DEF named, heard
  <1>3. FailsAs(o) \/ o \in named
    BY <1>1, ChecksFirst DEF Whys
  <1>4. o \in named => FailsAs(o) \/ o \in end
    BY ChecksFirst DEF Whys, named
  <1>5. o = Failed("service") => FailsAs(o)
    BY FailsOnly DEF Whys
  <1> QED  BY <1>2, <1>3, <1>4, <1>5

LEMMA ShapeHandsOn ==
    ASSUME NEW p, Shaped(p), NEW data, NEW o \in ShapeOutput(data, p)
    PROVE  FailsAs(o) \/ Succeeds(o)
  <1> DEFINE whole   == data.template = "{{input}}"
             merged  == Unless(~whole \/ ~p.object, "payload", {Done(p)})
             put     == Unless(data.outputPath = Blank, "field", {Done(MergeObjectOutput(p))})
             formed  == CASE data.outputMode = "replace" -> {Done(IF whole THEN p ELSE TextPayload)}
                          [] data.outputMode = "merge"   -> merged
                          [] OTHER                       -> put
  <1>1. o \in Unless(~whole /\ RenderInputTemplate(data.template, p) = Blank, "template", formed)
    BY DEF ShapeOutput
  <1>2. /\ Succeeds(Done(p)) /\ Succeeds(Done(MergeObjectOutput(p)))
        /\ Succeeds(Done(TextPayload))
    BY Keeps, BareSucceeds, Refused DEF Succeeds
  <1> HIDE DEF formed, merged, put
  <1>3. FailsAs(o) \/ o \in formed
    BY <1>1, ChecksFirst DEF Whys
  <1>4. o \in formed => o \in merged \/ o \in put \/ o = Done(p) \/ o = Done(TextPayload)
    BY DEF formed
  <1>5. ASSUME o \in merged PROVE FailsAs(o) \/ o = Done(p)
    <2>1. \E blank : o \in Unless(blank, "payload", {Done(p)})
      BY <1>5 DEF merged
    <2> QED  BY <2>1, ChecksFirst DEF Whys
  <1>6. o \in put => FailsAs(o) \/ o = Done(MergeObjectOutput(p))
    BY ChecksFirst DEF Whys, put
  <1> QED  BY <1>2, <1>3, <1>4, <1>5, <1>6

LEMMA ControlHandsOn ==
    ASSUME NEW p, Shaped(p), NEW data,
           NEW o \in BranchOutput(data, p) \cup ApprovalOutput(data, p) \cup WaitOutput(data, p)
                       \cup MemoryWriteOutput(data, p, Flow) \cup {Done(MergeObjectOutput(p)), Done(p)}
    PROVE  FailsAs(o) \/ HandsOn(p, o)
  <1>1. o \in {Done(MergeObjectOutput(p)), Done(p)} => HandsOn(p, o)
    BY DoneHandsOn
  <1>2. CASE o \in BranchOutput(data, p) \cup ApprovalOutput(data, p) \cup WaitOutput(data, p)
    <2>1. FailsAs(o) \/ o \in {Done(p)}
      BY <1>2, ChecksFirst DEF BranchOutput, ApprovalOutput, WaitOutput, Whys
    <2> QED  BY <1>1, <2>1
  <1>3. CASE o \in MemoryWriteOutput(data, p, Flow)
    <2> DEFINE scoped == Unless(MemoryScope(data.namespace, p, Flow) = Blank, "payload",
                                {Done(MergeObjectOutput(p))})
    <2>1. o \in Unless(data.key = Blank, "field", scoped)
      BY <1>3 DEF MemoryWriteOutput
    <2> HIDE DEF scoped
    <2>2. FailsAs(o) \/ o \in scoped
      BY <2>1, ChecksFirst DEF Whys
    <2>3. o \in scoped => FailsAs(o) \/ o \in {Done(MergeObjectOutput(p))}
      BY ChecksFirst DEF Whys, scoped
    <2> QED  BY <1>1, <2>2, <2>3
  <1> QED  BY <1>1, <1>2, <1>3

LEMMA BindingHandsOn ==
    ASSUME NEW p, Shaped(p), NEW data, NEW o \in ThreadBindOutput(data, p)
    PROVE  FailsAs(o) \/ HandsOn(p, o)
  <1> DEFINE value  == GetStringPathValue(p, "video")
             reused == Unless(/\ data.strategy = "reuse"
                              /\ GetStringPathValue(p, "threadId") = Blank
                              /\ GetStringPathValue(p, "sessionKey") = Blank, "payload",
                              {Done(BindContext(p, value))})
             valued == Unless(value = Blank, "payload", reused)
  <1>1. o \in Unless(data.bindingKey = Blank, "field", valued)
    BY DEF ThreadBindOutput
  <1>2. HandsOn(p, Done(BindContext(p, value)))
    BY Binds, Refused DEF HandsOn, Succeeds
  <1> HIDE DEF valued
  <1>3. FailsAs(o) \/ o \in valued
    BY <1>1, ChecksFirst DEF Whys
  <1> HIDE DEF reused
  <1>4. o \in valued => FailsAs(o) \/ o \in reused
    BY ChecksFirst DEF Whys, valued
  <1>5. ASSUME o \in reused PROVE FailsAs(o) \/ o = Done(BindContext(p, value))
    <2>1. \E blank : o \in Unless(blank, "payload", {Done(BindContext(p, value))})
      BY <1>5 DEF reused
    <2> QED  BY <2>1, ChecksFirst DEF Whys
  <1> QED  BY <1>2, <1>3, <1>4, <1>5

LEMMA OutcomesHandOn ==
    ASSUME NEW run, Shaped(run.payload), NEW node, NEW session,
           NEW o \in Outcomes(run, node.type, node.data, session)
    PROVE  \/ FailsAs(o)
           \/ /\ Succeeds(o) /\ (~BareText(node) => HandsOn(run.payload, o))
              /\ node.type \in ReplyProducers => o.payload.object /\ DOMAIN o.payload.here = Fields
              /\ node.type = "action.agent-send" =>
                   /\ o.payload.depth = run.payload.depth + 1
                   /\ MaxDepth(node.data) \in Nat /\ o.payload.depth <= MaxDepth(node.data)
  <1> DEFINE p == run.payload  data == node.data  type == node.type
  <1>1. CASE type \in {"action.agent", "action.skill"}
    <2>1. o \in AgentOutput(data, p, session) \cup SkillOutput(data, p, session)
      BY <1>1 DEF Outcomes, Transcripts
    <2>2. FailsAs(o) \/ Turned(p, o, 0)
      BY <2>1, SpeakersTurn
    <2> QED  BY <1>1, <2>2 DEF Turned, HandsOn
  <1>2. CASE type = "action.agent-send"
    <2>1. o \in AgentSendOutput(data, p, session)
      BY <1>2 DEF Outcomes, Transcripts
    <2>2. FailsAs(o) \/ (Turned(p, o, p.depth + 1) /\ MaxDepth(data) \in Nat /\ p.depth + 1 <= MaxDepth(data))
      BY <2>1, HandoffTurns
    <2> QED  BY <2>2 DEF Turned, HandsOn
  <1>3. CASE type \in {"action.http", "tool.browser"}
    <2>1. o \in HttpOutput(data, p) \cup BrowserOutput(data, p)
      BY <1>3 DEF Outcomes, Transcripts
    <2> QED  BY <1>3, <2>1, ToolsHandOn DEF HandsOn, ReplyProducers
  <1>4. CASE type = "tool.web-search"
    <2>1. o \in WebSearchOutput(data, p)
      BY <1>4 DEF Outcomes, Transcripts
    <2> QED  BY <1>4, <2>1, SearchHandsOn DEF BareText, ReplyProducers
  <1>5. CASE type \in Transcripts
    <2>1. \E settings \in BOOLEAN : o \in TranscriptOutput(data, p, settings)
      <3>1. SettingsFor(data, type) \in BOOLEAN
        BY DEF SettingsFor
      <3>2. o \in TranscriptOutput(data, p, SettingsFor(data, type))
        BY <1>5 DEF Outcomes, Transcripts
      <3> QED  BY <3>1, <3>2
    <2> QED  BY <1>5, <2>1, TranscriptHandsOn DEF BareText, ReplyProducers, Transcripts
  <1>6. CASE type = "tool.payload-template"
    <2>1. o \in ShapeOutput(data, p)
      BY <1>6 DEF Outcomes, Transcripts
    <2> QED  BY <1>6, <2>1, ShapeHandsOn DEF BareText, ReplyProducers
  <1>7. CASE type = "context.thread-bind"
    <2>1. o \in ThreadBindOutput(data, p)
      BY <1>7 DEF Outcomes, Transcripts
    <2> QED  BY <1>7, <2>1, BindingHandsOn DEF HandsOn, ReplyProducers
  <1>8. CASE type \notin {"action.agent", "action.skill", "action.agent-send", "action.http", "tool.browser",
                          "tool.web-search", "tool.payload-template", "context.thread-bind"} \cup Transcripts
    <2>1. o \in BranchOutput(data, p) \cup ApprovalOutput(data, p) \cup WaitOutput(data, p)
                  \cup MemoryWriteOutput(data, p, Flow) \cup {Done(MergeObjectOutput(p)), Done(p)}
      BY <1>8 DEF Outcomes
    <2> QED  BY <1>8, <2>1, ControlHandsOn DEF HandsOn, ReplyProducers
  <1> QED  BY <1>1, <1>2, <1>3, <1>4, <1>5, <1>6, <1>7, <1>8

\* How a run is told from what it was: who fails stays where it is.
LEMMA AfterAt ==
    ASSUME NEW run, DOMAIN run = RunFields, NEW o
    PROVE  /\ DOMAIN After(run, o) = RunFields
           /\ After(run, o).said = run.said /\ After(run, o).sent = run.sent
           /\ o.why # Blank => /\ After(run, o).at = run.at /\ After(run, o).payload = run.payload
                               /\ After(run, o).why = o.why /\ After(run, o).phase = "failed"
           /\ o.why = Blank => /\ After(run, o).at = run.at + 1 /\ After(run, o).payload = o.payload
                               /\ After(run, o).why = run.why
                               /\ After(run, o).phase = IF run.at = Len(nodes) THEN "done" ELSE "running"
  <1>1. CASE o.why # Blank
    <2>1. After(run, o) = [run EXCEPT !.phase = "failed", !.why = o.why]
      BY <1>1 DEF After
    <2> QED  BY <1>1, <2>1 DEF RunFields
  <1>2. CASE o.why = Blank
    <2>1. PICK sessions : After(run, o) =
            [run EXCEPT !.payload = o.payload, !.sessions = sessions, !.at = run.at + 1,
                        !.phase = IF run.at = Len(nodes) THEN "done" ELSE "running"]
      BY <1>2 DEF After, RunFields
    <2> QED  BY <1>2, <2>1 DEF RunFields
  <1> QED  BY <1>1, <1>2

\* What a reply finds to say: a fixed text, the payload, or what was said.
LEMMA TemplateFilled ==
    ASSUME NEW data, data.messageTemplate \in ReplyTemplates, NEW p,
           GetStringPathValue(p, "replyText") # Blank
    PROVE  FormatChannelReplyMessage(data, p) # Blank
  <1>1. "payload" # Blank /\ "text" # Blank
    BY Zenon DEF Blank
  <1>2. data.messageTemplate = "text" => RenderInputTemplate(data.messageTemplate, p) = "text"
    BY TemplatesAssumption DEF RenderInputTemplate
  <1>3. data.messageTemplate = "{{replyText}}" =>
          RenderInputTemplate(data.messageTemplate, p) = GetStringPathValue(p, "replyText")
    BY TemplatesAssumption DEF RenderInputTemplate
  <1> QED  BY <1>1, <1>2, <1>3 DEF FormatChannelReplyMessage, ReplyTemplates

LEMMA FailsWell ==
    ASSUME Drawn, NEW run, Proceeds(run), run.at \in DOMAIN nodes,
           NEW next, next.at = run.at, next.payload = run.payload, next.said = run.said,
           next.sent = run.sent, next.phase = "failed",
           (next.why = "template" /\ nodes[run.at].type \in Replies)
             => FormatChannelReplyMessage(nodes[run.at].data, run.payload) = Blank
    PROVE  Proceeds(next)
  <1>1. Carries(next)
    <2> SUFFICES ASSUME next.why = "template", nodes[run.at].type \in Replies, run.said # 0,
                        run.at - run.said <= 2
                 PROVE  \E i \in (run.said + 1)..(run.at - 1) :
                          BareText(nodes[i]) \/ nodes[i].type \in ReplyProducers \cup Replies
      BY DEF Carries, Proceeds
    <2>1. GetStringPathValue(run.payload, "replyText") = Blank
      BY TemplateFilled DEF Drawn
    <2>2. run.said < run.at /\ run.at \in Nat /\ run.said \in Nat
      BY DEF Proceeds, Spoke
    <2>3. run.at # run.said + 1
      BY <2>1 DEF Proceeds, Spoke, Said, GetStringPathValue
    <2>4. run.at = run.said + 2
      BY <2>2, <2>3
    <2>5. BareText(nodes[run.said + 1]) \/ nodes[run.said + 1].type \in ReplyProducers \cup Replies
      BY <2>1, <2>4 DEF Proceeds, Spoke
    <2> QED  BY <2>2, <2>4, <2>5
  <1>2. OnPath(next)
    BY DEF OnPath
  <1> QED  BY <1>1, <1>2 DEF Proceeds, Counts, Bounded, Spoke

LEMMA PassesWell ==
    ASSUME Drawn, NEW run, Proceeds(run), run.at \in DOMAIN nodes,
           NEW next, next.at = run.at + 1, next.why = Blank, Shaped(next.payload), Delivers(next.sent),
           next.phase = IF run.at = Len(nodes) THEN "done" ELSE "running",
           \/ next.said = run.said
           \/ next.said = run.at /\ Said(next.payload),
           \/ nodes[run.at].type \in ReplyProducers \cup Replies \/ BareText(nodes[run.at])
           \/ Said(run.payload) => GetStringPathValue(next.payload, "replyText") # Blank,
           nodes[run.at].type = "action.agent-send" =>
             /\ next.payload.depth = run.payload.depth + 1
             /\ MaxDepth(nodes[run.at].data) \in Nat
             /\ next.payload.depth <= MaxDepth(nodes[run.at].data)
    PROVE  Proceeds(next)
  <1>0. run.at \in Nat \ {0} /\ run.said \in Nat /\ run.payload.depth \in Nat /\ next.payload.depth \in Nat
    BY DEF Drawn, Proceeds, Shaped
  <1>1. OnPath(next)
    <2>1. run.at # Len(nodes) => run.at + 1 \in DOMAIN nodes
      BY <1>0 DEF Drawn
    <2> QED  BY <2>1 DEF OnPath
  <1>2. Counts(next)
    <2> SUFFICES ASSUME NEW first \in 1..run.at,
                        \A i \in first..run.at : nodes[i].type = "action.agent-send"
                 PROVE  run.at + 1 - first <= next.payload.depth
      BY <1>0 DEF Counts
    <2>1. nodes[run.at].type = "action.agent-send"
      BY <1>0
    <2>2. first <= run.at - 1 => run.at - first <= run.payload.depth
      BY <1>0 DEF Proceeds, Counts
    <2> QED  BY <1>0, <2>1, <2>2
  <1>3. Bounded(next)
    <2> SUFFICES ASSUME NEW first \in 1..run.at, NEW last \in 1..run.at,
                        \A i \in first..last : nodes[i].type = "action.agent-send", first <= last
                 PROVE  last - first + 1 <= MaxDepth(nodes[last].data)
      BY <1>0 DEF Bounded
    <2>1. CASE last = run.at
      <3>1. nodes[run.at].type = "action.agent-send"
        BY <1>0, <2>1
      <3>2. run.at + 1 - first <= next.payload.depth
        BY <1>0, <1>2, <2>1 DEF Counts
      <3>3. MaxDepth(nodes[run.at].data) \in Nat /\ next.payload.depth <= MaxDepth(nodes[run.at].data)
        BY <3>1
      <3> QED  BY <1>0, <2>1, <3>2, <3>3
    <2>2. CASE last # run.at
      BY <1>0, <2>2 DEF Proceeds, Bounded
    <2> QED  BY <2>1, <2>2
  <1>4. Spoke(next)
    <2>1. CASE next.said = run.at /\ Said(next.payload)
      BY <1>0, <2>1 DEF Spoke
    <2>2. CASE next.said = run.said
      <3> SUFFICES ASSUME run.said # 0
                   PROVE  /\ run.said < run.at + 1 /\ run.at + 1 # run.said + 1
                          /\ run.at + 1 = run.said + 2 =>
                               \/ BareText(nodes[run.said + 1])
                               \/ nodes[run.said + 1].type \in ReplyProducers \cup Replies
                               \/ GetStringPathValue(next.payload, "replyText") # Blank
        BY <2>2 DEF Spoke
      <3>1. run.said < run.at
        BY DEF Proceeds, Spoke
      <3>2. run.at = run.said + 1 => Said(run.payload)
        BY DEF Proceeds, Spoke
      <3>3. run.at + 1 = run.said + 2 => run.at = run.said + 1
        BY <1>0
      <3>4. run.at = run.said + 1 =>
               \/ BareText(nodes[run.said + 1]) \/ nodes[run.said + 1].type \in ReplyProducers \cup Replies
               \/ GetStringPathValue(next.payload, "replyText") # Blank
        BY <3>2
      <3> QED  BY <1>0, <3>1, <3>3, <3>4
    <2> QED  BY <2>1, <2>2
  <1>5. Carries(next)
    <2>1. "template" # Blank
      BY Zenon DEF Blank
    <2> QED  BY <2>1 DEF Carries
  <1>6. next.at \in Nat /\ next.said \in Nat
    BY <1>0
  <1> QED  BY <1>1, <1>2, <1>3, <1>4, <1>5, <1>6 DEF Proceeds

LEMMA NoRunProceeds == Proceeds(NoRun) /\ Proceeds(NoRun)'
  <1>1. /\ NoRun.phase = "none" /\ NoRun.at = 0 /\ NoRun.said = 0 /\ NoRun.payload = TextPayload
        /\ NoRun.sent.asked = Blank
    BY DEF NoRun, NoDelivery
  <1>2. Shaped(TextPayload)
    BY Built
  <1>3. Proceeds(NoRun)
    BY <1>1, <1>2 DEF Proceeds, OnPath, Counts, Bounded, Spoke, Carries, Delivers
  <1>4. Proceeds(NoRun)'
    BY <1>1, <1>2 DEF Proceeds, OnPath, Counts, Bounded, Spoke, Carries, Delivers
  <1> QED  BY <1>3, <1>4

LEMMA SamePath ==
    ASSUME UNCHANGED nodes, NEW run, Proceeds(run)
    PROVE  Proceeds(run)'
  BY DEF Proceeds, OnPath, Counts, Bounded, Spoke, Carries, BareText

LEMMA RunProceeds ==
    ASSUME RunsShaped, PathInv, NEW r \in Runs, NEW next, runs' = [runs EXCEPT ![r] = next],
           Proceeds(next), published, UNCHANGED <<nodes, published>>
    PROVE  PathInv'
  <1>1. \A q \in Runs : runs'[q] = IF q = r THEN next ELSE runs[q]
    BY DEF RunsShaped
  <1>2. \A q \in Runs : Proceeds(runs'[q])
    BY <1>1 DEF PathInv
  <1>3. ASSUME NEW q \in Runs PROVE Proceeds(runs[q])'
    <2>1. PICK run : run = runs'[q]
      OBVIOUS
    <2>2. Proceeds(run)'
      BY <1>2, <2>1, SamePath
    <2> QED  BY <2>1, <2>2
  <1>4. Drawn'
    BY DEF PathInv, Drawn
  <1> QED  BY <1>3, <1>4 DEF PathInv

LEMMA EventTypes == \A type, said : EventWith(type, said).type = type
  BY DEF EventWith

LEMMA PlanIsKnown == BuildTriggerPlan(nodes).type \in DOMAIN TriggerOfEvent
  <1>1. \/ BuildTriggerPlan(nodes) = EventWith("webhook", Silent)
        \/ \E node : BuildTriggerPlan(nodes) = TriggerPlanOf(node)
    BY DEF BuildTriggerPlan
  <1>2. ASSUME NEW node
        PROVE  TriggerPlanOf(node).type \in {"webhook", "channel", "cron", "hook", "task", "order"}
    <2>1. CASE node.type = "trigger.webhook"
      BY <2>1, EventTypes DEF TriggerPlanOf
    <2>2. CASE node.type = "trigger.channel"
      BY <2>2, EventTypes DEF TriggerPlanOf
    <2>3. CASE node.type = "trigger.cron"
      BY <2>3, EventTypes DEF TriggerPlanOf
    <2>4. CASE node.type = "trigger.hook"
      BY <2>4, EventTypes DEF TriggerPlanOf
    <2>5. CASE node.type = "trigger.task"
      BY <2>5, EventTypes DEF TriggerPlanOf
    <2>6. CASE node.type \notin {"trigger.webhook", "trigger.channel", "trigger.cron", "trigger.hook",
                                 "trigger.task"}
      BY <2>6, EventTypes DEF TriggerPlanOf
    <2> QED  BY <2>1, <2>2, <2>3, <2>4, <2>5, <2>6
  <1> QED  BY <1>1, <1>2, EventTypes DEF TriggerOfEvent

LEMMA EntersFirst ==
    ASSUME Drawn, NEW event, event.type \in DOMAIN TriggerOfEvent \cup {"manual"},
           NEW entry \in ResolveExecutionEntryTrigger(nodes, event)
    PROVE  entry = 1 /\ entry \in DOMAIN nodes
  <1>1. entry \in Candidates(nodes, event)
    BY DEF ResolveExecutionEntryTrigger
  <1>2. entry \in DOMAIN nodes /\ nodes[entry].type \in TriggerKinds
    BY <1>1 DEF Candidates, GetExecutableTriggerNodes, GetTriggerNodesByType, TriggerKinds, TriggerOfEvent
  <1> QED  BY <1>2 DEF Drawn

LEMMA BeginProceeds ==
    ASSUME RunsShaped, PathInv, NEW r \in Runs, NEW events, NEW payload, Begin(r, events, payload),
           \A event \in events : event.type \in DOMAIN TriggerOfEvent \cup {"manual"},
           Shaped(payload), UNCHANGED <<nodes, published>>
    PROVE  PathInv'
  <1>1. PICK entry \in UNION {ResolveExecutionEntryTrigger(nodes, e) : e \in events} :
          runs' = [runs EXCEPT ![r] =
                    [NoRun EXCEPT !.phase = "running", !.at = entry, !.payload = payload,
                                  !.policy = workspace, !.sessions = Sessions(payload),
                                  !.seen = LoadPersistedMemory(entries, ReaderOf(payload))]]
    BY DEF Begin
  <1>2. entry = 1 /\ entry \in DOMAIN nodes
    BY EntersFirst DEF PathInv
  <1> DEFINE next == [NoRun EXCEPT !.phase = "running", !.at = entry, !.payload = payload,
                                  !.policy = workspace, !.sessions = Sessions(payload),
                                  !.seen = LoadPersistedMemory(entries, ReaderOf(payload))]
  <1>3. /\ next.phase = "running" /\ next.at = 1 /\ next.payload = payload /\ next.said = 0
        /\ next.why = Blank /\ next.sent.asked = Blank
    BY <1>2 DEF NoRun, NoDelivery
  <1>4. runs' = [runs EXCEPT ![r] = next]
    BY <1>1
  <1> HIDE DEF next
  <1>5. "template" # Blank
    BY Zenon DEF Blank
  <1>6. Proceeds(next)
    BY <1>2, <1>3, <1>5 DEF Proceeds, OnPath, Counts, Bounded, Spoke, Carries, Delivers
  <1>7. published
    BY DEF Begin
  <1> QED  BY <1>4, <1>6, <1>7, RunProceeds

\* Where a run stands when one of its steps settles.
LEMMA Stands ==
    ASSUME RunsShaped, PathInv, NEW r \in Runs, runs[r].phase = "running"
    PROVE  /\ DOMAIN runs[r] = RunFields /\ Proceeds(runs[r]) /\ Drawn /\ published
           /\ runs[r].at \in DOMAIN nodes /\ runs[r].why = Blank
           /\ Shaped(runs[r].payload) /\ Delivers(runs[r].sent)
  <1>1. NoRun.phase = "none"
    BY DEF NoRun
  <1> QED  BY <1>1 DEF RunsShaped, PathInv, Proceeds, OnPath

LEMMA SettleProceeds ==
    ASSUME RunsShaped, PathInv, NEW r \in Runs, NEW next, Settle(r, next), Proceeds(next)
    PROVE  PathInv'
  <1>1. published
    BY Stands DEF Settle
  <1>2. UNCHANGED <<nodes, published>> /\ runs' = [runs EXCEPT ![r] = next]
    BY DEF Settle, flowVars
  <1> QED  BY <1>1, <1>2, RunProceeds

\* A failure that is no empty message.
LEMMA FailureProceeds ==
    ASSUME RunsShaped, PathInv, NEW r \in Runs, NEW o, o.why # Blank,
           (o.why = "template" /\ Current(r).type \in Replies)
             => FormatChannelReplyMessage(Current(r).data, runs[r].payload) = Blank,
           Settle(r, After(runs[r], o))
    PROVE  PathInv'
  <1>1. runs[r].phase = "running"
    BY DEF Settle
  <1>2. PICK next : next = After(runs[r], o)
    OBVIOUS
  <1>3. /\ next.at = runs[r].at /\ next.payload = runs[r].payload /\ next.said = runs[r].said
        /\ next.sent = runs[r].sent /\ next.phase = "failed" /\ next.why = o.why
    BY <1>1, <1>2, Stands, AfterAt
  <1>4. Proceeds(next)
    BY <1>1, <1>3, Stands, FailsWell DEF Current
  <1> QED  BY <1>2, <1>4, SettleProceeds

LEMMA PlainProceeds ==
    ASSUME RunsShaped, PathInv, NEW r \in Runs, runs[r].phase = "running", PlainStep(r)
    PROVE  PathInv'
  <1>1. PICK node, run : node = Current(r) /\ run = runs[r]
    OBVIOUS
  <1>2. /\ DOMAIN run = RunFields /\ Proceeds(run) /\ Drawn /\ run.at \in DOMAIN nodes
        /\ run.why = Blank /\ Shaped(run.payload) /\ Delivers(run.sent) /\ node = nodes[run.at]
    BY <1>1, Stands DEF Current
  <1>3. PICK session : session = StepSession[r][run.at]
    OBVIOUS
  <1>4. PICK o \in Outcomes(run, node.type, node.data, session) :
          Settle(r, [After(run, o) EXCEPT
                       !.said = IF node.type \in ReplyProducers /\ o.payload.here["replyText"] # Blank
                                THEN run.at ELSE @])
    BY <1>1, <1>3 DEF PlainStep
  <1>5. node.type \notin Replies
    BY <1>1 DEF PlainStep, Special
  <1>6. /\ DOMAIN After(run, o) = RunFields
        /\ After(run, o).said = run.said /\ After(run, o).sent = run.sent
        /\ o.why # Blank => /\ After(run, o).at = run.at /\ After(run, o).payload = run.payload
                            /\ After(run, o).phase = "failed"
        /\ o.why = Blank => /\ After(run, o).at = run.at + 1 /\ After(run, o).payload = o.payload
                            /\ After(run, o).why = Blank
                            /\ After(run, o).phase = IF run.at = Len(nodes) THEN "done" ELSE "running"
    BY <1>2, AfterAt
  <1>7. PICK after : after = After(run, o)
    OBVIOUS
  <1>8. PICK said : said = IF node.type \in ReplyProducers /\ o.payload.here["replyText"] # Blank
                           THEN run.at ELSE run.said
    OBVIOUS
  <1>9. PICK next : next = [after EXCEPT !.said = said]
    OBVIOUS
  <1>10. Settle(r, next)
    BY <1>4, <1>6, <1>7, <1>8, <1>9
  <1>11. /\ next.at = after.at /\ next.payload = after.payload /\ next.sent = after.sent
         /\ next.why = after.why /\ next.phase = after.phase /\ next.said = said
    BY <1>6, <1>7, <1>9 DEF RunFields
  <1>12. \/ FailsAs(o)
         \/ /\ Succeeds(o) /\ (~BareText(node) => HandsOn(run.payload, o))
            /\ node.type \in ReplyProducers => o.payload.object /\ DOMAIN o.payload.here = Fields
            /\ node.type = "action.agent-send" =>
                 /\ o.payload.depth = run.payload.depth + 1
                 /\ MaxDepth(node.data) \in Nat /\ o.payload.depth <= MaxDepth(node.data)
    <2>1. o \in Outcomes(run, node.type, node.data, session)
      BY <1>4
    <2> QED  BY <1>2, <2>1, OutcomesHandOn
  <1>13. CASE o.why # Blank
    <2>1. said = run.said
      <3>1. o.payload = TextPayload
        BY <1>12, <1>13 DEF FailsAs, Succeeds
      <3>2. TextPayload.here["replyText"] = Blank
        BY DEF TextPayload, NoFields, Fields
      <3> QED  BY <1>8, <3>1, <3>2
    <2>2. Proceeds(next)
      BY <1>2, <1>5, <1>6, <1>7, <1>11, <1>13, <2>1, FailsWell
    <2> QED  BY <1>10, <2>2, SettleProceeds
  <1>14. CASE o.why = Blank
    <2>1. ~FailsAs(o)
      BY <1>14 DEF FailsAs
    <2>2. next.said = run.said \/ (next.said = run.at /\ Said(next.payload))
      BY <1>6, <1>7, <1>8, <1>11, <1>12, <1>14, <2>1 DEF Said, Succeeds
    <2>3. Proceeds(next)
      BY <1>2, <1>6, <1>7, <1>11, <1>12, <1>14, <2>1, <2>2, PassesWell DEF HandsOn, Succeeds
    <2> QED  BY <1>10, <2>3, SettleProceeds
  <1> QED  BY <1>13, <1>14

\* The other steps note something else of the run, or where a reply went.
LEMMA SpecialProceeds ==
    ASSUME RunsShaped, PathInv, NEW r \in Runs, runs[r].phase = "running",
           Current(r).type \in Special, NEW o,
           \/ o.why # Blank /\ (o.why = "template" => Current(r).type \notin Replies)
           \/ Succeeds(o) /\ (Current(r).type \in Replies \/ HandsOn(runs[r].payload, o)),
           NEW next, Settle(r, next), NEW after, after = After(runs[r], o),
           next.at = after.at, next.payload = after.payload, next.why = after.why,
           next.phase = after.phase, next.said = after.said,
           next.sent = after.sent \/ (Succeeds(o) /\ Delivers(next.sent))
    PROVE  PathInv'
  <1>1. PICK node, run : node = Current(r) /\ run = runs[r]
    OBVIOUS
  <1>2. /\ DOMAIN run = RunFields /\ Proceeds(run) /\ Drawn /\ run.at \in DOMAIN nodes
        /\ run.why = Blank /\ Shaped(run.payload) /\ Delivers(run.sent) /\ node = nodes[run.at]
    BY <1>1, Stands DEF Current
  <1>3. /\ after.said = run.said /\ after.sent = run.sent
        /\ o.why # Blank => /\ after.at = run.at /\ after.payload = run.payload
                            /\ after.phase = "failed" /\ after.why = o.why
        /\ o.why = Blank => /\ after.at = run.at + 1 /\ after.payload = o.payload
                            /\ after.why = Blank
                            /\ after.phase = IF run.at = Len(nodes) THEN "done" ELSE "running"
    BY <1>1, <1>2, AfterAt
  <1>4. node.type # "action.agent-send"
    BY <1>1 DEF Special, Replies
  <1>5. CASE o.why # Blank
    <2>1. ~Succeeds(o) /\ ~(next.why = "template" /\ node.type \in Replies)
      BY <1>1, <1>3, <1>5 DEF Succeeds
    <2>2. Proceeds(next)
      BY <1>2, <1>3, <1>5, <2>1, FailsWell
    <2> QED  BY <2>2, SettleProceeds
  <1>6. CASE Succeeds(o)
    <2>1. o.why = Blank /\ Shaped(o.payload)
      BY <1>6 DEF Succeeds
    <2>2. \/ node.type \in ReplyProducers \cup Replies \/ BareText(node)
          \/ Said(run.payload) => GetStringPathValue(next.payload, "replyText") # Blank
      BY <1>1, <1>3, <2>1 DEF HandsOn
    <2>3. Proceeds(next)
      BY <1>2, <1>3, <1>4, <2>1, <2>2, PassesWell
    <2> QED  BY <2>3, SettleProceeds
  <1> QED  BY <1>5, <1>6

LEMMA SpecialStands ==
    ASSUME RunsShaped, PathInv, NEW r \in Runs, runs[r].phase = "running", NEW o
    PROVE  DOMAIN After(runs[r], o) = RunFields /\ Shaped(runs[r].payload)
  BY Stands, AfterAt

LEMMA MemoryProceeds ==
    ASSUME RunsShaped, PathInv, NEW r \in Runs, runs[r].phase = "running",
           MemoryWriteStep(r) \/ MemoryQueryStep(r) \/ BindContextStep(r)
    PROVE  PathInv'
  <1>1. PICK run, node : run = runs[r] /\ node = Current(r)
    OBVIOUS
  <1>2. node.type \in {"context.memory-write", "context.memory-query", "context.thread-bind"}
    BY <1>1 DEF MemoryWriteStep, MemoryQueryStep, BindContextStep
  <1>3. \E o \in Outcomes(run, node.type, node.data, Blank) : \E wrote, seen :
          \/ Settle(r, [After(run, o) EXCEPT !.wrote = wrote])
          \/ Settle(r, [After(run, o) EXCEPT !.seen = seen])
    <2>1. CASE MemoryWriteStep(r)
      BY <1>1, <2>1 DEF MemoryWriteStep
    <2>2. CASE MemoryQueryStep(r)
      BY <1>1, <2>2 DEF MemoryQueryStep
    <2>3. CASE BindContextStep(r)
      BY <1>1, <2>3 DEF BindContextStep
    <2> QED  BY <2>1, <2>2, <2>3
  <1>4. PICK o \in Outcomes(run, node.type, node.data, Blank) : \E wrote, seen :
          \/ Settle(r, [After(run, o) EXCEPT !.wrote = wrote])
          \/ Settle(r, [After(run, o) EXCEPT !.seen = seen])
    BY <1>3
  <1>5. PICK after : after = After(run, o)
    OBVIOUS
  <1>6. PICK next : /\ Settle(r, next)
                    /\ \E wrote, seen : \/ next = [after EXCEPT !.wrote = wrote]
                                        \/ next = [after EXCEPT !.seen = seen]
    BY <1>4, <1>5
  <1>7. DOMAIN after = RunFields /\ Shaped(run.payload)
    BY <1>1, <1>5, SpecialStands
  <1>8. /\ next.at = after.at /\ next.payload = after.payload /\ next.why = after.why
        /\ next.phase = after.phase /\ next.said = after.said /\ next.sent = after.sent
    BY <1>6, <1>7 DEF RunFields
  <1>9. FailsAs(o) \/ (Succeeds(o) /\ HandsOn(run.payload, o))
    <2>1. o \in Outcomes(run, node.type, node.data, Blank)
      BY <1>4
    <2>2. ~BareText(node)
      BY <1>2 DEF BareText, Transcripts
    <2> QED  BY <1>7, <2>1, <2>2, OutcomesHandOn
  <1>10. node.type \in Special /\ node.type \notin Replies
    BY <1>2 DEF Special, Replies
  <1> QED  BY <1>1, <1>5, <1>6, <1>8, <1>9, <1>10, SpecialProceeds DEF FailsAs

LEMMA ExecProceeds ==
    ASSUME RunsShaped, PathInv, NEW r \in Runs, runs[r].phase = "running", ExecNodeStep(r)
    PROVE  PathInv'
  <1>1. PICK run, node : run = runs[r] /\ node = Current(r)
    OBVIOUS
  <1>2. node.type = "tool.exec"
    BY <1>1 DEF ExecNodeStep
  <1>3. \/ \E why \in {"field", "template", "number", "policy"} : Settle(r, After(run, Failed(why)))
        \/ \E grant : Settle(r, [run EXCEPT !.phase = "asking", !.grant = grant])
        \/ \E o \in ExecOutput(run.payload) : Settle(r, After(run, o))
    BY <1>1 DEF ExecNodeStep
  <1>4. "policy" # Blank
    BY Zenon DEF Blank
  <1>5. ASSUME NEW o, o.why # Blank \/ (Succeeds(o) /\ HandsOn(run.payload, o)), Settle(r, After(run, o))
        PROVE  PathInv'
    <2>1. node.type \in Special /\ node.type \notin Replies
      BY <1>2 DEF Special, Replies
    <2>2. PICK next : next = After(run, o)
      OBVIOUS
    <2> QED  BY <1>1, <1>5, <2>1, <2>2, SpecialProceeds
  <1>6. ASSUME NEW why \in {"field", "template", "number", "policy"}, Settle(r, After(run, Failed(why)))
        PROVE  PathInv'
    <2>1. Failed(why).why # Blank
      BY <1>4, Refused
    <2> QED  BY <1>5, <1>6, <2>1
  <1>7. ASSUME NEW o \in ExecOutput(run.payload), Settle(r, After(run, o)) PROVE PathInv'
    <2>1. FailsAs(o) \/ (Succeeds(o) /\ HandsOn(run.payload, o))
      BY <1>1, SpecialStands, ToolsHandOn DEF HandsOn, FailsAs
    <2> QED  BY <1>5, <1>7, <2>1 DEF FailsAs
  <1>8. ASSUME NEW grant, Settle(r, [run EXCEPT !.phase = "asking", !.grant = grant]) PROVE PathInv'
    <2>1. PICK next : next = [run EXCEPT !.phase = "asking", !.grant = grant]
      OBVIOUS
    <2>2. DOMAIN run = RunFields /\ Proceeds(run) /\ run.phase = "running"
      BY <1>1, Stands
    <2>3. /\ next.at = run.at /\ next.payload = run.payload /\ next.why = run.why
          /\ next.said = run.said /\ next.sent = run.sent /\ next.phase = "asking"
      BY <2>1, <2>2 DEF RunFields
    <2>4. Proceeds(next)
      BY <2>2, <2>3 DEF Proceeds, OnPath, Counts, Bounded, Spoke, Carries
    <2> QED  BY <1>8, <2>1, <2>4, SettleProceeds
  <1> QED  BY <1>3, <1>6, <1>7, <1>8

\* The gateway's channel is the one asked for when there are several.
LEMMA ChannelAsked ==
    ASSUME NEW answer, NEW asked, NEW channel \in DeliveryChannels(answer, asked),
           asked # Blank, Cardinality(answer.known) > 1
    PROVE  channel = asked
  BY DEF DeliveryChannels, ResolveCatalogOptionValue

LEMMA DeliverProceeds ==
    ASSUME RunsShaped, PathInv, NEW r \in Runs, runs[r].phase = "running", Current(r).type \in Replies,
           NEW profile, NEW asked, NEW keep, Deliver(r, profile, asked, keep)
    PROVE  PathInv'
  <1>1. PICK run, data : run = runs[r] /\ data = Current(r).data
    OBVIOUS
  <1>2. PICK refusal : refusal = ReplyRefusal(data, run.payload, profile)
    OBVIOUS
  <1>3. CASE refusal # Blank /\ Settle(r, After(run, Failed(refusal)))
    <2>1. refusal = "template" => FormatChannelReplyMessage(data, run.payload) = Blank
      BY <1>2, <1>3 DEF ReplyRefusal
    <2> QED  BY <1>1, <1>3, <2>1, Refused, FailureProceeds
  <1>4. CASE Settle(r, After(run, Failed("service")))
    BY <1>1, <1>4, Refused, FailureProceeds
  <1>5. ASSUME NEW channel, NEW sent, Delivers(sent),
               Settle(r, [After(run, ReplyOutput(run.payload, channel,
                                                 ReplyTarget(data, run.payload, profile), keep)) EXCEPT
                            !.sent = sent])
        PROVE  PathInv'
    <2>1. PICK o : o = ReplyOutput(run.payload, channel, ReplyTarget(data, run.payload, profile), keep)
      OBVIOUS
    <2>2. PICK after : after = After(run, o)
      OBVIOUS
    <2>4. PICK next : next = [after EXCEPT !.sent = sent]
      OBVIOUS
    <2>5. Settle(r, next)
      BY <1>5, <2>1, <2>2, <2>4
    <2>6. DOMAIN after = RunFields
      BY <1>1, <2>2, SpecialStands
    <2>7. /\ next.at = after.at /\ next.payload = after.payload /\ next.why = after.why
          /\ next.phase = after.phase /\ next.said = after.said /\ next.sent = sent
      BY <2>4, <2>6 DEF RunFields
    <2>8. Succeeds(o)
      <3>1. PICK fields : o = Done(Wrap(run.payload, fields, 0))
        BY <2>1 DEF ReplyOutput
      <3> QED  BY <3>1, Wraps, Refused DEF Succeeds
    <2>10. Current(r).type \in Special
      BY DEF Special
    <2> QED  BY <1>1, <1>5, <2>2, <2>5, <2>7, <2>8, <2>10, SpecialProceeds
  <1>6. ASSUME NEW answer, NEW channel \in DeliveryChannels(answer, asked)
        PROVE  Delivers([asked |-> asked, used |-> channel, known |-> answer.known])
    BY <1>6, ChannelAsked DEF Delivers
  <1>7. Delivers(NoDelivery)
    BY DEF Delivers, NoDelivery
  <1> QED  BY <1>1, <1>2, <1>3, <1>4, <1>5, <1>6, <1>7 DEF Deliver

LEMMA ReplyProceeds ==
    ASSUME RunsShaped, PathInv, NEW r \in Runs, runs[r].phase = "running",
           ChannelReplyNodeStep(r) \/ ChannelRouteNodeStep(r)
    PROVE  PathInv'
  <1>1. Current(r).type \in Replies
    BY DEF ChannelReplyNodeStep, ChannelRouteNodeStep, Replies
  <1>2. \/ \E why \in {"field", "profile"} : Settle(r, After(runs[r], Failed(why)))
        \/ \E profile, asked, keep : Deliver(r, profile, asked, keep)
    <2>1. CASE ChannelReplyNodeStep(r)
      BY <2>1 DEF ChannelReplyNodeStep
    <2>2. CASE ChannelRouteNodeStep(r)
      BY <2>2 DEF ChannelRouteNodeStep
    <2> QED  BY <2>1, <2>2
  <1>3. ASSUME NEW why \in {"field", "profile"}, Settle(r, After(runs[r], Failed(why))) PROVE PathInv'
    <2>1. Failed(why).why = why /\ why # Blank /\ why # "template"
      BY Refused
    <2> QED  BY <1>3, <2>1, FailureProceeds
  <1> QED  BY <1>1, <1>2, <1>3, DeliverProceeds

LEMMA StepProceeds ==
    ASSUME RunsShaped, PathInv, NEW r \in Runs, Step(r)
    PROVE  PathInv'
  BY PlainProceeds, MemoryProceeds, ExecProceeds, ReplyProceeds DEF Step

LEMMA DecisionProceeds ==
    ASSUME RunsShaped, PathInv, NEW r \in Runs, Approve(r) \/ Resume(r)
    PROVE  PathInv'
  <1>1. PICK run : run = runs[r]
    OBVIOUS
  <1>2. DOMAIN run = RunFields /\ Proceeds(run) /\ run.phase \in {"asking", "approved"} /\ published
    <2>1. NoRun.phase = "none"
      BY DEF NoRun
    <2> QED  BY <1>1, <2>1 DEF Approve, Resume, RunsShaped, PathInv
  <1>3. PICK next : /\ runs' = [runs EXCEPT ![r] = next]
                    /\ \/ /\ next = [run EXCEPT !.phase = "approved", !.why = Blank]
                       \/ /\ next = [run EXCEPT !.phase = "failed", !.why = "rejected"]
                       \/ /\ next = [run EXCEPT !.phase = "running", !.policy = workspace]
    <2>1. CASE Approve(r)
      <3>1. PICK approved \in BOOLEAN :
              runs' = [runs EXCEPT ![r].phase = IF approved THEN "approved" ELSE "failed",
                                   ![r].why = IF approved THEN Blank ELSE "rejected"]
        BY <2>1 DEF Approve
      <3>2. CASE approved
        <4>1. runs' = [runs EXCEPT ![r] = [run EXCEPT !.phase = "approved", !.why = Blank]]
          BY <1>1, <3>1, <3>2 DEF RunsShaped
        <4> QED  BY <4>1
      <3>3. CASE ~approved
        <4>1. runs' = [runs EXCEPT ![r] = [run EXCEPT !.phase = "failed", !.why = "rejected"]]
          BY <1>1, <3>1, <3>3 DEF RunsShaped
        <4> QED  BY <4>1
      <3> QED  BY <3>2, <3>3
    <2>2. CASE Resume(r)
      <3>1. runs' = [runs EXCEPT ![r] = [run EXCEPT !.phase = "running", !.policy = workspace]]
        BY <1>1, <2>2 DEF Resume, RunsShaped
      <3> QED  BY <3>1
    <2> QED  BY <2>1, <2>2
  <1>4. /\ next.at = run.at /\ next.payload = run.payload /\ next.said = run.said /\ next.sent = run.sent
        /\ \/ next.phase \in {"approved", "running"} /\ next.why = Blank
           \/ next.phase = "failed" /\ next.why = "rejected"
    BY <1>2, <1>3 DEF RunFields, Proceeds, OnPath
  <1>5. "template" # Blank
    BY Zenon DEF Blank
  <1>6. Proceeds(next)
    BY <1>2, <1>4, <1>5 DEF Proceeds, OnPath, Counts, Bounded, Spoke, Carries
  <1>7. UNCHANGED <<nodes, published>>
    BY DEF Approve, Resume, flowVars
  <1> QED  BY <1>2, <1>3, <1>6, <1>7, RunProceeds

\* The draft keeps to the catalog.
LEMMA CatalogReplies ==
    ASSUME NEW filled, NEW type \in Replies
    PROVE  /\ "messageTemplate" \in DOMAIN BuildNodeCatalog(filled)[type].defaults
           /\ BuildNodeCatalog(filled)[type].defaults.messageTemplate \in ReplyTemplates
           /\ "messageTemplate" \in DOMAIN BuildNodeCatalog(filled)[type].offered
           /\ BuildNodeCatalog(filled)[type].offered["messageTemplate"] = ReplyTemplates
  <1>1. type \in DOMAIN NODE_CATALOG
    BY DEF NODE_CATALOG, Replies
  <1>2. PICK entry : entry = NODE_CATALOG[type]
    OBVIOUS
  <1>3. entry = ChannelReplyStep \/ entry = ChannelRouteStep
    BY <1>2 DEF NODE_CATALOG, Replies
  <1>4. /\ DOMAIN entry = {"inputs", "outputs", "defaults", "offered"}
        /\ "messageTemplate" \in DOMAIN entry.defaults
        /\ entry.defaults.messageTemplate = "{{replyText}}"
        /\ "messageTemplate" \in DOMAIN entry.offered
        /\ entry.offered["messageTemplate"] = ReplyTemplates
    <2>1. CASE entry = ChannelReplyStep
      BY <2>1 DEF ChannelReplyStep, Entry, ReplyTemplates
    <2>2. CASE entry = ChannelRouteStep
      BY <2>2 DEF ChannelRouteStep, Entry, ReplyTemplates
    <2> QED  BY <1>3, <2>1, <2>2
  <1>5. BuildNodeCatalog(filled)[type] =
          [entry EXCEPT !.defaults = PrefilledDefaults(type, entry.defaults, filled),
                        !.offered  = [key \in DOMAIN entry.offered |->
                                        PrefilledOptions(key, entry.offered[key], filled)]]
    BY <1>1, <1>2, <1>4 DEF BuildNodeCatalog
  <1>6. /\ BuildNodeCatalog(filled)[type].defaults = PrefilledDefaults(type, entry.defaults, filled)
        /\ BuildNodeCatalog(filled)[type].offered =
             [key \in DOMAIN entry.offered |-> PrefilledOptions(key, entry.offered[key], filled)]
    BY <1>4, <1>5
  <1>7. ASSUME NEW defaults, NEW key, NEW value, key # "messageTemplate"
        PROVE  /\ DOMAIN FillBlank(defaults, key, value) = DOMAIN defaults
               /\ DOMAIN ReplaceDefault(defaults, key, value) = DOMAIN defaults
               /\ "messageTemplate" \in DOMAIN defaults =>
                    /\ FillBlank(defaults, key, value).messageTemplate = defaults.messageTemplate
                    /\ ReplaceDefault(defaults, key, value).messageTemplate = defaults.messageTemplate
    BY <1>7 DEF FillBlank, ReplaceDefault
  <1>8. \/ PrefilledDefaults(type, entry.defaults, filled) = entry.defaults
        \/ PrefilledDefaults(type, entry.defaults, filled) =
             ReplaceDefault(FillBlank(entry.defaults, "channelProfileId", filled.preferredProfile),
                            "channelType", filled.preferredChannel)
    BY DEF PrefilledDefaults, Replies
  <1>9. /\ "messageTemplate" \in DOMAIN PrefilledDefaults(type, entry.defaults, filled)
        /\ PrefilledDefaults(type, entry.defaults, filled).messageTemplate = "{{replyText}}"
    <2> DEFINE given == FillBlank(entry.defaults, "channelProfileId", filled.preferredProfile)
    <2>1. "messageTemplate" \in DOMAIN given /\ given.messageTemplate = "{{replyText}}"
      BY <1>4 DEF FillBlank
    <2> HIDE DEF given
    <2>2. /\ "messageTemplate" \in DOMAIN ReplaceDefault(given, "channelType", filled.preferredChannel)
          /\ ReplaceDefault(given, "channelType", filled.preferredChannel).messageTemplate = "{{replyText}}"
      BY <1>7, <2>1
    <2> QED  BY <1>4, <1>8, <2>2 DEF given
  <1>10. PrefilledOptions("messageTemplate", entry.offered["messageTemplate"], filled)
           = entry.offered["messageTemplate"]
    BY DEF PrefilledOptions
  <1> QED  BY <1>4, <1>6, <1>9, <1>10 DEF ReplyTemplates

LEMMA DrawsWell ==
    ASSUME NEW path \in Paths, Draw(path)
    PROVE  Drawn
  <1>1. path \in Seq(DOMAIN NODE_CATALOG) /\ \A i \in DOMAIN path : path[i] \in TriggerKinds => i = 1
    BY PathsAssumption
  <1>2. nodes = [i \in DOMAIN path |-> NewNode(BuildNodeCatalog(prefill), path[i])]
    BY DEF Draw
  <1>3. PICK n \in Nat : n = Len(path) /\ DOMAIN path = 1..n
    BY <1>1
  <1>4. DOMAIN nodes = 1..n /\ Len(nodes) = n
    <2>1. nodes \in Seq({nodes[i] : i \in 1..n})
      BY <1>2, <1>3, IsASeq
    <2> QED  BY <1>2, <1>3, <2>1
  <1>5. ASSUME NEW i \in DOMAIN nodes
        PROVE  /\ DOMAIN nodes[i] = {"type", "data"} /\ nodes[i].type = path[i]
               /\ nodes[i].data = BuildNodeCatalog(prefill)[path[i]].defaults
    BY <1>2 DEF NewNode
  <1> QED  BY <1>1, <1>3, <1>4, <1>5, CatalogReplies DEF Drawn

LEMMA EditsWell ==
    ASSUME Drawn, NEW i \in DOMAIN nodes, EditField(i)
    PROVE  Drawn'
  <1>1. PICK offered : offered = Offered(BuildNodeCatalog(prefill), nodes[i], Scopes(nodes[i]))
    OBVIOUS
  <1>2. PICK key, value : /\ key \in DOMAIN offered /\ value \in offered[key]
                          /\ nodes' = [nodes EXCEPT ![i].data[key] = value]
    BY <1>1 DEF EditField
  <1>3. PICK node : node = [nodes[i] EXCEPT !.data = [nodes[i].data EXCEPT ![key] = value]]
    OBVIOUS
  <1>4. /\ DOMAIN node = {"type", "data"} /\ node.type = nodes[i].type
        /\ node.data = [nodes[i].data EXCEPT ![key] = value]
    BY <1>3 DEF Drawn
  <1>5. nodes' = [nodes EXCEPT ![i] = node]
    BY <1>2, <1>3
  <1>6. DOMAIN nodes' = DOMAIN nodes /\ \A j \in DOMAIN nodes : nodes'[j] = IF j = i THEN node ELSE nodes[j]
    BY <1>5
  <1>7. Len(nodes') = Len(nodes)
    <2>1. PICK n \in Nat : n = Len(nodes) /\ DOMAIN nodes = 1..n
      BY DEF Drawn
    <2>2. nodes' = [j \in 1..n |-> IF j = i THEN node ELSE nodes[j]]
      BY <1>5, <2>1
    <2>3. PICK S : \A j \in 1..n : (IF j = i THEN node ELSE nodes[j]) \in S
      <3>1. PICK S : S = {IF j = i THEN node ELSE nodes[j] : j \in 1..n}
        OBVIOUS
      <3> QED  BY <3>1
    <2>4. [j \in 1..n |-> IF j = i THEN node ELSE nodes[j]] \in Seq(S)
      BY <2>3, IsASeq
    <2> QED  BY <2>1, <2>2, <2>4
  <1>8. key = "messageTemplate" /\ nodes[i].type \in Replies => value \in ReplyTemplates
    <2> SUFFICES ASSUME key = "messageTemplate", nodes[i].type \in Replies PROVE value \in ReplyTemplates
      OBVIOUS
    <2>1. nodes[i].type # "trigger.cron"
      BY DEF Replies
    <2>2. PICK options : options = BuildNodeCatalog(prefill)[nodes[i].type].offered
      OBVIOUS
    <2>3. options["messageTemplate"] = ReplyTemplates
      BY <2>2, CatalogReplies
    <2>4. offered[key] \subseteq options[key]
      <3>1. offered = [k \in {q \in DOMAIN options : Shown(nodes[i].type, q, nodes[i].data)} |->
                         IF k \in DOMAIN Scopes(nodes[i])
                         THEN ResolveFieldOptions(options[k], Scopes(nodes[i])[k]) ELSE options[k]]
        BY <1>1, <2>1, <2>2 DEF Offered
      <3>2. \A scoped : ResolveFieldOptions(options[key], scoped) \subseteq options[key]
        BY DEF ResolveFieldOptions
      <3> QED  BY <1>2, <3>1, <3>2
    <2> QED  BY <1>2, <2>3, <2>4
  <1>9. node.type \in Replies => /\ "messageTemplate" \in DOMAIN node.data
                                 /\ node.data.messageTemplate \in ReplyTemplates
    BY <1>4, <1>8 DEF Drawn
  <1> QED  BY <1>4, <1>6, <1>7, <1>9 DEF Drawn

LEMMA PathInitially == Init => PathInv
  <1> SUFFICES ASSUME Init PROVE PathInv
    OBVIOUS
  <1>1. PICK path \in Paths : Draw(path)
    BY DEF Init
  <1>2. Drawn
    BY <1>1, DrawsWell
  <1>3. \A r \in Runs : runs[r] = NoRun
    BY DEF Init
  <1> QED  BY <1>2, <1>3, NoRunProceeds DEF PathInv

LEMMA PathUntouched ==
    ASSUME PathInv, UNCHANGED <<nodes, published, runs>>
    PROVE  PathInv'
  <1>1. ASSUME NEW r \in Runs PROVE Proceeds(runs[r])'
    <2>1. PICK run : run = runs[r]
      OBVIOUS
    <2>2. Proceeds(run)'
      BY <2>1, SamePath DEF PathInv
    <2> QED  BY <2>1, <2>2
  <1>2. Drawn'
    BY DEF PathInv, Drawn
  <1> QED  BY <1>1, <1>2 DEF PathInv

LEMMA PathInductive == RunsShaped /\ PathInv /\ [Next]_vars => PathInv'
  <1> SUFFICES ASSUME RunsShaped, PathInv, [Next]_vars PROVE PathInv'
    OBVIOUS
  <1>1. CASE UNCHANGED vars
    BY <1>1, PathUntouched DEF vars, flowVars
  <1>2. ASSUME NEW i \in DOMAIN nodes, EditField(i) PROVE PathInv'
    <2>1. ~published /\ UNCHANGED <<published, runs>>
      BY <1>2 DEF EditField
    <2>2. Drawn'
      BY <1>2, EditsWell DEF PathInv
    <2>3. \A r \in Runs : runs'[r] = NoRun
      BY <2>1 DEF PathInv
    <2>4. ASSUME NEW r \in Runs PROVE Proceeds(runs[r])'
      BY <2>3, NoRunProceeds
    <2> QED  BY <2>2, <2>3, <2>4 DEF PathInv
  <1>3. CASE Publish
    <2>1. published' /\ UNCHANGED <<nodes, runs>>
      BY <1>3 DEF Publish
    <2>2. ASSUME NEW r \in Runs PROVE Proceeds(runs[r])'
      <3>1. PICK run : run = runs[r]
        OBVIOUS
      <3>2. Proceeds(run)'
        BY <2>1, <3>1, SamePath DEF PathInv
      <3> QED  BY <2>1, <3>1, <3>2
    <2>3. Drawn'
      BY <2>1 DEF PathInv, Drawn
    <2> QED  BY <2>1, <2>2, <2>3 DEF PathInv
  <1>4. ASSUME NEW policy, UpdateExecPolicy(policy) \/ RestartAdapter(policy) PROVE PathInv'
    BY <1>4, PathUntouched DEF UpdateExecPolicy, RestartAdapter, flowVars
  <1>5. ASSUME NEW s, ChannelsChange(s) PROVE PathInv'
    BY <1>5, PathUntouched DEF ChannelsChange, flowVars
  <1>6. CASE ProfileRequest
    BY <1>6, PathUntouched DEF ProfileRequest, flowVars
  <1>7. CASE FireJob
    <2>1. UNCHANGED <<nodes, published>>
      BY <1>7 DEF FireJob
    <2>2. \/ UNCHANGED runs
          \/ \E r \in Runs : \E job : Begin(r, {EventOfJob(job)}, Payload(NoFields, NoFields, 0))
      BY <1>7 DEF FireJob
    <2>3. ASSUME NEW r \in Runs, NEW job, Begin(r, {EventOfJob(job)}, Payload(NoFields, NoFields, 0))
          PROVE  PathInv'
      <3>1. EventOfJob(job).type = "cron" /\ "cron" \in DOMAIN TriggerOfEvent
        BY DEF EventOfJob, TriggerOfEvent
      <3>2. Shaped(Payload(NoFields, NoFields, 0))
        BY Built
      <3> QED  BY <2>1, <2>3, <3>1, <3>2, BeginProceeds
    <2> QED  BY <2>1, <2>2, <2>3, PathUntouched
  <1>8. ASSUME NEW r \in Runs, StartRun(r) PROVE PathInv'
    <2>1. PICK payload \in Payloads : Begin(r, Events \cup {BuildTriggerPlan(nodes)}, payload)
      BY <1>8 DEF StartRun
    <2>2. Shaped(payload)
      BY PayloadsAssumption DEF Shaped
    <2>3. \A event \in Events \cup {BuildTriggerPlan(nodes)} :
            event.type \in DOMAIN TriggerOfEvent \cup {"manual"}
      BY EventsAssumption, PlanIsKnown
    <2>4. UNCHANGED <<nodes, published>>
      BY <1>8 DEF StartRun, flowVars
    <2> QED  BY <2>1, <2>2, <2>3, <2>4, BeginProceeds
  <1>9. ASSUME NEW r \in Runs, Approve(r) \/ Resume(r) \/ Step(r) PROVE PathInv'
    BY <1>9, DecisionProceeds, StepProceeds
  <1> QED  BY <1>1, <1>2, <1>3, <1>4, <1>5, <1>6, <1>7, <1>8, <1>9 DEF Next

LEMMA Shaping == Spec => []RunsShaped
  <1>1. MemoryInv => RunsShaped
    BY DEF MemoryInv
  <1> QED  BY <1>1, MemoryInitially, MemoryInductive, PTL DEF Spec

LEMMA Advancing == Spec => []PathInv
  BY PathInitially, PathInductive, Shaping, PTL DEF Spec

\* Handoffs right after one another are counted by the payload each leaves for
\* the next (readDelegationDepth and the agent-send handler of flow-executor.ts
\* 611, 2493): whatever the path, the fields and the payloads are, no step runs
\* deeper than it allows.
THEOREM HandingOff == Spec => []HandoffsBounded
  <1>1. PathInv => HandoffsBounded
    BY DEF PathInv, Proceeds, Bounded, HandoffsBounded
  <1> QED  BY <1>1, Advancing, PTL

\* A reply to what was just said, or was said one step before, has it to say,
\* and goes out on the channel that was asked for when there are several
\* (flow-executor.ts 1362, openclaw.ts 1548), whatever the gateway answers.
THEOREM Arriving == Spec => []RepliesArrive
  <1>1. PathInv => RepliesArrive
    <2> SUFFICES ASSUME PathInv PROVE ReplyCarriesText /\ DeliversAsAsked
      BY DEF RepliesArrive
    <2>1. ReplyCarriesText
      BY DEF PathInv, Proceeds, Carries, ReplyCarriesText, Current
    <2>2. DeliversAsAsked
      BY DEF PathInv, Proceeds, Delivers, DeliversAsAsked
    <2> QED  BY <2>1, <2>2
  <1> QED  BY <1>1, Advancing, PTL

-----------------------------------------------------------------------------
(* What a publication has checked.                                         *)

\* The draft has the fields of the catalog, and a Shape Payload step one of
\* its modes.
ShapeModes == {"replace", "merge", "assign"}
Configured ==
    \A i \in DOMAIN nodes :
        /\ nodes[i].type \in DOMAIN NODE_CATALOG
        /\ DOMAIN nodes[i].data = DOMAIN NODE_CATALOG[nodes[i].type].defaults
        /\ nodes[i].type = "tool.payload-template" => nodes[i].data.outputMode \in ShapeModes

\* What is published has one trigger and was let through; as long as no policy
\* has changed, it would be again.
Checked ==
    published =>
        /\ Cardinality(GetExecutableTriggerNodes(nodes)) = 1
        /\ ValidateFlowSemantics(nodes, Edges)
        /\ changed \/ ValidateExecPublishPolicy(adapter, workspace, {nodes[i] : i \in DOMAIN nodes})

\* A job is what its trigger made it, switched on or off.
Made(job) ==
    \E built \in ReadFlowCronTriggerNodes(nodes), enabled \in BOOLEAN : job = [built EXCEPT !.enabled = enabled]

Sole(t) == GetExecutableTriggerNodes(nodes) = {t} /\ t \in DOMAIN nodes /\ nodes[t].type \in TriggerKinds

LEMMA OneTrigger ==
    ASSUME Drawn, Cardinality(GetExecutableTriggerNodes(nodes)) = 1
    PROVE  \E t : Sole(t)
  <1>1. IsFiniteSet(1..Len(nodes))
    BY FS_Interval DEF Drawn
  <1>2. GetExecutableTriggerNodes(nodes) \in SUBSET (1..Len(nodes))
    BY DEF GetExecutableTriggerNodes, Drawn
  <1>3. IsFiniteSet(GetExecutableTriggerNodes(nodes))
    BY <1>1, <1>2, FS_Subset
  <1>4. PICK t : GetExecutableTriggerNodes(nodes) = {t}
    BY <1>3, FS_Singleton
  <1> QED  BY <1>4 DEF Sole, GetExecutableTriggerNodes

\* An event of the trigger's kind enters exactly where its values are accepted.
LEMMA EntersSole ==
    ASSUME NEW t, Sole(t), NEW event, event.type \in DOMAIN TriggerOfEvent,
           TriggerOfEvent[event.type] = nodes[t].type
    PROVE  (ResolveExecutionEntryTrigger(nodes, event) = {t}) <=> TriggerMatches(nodes[t], event.values)
  <1>1. GetTriggerNodesByType(nodes, nodes[t].type) = {t}
    BY DEF Sole, GetExecutableTriggerNodes, GetTriggerNodesByType
  <1>2. event.type # "manual"
    BY DEF TriggerOfEvent
  <1>3. Candidates(nodes, event) = {id \in {t} : TriggerMatches(nodes[id], event.values)}
    BY <1>1, <1>2 DEF Candidates
  <1>4. CASE TriggerMatches(nodes[t], event.values)
    <2>1. Candidates(nodes, event) = {t}
      BY <1>3, <1>4
    <2> QED  BY <1>4, <2>1, FS_Singleton DEF ResolveExecutionEntryTrigger
  <1>5. CASE ~TriggerMatches(nodes[t], event.values)
    <2>1. Candidates(nodes, event) = {}
      BY <1>3, <1>5
    <2> QED  BY <1>5, <2>1 DEF ResolveExecutionEntryTrigger
  <1> QED  BY <1>4, <1>5

\* What an event says, field by field.
LEMMA Says ==
    /\ \A e : EventWith("webhook", [eventName |-> e]).values.eventName = e
    /\ \A c, k, x : LET v == EventWith("channel", [channel |-> c, routeKey |-> k, text |-> x]).values
                    IN  v.channel = c /\ v.routeKey = k /\ v.text = x
    /\ \A s, z : LET v == EventWith("cron", [schedule |-> s, timezone |-> z]).values
                 IN  v.schedule = s /\ v.timezone = z
    /\ \A h, x : LET v == EventWith("hook", [hookName |-> h, text |-> x]).values
                 IN  v.hookName = h /\ v.text = x
    /\ \A y, q, p : LET v == EventWith("task", [taskType |-> y, taskQueue |-> q, taskPriority |-> p]).values
                    IN  v.taskType = y /\ v.taskQueue = q /\ v.taskPriority = p
    /\ \A k, s : LET v == EventWith("order", [standingOrderKey |-> k, standingOrderScope |-> s]).values
                 IN  v.standingOrderKey = k /\ v.standingOrderScope = s
  <1>1. \A e : EventWith("webhook", [eventName |-> e]).values.eventName = e
    BY DEF EventWith, Silent
  <1>2. \A c, k, x : LET v == EventWith("channel", [channel |-> c, routeKey |-> k, text |-> x]).values
                     IN  v.channel = c /\ v.routeKey = k /\ v.text = x
    BY DEF EventWith, Silent
  <1>3. \A s, z : LET v == EventWith("cron", [schedule |-> s, timezone |-> z]).values
                  IN  v.schedule = s /\ v.timezone = z
    BY DEF EventWith, Silent
  <1>4. \A h, x : LET v == EventWith("hook", [hookName |-> h, text |-> x]).values
                  IN  v.hookName = h /\ v.text = x
    BY DEF EventWith, Silent
  <1>5. \A y, q, p : LET v == EventWith("task", [taskType |-> y, taskQueue |-> q, taskPriority |-> p]).values
                     IN  v.taskType = y /\ v.taskQueue = q /\ v.taskPriority = p
    BY DEF EventWith, Silent
  <1>6. \A k, s : LET v == EventWith("order", [standingOrderKey |-> k, standingOrderScope |-> s]).values
                  IN  v.standingOrderKey = k /\ v.standingOrderScope = s
    BY DEF EventWith, Silent
  <1> QED  BY <1>1, <1>2, <1>3, <1>4, <1>5, <1>6

LEMMA ChannelSays ==
    ASSUME NEW c, NEW k, NEW x,
           NEW event, event = EventWith("channel", [channel |-> c, routeKey |-> k, text |-> x])
    PROVE  event.values.channel = c /\ event.values.routeKey = k /\ event.values.text = x
  BY DEF EventWith, Silent

\* The fields a trigger has.
LEMMA TriggerFields ==
    ASSUME Configured, NEW t \in DOMAIN nodes
    PROVE  LET fields == DOMAIN nodes[t].data
           IN  /\ nodes[t].type = "trigger.webhook" => fields = {"eventName"}
               /\ nodes[t].type = "trigger.channel" => fields = {"channelType", "routeKey", "messagePattern"}
               /\ nodes[t].type = "trigger.cron" => {"scheduleKind", "schedule", "timezone"} \subseteq fields
               /\ nodes[t].type = "trigger.hook" => fields = {"hookName", "filter"}
               /\ nodes[t].type = "trigger.task" => fields = {"taskType", "taskQueue", "taskPriority"}
               /\ nodes[t].type = "trigger.standing-order" =>
                    fields = {"standingOrderKey", "standingOrderScope"}
  <1> PICK type, fields : type = nodes[t].type /\ fields = DOMAIN nodes[t].data
    OBVIOUS
  <1>1. type \in DOMAIN NODE_CATALOG /\ fields = DOMAIN NODE_CATALOG[type].defaults
    BY DEF Configured
  <1>2. CASE type = "trigger.webhook"
    <2>1. NODE_CATALOG[type] = Webhook
      BY <1>1, <1>2 DEF NODE_CATALOG
    <2> QED  BY <1>1, <1>2, <2>1 DEF Webhook, Entry
  <1>3. CASE type = "trigger.channel"
    <2>1. NODE_CATALOG[type] = ChannelMessage
      BY <1>1, <1>3 DEF NODE_CATALOG
    <2> QED  BY <1>1, <1>3, <2>1 DEF ChannelMessage, Entry
  <1>4. CASE type = "trigger.cron"
    <2>1. NODE_CATALOG[type] = CronSchedule
      BY <1>1, <1>4 DEF NODE_CATALOG
    <2> QED  BY <1>1, <1>4, <2>1 DEF CronSchedule, Entry
  <1>5. CASE type = "trigger.hook"
    <2>1. NODE_CATALOG[type] = Hook
      BY <1>1, <1>5 DEF NODE_CATALOG
    <2> QED  BY <1>1, <1>5, <2>1 DEF Hook, Entry
  <1>6. CASE type = "trigger.task"
    <2>1. NODE_CATALOG[type] = Task
      BY <1>1, <1>6 DEF NODE_CATALOG
    <2> QED  BY <1>1, <1>6, <2>1 DEF Task, Entry
  <1>7. CASE type = "trigger.standing-order"
    <2>1. NODE_CATALOG[type] = StandingOrder
      BY <1>1, <1>7 DEF NODE_CATALOG
    <2> QED  BY <1>1, <1>7, <2>1 DEF StandingOrder, Entry
  <1> QED  BY <1>2, <1>3, <1>4, <1>5, <1>6, <1>7

LEMMA TriggerCases ==
    ASSUME NEW t, Sole(t)
    PROVE  /\ t \in DOMAIN nodes
           /\ nodes[t].type \in {"trigger.webhook", "trigger.channel", "trigger.cron", "trigger.hook",
                                 "trigger.task", "trigger.standing-order"}
  BY DEF Sole, TriggerKinds, TriggerOfEvent

\* What a published trigger was checked for: its schedule, if it has one, is
\* one that the panel was told to fill in.
LEMMA CronIsFilled ==
    ASSUME ValidateFlowSemantics(nodes, Edges), NEW t \in DOMAIN nodes, nodes[t].type = "trigger.cron",
           nodes[t].data.scheduleKind = "cron"
    PROVE  nodes[t].data.schedule # Blank
  <1>1. ValidCronTrigger(nodes[t].data)
    BY DEF ValidateFlowSemantics, SemanticallyValid
  <1>2. Len(CronFields[nodes[t].data.schedule]) = 5
    BY <1>1 DEF ValidCronTrigger, ValidateCronExpression
  <1>3. Len(CronFields[Blank]) = 0
    BY SchedulesAssumption
  <1>4. ASSUME nodes[t].data.schedule = Blank PROVE 0 = 5
    BY <1>2, <1>3, <1>4, Zenon
  <1> QED  BY <1>4

LEMMA Placeholders ==
    /\ "other" # Blank /\ "UTC" # Blank /\ "whatsapp" # Blank /\ "order 42" # Blank
    /\ "hook.sample.received" # Blank /\ "received" # Blank /\ "inbox-triage" # Blank /\ "normal" # Blank
    /\ "daily-inbox-triage" # Blank /\ "default" # Blank /\ "global" # Blank /\ "own" # Blank
    /\ "Run the scheduled task" # Blank /\ "Scheduled wakeup" # Blank /\ "cron" # Blank
  BY Zenon DEF Blank

\* What each trigger asks for its route can be sent.
LEMMA RouteReaches ==
    ASSUME Configured, ValidateFlowSemantics(nodes, Edges), NEW t, Sole(t)
    PROVE  \E type \in DOMAIN TriggerOfEvent :
             /\ TriggerOfEvent[type] = nodes[t].type
             /\ \E event \in RequestsOfType(type, "route", TextsOf(nodes[t].data)) :
                  ResolveExecutionEntryTrigger(nodes, event) = {t}
  <1> PICK node, data, texts : node = nodes[t] /\ data = nodes[t].data /\ texts = TextsOf(nodes[t].data)
    OBVIOUS
  <1>0. /\ "other" \in texts
        /\ \A f \in DOMAIN data \cap ({"channelType", "messagePattern", "filter"} \cup DOMAIN Silent) :
             data[f] \in texts
    BY DEF TextsOf
  <1>1. ASSUME NEW text \in texts
        PROVE  \E filled \in texts : filled # Blank /\ AsConfigured(text, filled)
    <2>1. CASE text = Blank
      BY <1>0, <2>1, Placeholders DEF AsConfigured
    <2>2. CASE text # Blank
      BY <2>2 DEF AsConfigured
    <2> QED  BY <2>1, <2>2
  <1>2. \A text : AsConfigured(text, text)
    BY DEF AsConfigured
  <1>3. ASSUME NEW type \in DOMAIN TriggerOfEvent, TriggerOfEvent[type] = node.type,
               NEW event \in RequestsOfType(type, "route", texts), event.type = type,
               TriggerMatches(node, event.values)
        PROVE  \E kind \in DOMAIN TriggerOfEvent :
                 /\ TriggerOfEvent[kind] = node.type
                 /\ \E e \in RequestsOfType(kind, "route", texts) :
                      ResolveExecutionEntryTrigger(nodes, e) = {t}
    BY <1>3, EntersSole
  <1>4. CASE node.type = "trigger.webhook"
    <2>1. data.eventName \in texts
      BY <1>0, <1>4, TriggerFields, TriggerCases DEF Silent
    <2>2. PICK event : event = EventWith("webhook", [eventName |-> data.eventName])
      OBVIOUS
    <2>3. event \in RequestsOfType("webhook", "route", texts) /\ event.type = "webhook"
      BY <2>1, <2>2, EventTypes DEF RequestsOfType, FlowWebhooks
    <2>4. TriggerMatches(node, event.values)
      BY <1>2, <1>4, <2>2, Says DEF TriggerMatches, WebhookTriggerMatches
    <2> QED  BY <1>3, <1>4, <2>3, <2>4 DEF TriggerOfEvent
  <1>5. CASE node.type = "trigger.channel"
    <2>1. data.channelType \in texts /\ data.routeKey \in texts /\ data.messagePattern \in texts
      BY <1>0, <1>5, TriggerFields, TriggerCases DEF Silent
    <2>2. PICK c \in texts : c # Blank /\ AsConfigured(data.channelType, c)
      BY <1>1, <2>1
    <2>3. PICK event : event = EventWith("channel", [channel |-> c, routeKey |-> data.routeKey,
                                                     text |-> data.messagePattern])
      OBVIOUS
    <2>4. event \in RequestsOfType("channel", "route", texts) /\ event.type = "channel"
      BY <2>1, <2>2, <2>3, EventTypes DEF RequestsOfType, ChannelEvents, Insisted
    <2>5. TriggerMatches(node, event.values)
      BY <1>2, <1>5, <2>2, <2>3, Says DEF TriggerMatches, ChannelTriggerMatches
    <2> QED  BY <1>3, <1>5, <2>4, <2>5 DEF TriggerOfEvent
  <1>6. CASE node.type = "trigger.cron"
    <2>1. data.schedule \in texts /\ data.timezone \in texts
      BY <1>0, <1>6, TriggerFields, TriggerCases DEF Silent
    <2>2. PICK zone : zone = IF data.timezone = Blank THEN "UTC" ELSE data.timezone
      OBVIOUS
    <2>3. PICK event : event = EventWith("cron", [schedule |-> data.schedule, timezone |-> zone])
      OBVIOUS
    <2>4. event \in RequestsOfType("cron", "route", texts) /\ event.type = "cron"
      BY <2>1, <2>2, <2>3, EventTypes DEF RequestsOfType, CronEvents
    <2>5. event.values.schedule = data.schedule /\ event.values.timezone = zone
      BY <2>3, Says
    <2>6. data.scheduleKind = "cron" => data.schedule # Blank
      BY <1>6, CronIsFilled, TriggerCases
    <2>7. CronTriggerMatches(data, event.values)
      BY <2>2, <2>5, <2>6, Placeholders DEF CronTriggerMatches, GetCronTriggerTimezone
    <2>8. TriggerMatches(node, event.values)
      BY <1>6, <2>7 DEF TriggerMatches
    <2> QED  BY <1>3, <1>6, <2>4, <2>8 DEF TriggerOfEvent
  <1>7. CASE node.type = "trigger.hook"
    <2>1. data.hookName \in texts /\ data.filter \in texts
      BY <1>0, <1>7, TriggerFields, TriggerCases DEF Silent
    <2>2. PICK h \in texts : h # Blank /\ AsConfigured(data.hookName, h)
      BY <1>1, <2>1
    <2>3. PICK event : event = EventWith("hook", [hookName |-> h, text |-> data.filter])
      OBVIOUS
    <2>4. event \in RequestsOfType("hook", "route", texts) /\ event.type = "hook"
      BY <2>1, <2>2, <2>3, EventTypes DEF RequestsOfType, HookEvents, Insisted
    <2>5. TriggerMatches(node, event.values)
      BY <1>2, <1>7, <2>2, <2>3, Says DEF TriggerMatches, HookTriggerMatches
    <2> QED  BY <1>3, <1>7, <2>4, <2>5 DEF TriggerOfEvent
  <1>8. CASE node.type = "trigger.task"
    <2>1. data.taskType \in texts /\ data.taskQueue \in texts /\ data.taskPriority \in texts
      BY <1>0, <1>8, TriggerFields, TriggerCases DEF Silent
    <2>2. PICK y \in texts : y # Blank /\ AsConfigured(data.taskType, y)
      BY <1>1, <2>1
    <2>3. PICK event : event = EventWith("task", [taskType |-> y, taskQueue |-> data.taskQueue,
                                                  taskPriority |-> data.taskPriority])
      OBVIOUS
    <2>4. event \in RequestsOfType("task", "route", texts) /\ event.type = "task"
      BY <2>1, <2>2, <2>3, EventTypes DEF RequestsOfType, TaskEvents, Insisted
    <2>5. TriggerMatches(node, event.values)
      BY <1>2, <1>8, <2>2, <2>3, Says DEF TriggerMatches, TaskTriggerMatches
    <2> QED  BY <1>3, <1>8, <2>4, <2>5 DEF TriggerOfEvent
  <1>9. CASE node.type = "trigger.standing-order"
    <2>1. data.standingOrderKey \in texts /\ data.standingOrderScope \in texts
      BY <1>0, <1>9, TriggerFields, TriggerCases DEF Silent
    <2>2. PICK k \in texts : k # Blank /\ AsConfigured(data.standingOrderKey, k)
      BY <1>1, <2>1
    <2>3. PICK event : event = EventWith("order", [standingOrderKey |-> k,
                                                   standingOrderScope |-> data.standingOrderScope])
      OBVIOUS
    <2>4. event \in RequestsOfType("order", "route", texts) /\ event.type = "order"
      BY <2>1, <2>2, <2>3, EventTypes DEF RequestsOfType, StandingOrderEvents, Insisted
    <2>5. TriggerMatches(node, event.values)
      BY <1>2, <1>9, <2>2, <2>3, Says DEF TriggerMatches, StandingOrderTriggerMatches
    <2> QED  BY <1>3, <1>9, <2>4, <2>5 DEF TriggerOfEvent
  <1> QED  BY <1>4, <1>5, <1>6, <1>7, <1>8, <1>9, TriggerCases
\* The sample of a draft speaks as its trigger asks.
LEMMA SampleMatches ==
    ASSUME ValidateFlowSemantics(nodes, Edges), NEW t, Sole(t)
    PROVE  LET sample == TriggerPlanOf(nodes[t])
           IN  /\ sample.type \in DOMAIN TriggerOfEvent /\ TriggerOfEvent[sample.type] = nodes[t].type
               /\ TriggerMatches(nodes[t], sample.values)
  <1> PICK node, data, sample : node = nodes[t] /\ data = nodes[t].data /\ sample = TriggerPlanOf(nodes[t])
    OBVIOUS
  <1>1. \A text, example : AsConfigured(text, SampleText(text, example)) /\ AsConfigured(text, text)
    BY DEF AsConfigured, SampleText
  <1>2. CASE node.type = "trigger.webhook"
    <2>1. sample = EventWith("webhook", [eventName |-> data.eventName])
      BY <1>2 DEF TriggerPlanOf
    <2>2. TriggerMatches(node, sample.values)
      BY <1>1, <1>2, <2>1, Says DEF TriggerMatches, WebhookTriggerMatches
    <2> QED  BY <1>2, <2>1, <2>2, EventTypes DEF TriggerOfEvent
  <1>3. CASE node.type = "trigger.channel"
    <2>1. sample = EventWith("channel", [channel  |-> SampleText(data.channelType, "whatsapp"),
                                         routeKey |-> data.routeKey,
                                         text     |-> SampleText(data.messagePattern, "order 42")])
      BY <1>3 DEF TriggerPlanOf
    <2>2. /\ sample.values.channel = SampleText(data.channelType, "whatsapp")
          /\ sample.values.routeKey = data.routeKey
          /\ sample.values.text = SampleText(data.messagePattern, "order 42")
      <3>1. PICK c, k, x : /\ c = SampleText(data.channelType, "whatsapp") /\ k = data.routeKey
                           /\ x = SampleText(data.messagePattern, "order 42")
        OBVIOUS
      <3>2. sample = EventWith("channel", [channel |-> c, routeKey |-> k, text |-> x])
        BY <2>1, <3>1
      <3>3. sample.values.channel = c /\ sample.values.routeKey = k /\ sample.values.text = x
        BY <3>2, ChannelSays
      <3> QED  BY <3>1, <3>3
    <2>3. ChannelTriggerMatches(data, sample.values)
      BY <1>1, <2>2 DEF ChannelTriggerMatches
    <2>4. sample.type = "channel"
      BY <2>1, EventTypes
    <2> QED  BY <1>3, <2>3, <2>4 DEF TriggerOfEvent, TriggerMatches
  <1>4. CASE node.type = "trigger.cron"
    <2>1. PICK zone : zone = IF data.scheduleKind = "cron" THEN GetCronTriggerTimezone(data) ELSE Blank
      OBVIOUS
    <2>2. sample = EventWith("cron", [schedule |-> SampleSchedule(data), timezone |-> zone])
      BY <1>4, <2>1 DEF TriggerPlanOf
    <2>3. sample.values.schedule = SampleSchedule(data) /\ sample.values.timezone = zone
      BY <2>2, Says
    <2>4. data.scheduleKind = "cron" => data.schedule # Blank /\ SampleSchedule(data) = data.schedule
      BY <1>4, CronIsFilled, TriggerCases DEF SampleSchedule, SampleText
    <2>5. CronTriggerMatches(data, sample.values)
      BY <2>1, <2>3, <2>4, Placeholders DEF CronTriggerMatches, GetCronTriggerTimezone
    <2>6. TriggerMatches(node, sample.values)
      BY <1>4, <2>5 DEF TriggerMatches
    <2> QED  BY <1>4, <2>2, <2>6, EventTypes DEF TriggerOfEvent
  <1>5. CASE node.type = "trigger.hook"
    <2>1. sample = EventWith("hook", [hookName |-> SampleText(data.hookName, "hook.sample.received"),
                                      text     |-> SampleText(data.filter, "received")])
      BY <1>5 DEF TriggerPlanOf
    <2>2. TriggerMatches(node, sample.values)
      BY <1>1, <1>5, <2>1, Says DEF TriggerMatches, HookTriggerMatches
    <2> QED  BY <1>5, <2>1, <2>2, EventTypes DEF TriggerOfEvent
  <1>6. CASE node.type = "trigger.task"
    <2>1. sample = EventWith("task", [taskType     |-> SampleText(data.taskType, "inbox-triage"),
                                      taskQueue    |-> data.taskQueue,
                                      taskPriority |-> SampleText(data.taskPriority, "normal")])
      BY <1>6 DEF TriggerPlanOf
    <2>2. TriggerMatches(node, sample.values)
      BY <1>1, <1>6, <2>1, Says DEF TriggerMatches, TaskTriggerMatches
    <2> QED  BY <1>6, <2>1, <2>2, EventTypes DEF TriggerOfEvent
  <1>7. CASE node.type = "trigger.standing-order"
    <2>1. sample = EventWith("order", [standingOrderKey   |->
                                          SampleText(data.standingOrderKey, "daily-inbox-triage"),
                                       standingOrderScope |-> data.standingOrderScope])
      BY <1>7 DEF TriggerPlanOf
    <2>2. TriggerMatches(node, sample.values)
      BY <1>1, <1>7, <2>1, Says DEF TriggerMatches, StandingOrderTriggerMatches
    <2> QED  BY <1>7, <2>1, <2>2, EventTypes DEF TriggerOfEvent
  <1> QED  BY <1>2, <1>3, <1>4, <1>5, <1>6, <1>7, TriggerCases

LEMMA SampleEnters ==
    ASSUME Drawn, ValidateFlowSemantics(nodes, Edges), NEW t, Sole(t)
    PROVE  ResolveExecutionEntryTrigger(nodes, BuildTriggerPlan(nodes)) = {t}
  <1>1. t \in Nat /\ GetExecutableTriggerNodes(nodes) = {t}
    BY DEF Sole, Drawn
  <1>2. GetPrimaryTriggerNode(nodes) = {t}
    BY <1>1 DEF GetPrimaryTriggerNode
  <1>3. (CHOOSE id \in GetPrimaryTriggerNode(nodes) : TRUE) = t
    BY <1>2
  <1>4. BuildTriggerPlan(nodes) = TriggerPlanOf(nodes[t])
    BY <1>2, <1>3 DEF BuildTriggerPlan
  <1> QED  BY <1>4, SampleMatches, EntersSole

\* A job's event is accepted by the trigger it was made from.
LEMMA JobEnters ==
    ASSUME NEW t, Sole(t), NEW job, Made(job)
    PROVE  ResolveExecutionEntryTrigger(nodes, EventOfJob(job)) = {job.node}
  <1>1. PICK built \in ReadFlowCronTriggerNodes(nodes), enabled \in BOOLEAN :
          job = [built EXCEPT !.enabled = enabled]
    BY DEF Made
  <1>2. PICK id \in GetTriggerNodesByType(nodes, "trigger.cron") :
          /\ built = CronJobOf(nodes, id)
          /\ BuildCronScheduleFromTriggerData(nodes[id].data) # NoSchedule
    BY <1>1 DEF ReadFlowCronTriggerNodes
  <1>3. id = t /\ nodes[t].type = "trigger.cron"
    BY <1>2 DEF Sole, GetExecutableTriggerNodes, GetTriggerNodesByType, TriggerKinds, TriggerOfEvent
  <1>4. PICK data, schedule : data = nodes[t].data /\ schedule = BuildCronScheduleFromTriggerData(data)
    OBVIOUS
  <1>5. job.node = t /\ job.schedule = schedule
    BY <1>1, <1>2, <1>3, <1>4 DEF CronJobOf
  <1>6. EventOfJob(job).type = "cron" /\ EventOfJob(job).values.schedule = schedule.value
          /\ EventOfJob(job).values.timezone = schedule.timezone
    BY <1>5 DEF EventOfJob
  <1>7. data.scheduleKind = "cron" =>
          data.schedule # Blank /\ schedule.value = data.schedule
            /\ schedule.timezone = GetCronTriggerTimezone(data)
    BY <1>2, <1>3, <1>4 DEF BuildCronScheduleFromTriggerData
  <1>8. CronTriggerMatches(data, EventOfJob(job).values)
    BY <1>6, <1>7, Placeholders DEF CronTriggerMatches, GetCronTriggerTimezone
  <1>9. TriggerMatches(nodes[t], EventOfJob(job).values)
    BY <1>3, <1>4, <1>8 DEF TriggerMatches
  <1>10. "cron" \in DOMAIN TriggerOfEvent /\ TriggerOfEvent["cron"] = "trigger.cron"
    BY DEF TriggerOfEvent
  <1> QED  BY <1>3, <1>5, <1>6, <1>9, <1>10, EntersSole

\* What is spawned or retried in a task flow enters where its first event did,
\* and belongs to the same task flow.
LEMMA ManagedEnter ==
    ASSUME NEW t, Sole(t), NEW type \in {"task", "order"}, TriggerOfEvent[type] = nodes[t].type,
           NEW values, NEW event \in RequestsOfType(type, "route", values),
           ResolveExecutionEntryTrigger(nodes, event) = {t},
           NEW identity, identity = DeriveAutomationIdentity(event),
           NEW source,
           \/ source = event.values
           \/ source = Silent /\ (type = "task" => nodes[t].data.taskPriority = Blank),
           NEW managed, managed = BuildManagedTrigger(identity, source)
    PROVE  /\ identity # NoIdentity
           /\ ResolveExecutionEntryTrigger(nodes, managed) = {t}
           /\ DeriveAutomationIdentity(managed) = identity
  <1> PICK node, data : node = nodes[t] /\ data = nodes[t].data
    OBVIOUS
  <1>1. CASE type = "task"
    <2>1. node.type = "trigger.task"
      BY <1>1 DEF TriggerOfEvent
    <2>2. PICK y, q, p : /\ event = EventWith("task", [taskType |-> y, taskQueue |-> q, taskPriority |-> p])
                         /\ y # Blank
      <3>1. event \in TaskEvents("route", values)
        BY <1>1 DEF RequestsOfType
      <3>2. \E y \in values \ {Blank} : \E q, p \in values :
              event = EventWith("task", [taskType |-> y, taskQueue |-> q, taskPriority |-> p])
        <4>1. Insisted("route", values) = values \ {Blank}
          BY DEF Insisted
        <4> QED  BY <3>1, <4>1, SMT DEF TaskEvents
      <3> QED  BY <3>2
    <2>3. /\ event.type = "task" /\ event.values.taskType = y /\ event.values.taskQueue = q
          /\ event.values.taskPriority = p
      BY <2>2, EventTypes, Says
    <2>4. "task" \in DOMAIN TriggerOfEvent /\ TriggerOfEvent["task"] = node.type
      BY <2>1 DEF TriggerOfEvent
    <2>5. /\ AsConfigured(data.taskType, y) /\ AsConfigured(data.taskQueue, q)
          /\ AsConfigured(data.taskPriority, p)
      <3>1. TriggerMatches(node, event.values)
        BY <2>3, <2>4, EntersSole
      <3> QED  BY <2>1, <2>3, <3>1 DEF TriggerMatches, TaskTriggerMatches
    <2>6. PICK scope : scope = IF q = Blank THEN "default" ELSE q
      OBVIOUS
    <2>7. identity = [type |-> "task", key |-> y, scope |-> scope]
      BY <2>2, <2>3, <2>6 DEF DeriveAutomationIdentity
    <2>8. Silent.taskQueue = Blank /\ Silent.taskPriority = Blank
      BY DEF Silent
    <2>9. PICK priority : priority = source.taskPriority
      OBVIOUS
    <2>10. managed = EventWith("task", [taskType |-> y, taskQueue |-> scope, taskPriority |-> priority])
      BY <2>3, <2>6, <2>7, <2>8, <2>9 DEF BuildManagedTrigger
    <2>11. /\ managed.type = "task" /\ managed.values.taskType = y /\ managed.values.taskQueue = scope
           /\ managed.values.taskPriority = priority
      BY <2>10, EventTypes, Says
    <2>12. AsConfigured(data.taskQueue, scope) /\ AsConfigured(data.taskPriority, priority)
      BY <1>1, <2>3, <2>5, <2>6, <2>8, <2>9 DEF AsConfigured
    <2>13. TriggerMatches(node, managed.values)
      BY <2>1, <2>5, <2>11, <2>12 DEF TriggerMatches, TaskTriggerMatches
    <2>14. scope # Blank
      BY <2>6, Placeholders
    <2>15. DeriveAutomationIdentity(managed) = identity
      BY <2>2, <2>7, <2>11, <2>14 DEF DeriveAutomationIdentity
    <2>16. identity # NoIdentity
      BY <2>7 DEF NoIdentity
    <2> QED  BY <2>4, <2>11, <2>13, <2>15, <2>16, EntersSole
  <1>2. CASE type = "order"
    <2>1. node.type = "trigger.standing-order"
      BY <1>2 DEF TriggerOfEvent
    <2>2. PICK k, s : /\ event = EventWith("order", [standingOrderKey |-> k, standingOrderScope |-> s])
                      /\ k # Blank
      <3>1. event \in StandingOrderEvents("route", values)
        BY <1>2 DEF RequestsOfType
      <3>2. \E k \in values \ {Blank} : \E s \in values :
              event = EventWith("order", [standingOrderKey |-> k, standingOrderScope |-> s])
        <4>1. Insisted("route", values) = values \ {Blank}
          BY DEF Insisted
        <4> QED  BY <3>1, <4>1, SMT DEF StandingOrderEvents
      <3> QED  BY <3>2
    <2>3. /\ event.type = "order" /\ event.values.standingOrderKey = k
          /\ event.values.standingOrderScope = s
      BY <2>2, EventTypes, Says
    <2>4. "order" \in DOMAIN TriggerOfEvent /\ TriggerOfEvent["order"] = node.type
      BY <2>1 DEF TriggerOfEvent
    <2>5. AsConfigured(data.standingOrderKey, k) /\ AsConfigured(data.standingOrderScope, s)
      <3>1. TriggerMatches(node, event.values)
        BY <2>3, <2>4, EntersSole
      <3> QED  BY <2>1, <2>3, <3>1 DEF TriggerMatches, StandingOrderTriggerMatches
    <2>6. PICK scope : scope = IF s = Blank THEN "global" ELSE s
      OBVIOUS
    <2>7. identity = [type |-> "order", key |-> k, scope |-> scope]
      BY <2>2, <2>3, <2>6 DEF DeriveAutomationIdentity
    <2>8. Silent.standingOrderScope = Blank
      BY DEF Silent
    <2>9. managed = EventWith("order", [standingOrderKey |-> k, standingOrderScope |-> scope])
      BY <2>3, <2>6, <2>7, <2>8 DEF BuildManagedTrigger
    <2>10. /\ managed.type = "order" /\ managed.values.standingOrderKey = k
           /\ managed.values.standingOrderScope = scope
      BY <2>9, EventTypes, Says
    <2>11. AsConfigured(data.standingOrderScope, scope)
      BY <2>5, <2>6 DEF AsConfigured
    <2>12. TriggerMatches(node, managed.values)
      BY <2>1, <2>5, <2>10, <2>11 DEF TriggerMatches, StandingOrderTriggerMatches
    <2>13. scope # Blank
      BY <2>6, Placeholders
    <2>14. DeriveAutomationIdentity(managed) = identity
      BY <2>2, <2>7, <2>10, <2>13 DEF DeriveAutomationIdentity
    <2>15. identity # NoIdentity
      BY <2>7 DEF NoIdentity
    <2> QED  BY <2>4, <2>10, <2>12, <2>14, <2>15, EntersSole
  <1> QED  BY <1>1, <1>2

\* What a publication has checked of the draft, its requests and its jobs find.
LEMMA PublishedEnters ==
    ASSUME Drawn, Configured, Checked, published
    PROVE  EveryTriggerIsReached /\ SampleStartsFlow /\ ManagedTasksEnter
  <1>1. Cardinality(GetExecutableTriggerNodes(nodes)) = 1 /\ ValidateFlowSemantics(nodes, Edges)
    BY DEF Checked
  <1>2. PICK t : Sole(t)
    BY <1>1, OneTrigger
  <1>3. GetExecutableTriggerNodes(nodes) = {t}
    BY <1>2 DEF Sole
  <1>4. EveryTriggerIsReached
    BY <1>1, <1>2, <1>3, RouteReaches DEF EveryTriggerIsReached
  <1>5. SampleStartsFlow
    BY <1>1, <1>2, <1>3, SampleEnters DEF SampleStartsFlow
  <1>6. ManagedTasksEnter
    <2> SUFFICES ASSUME NEW type \in {"task", "order"}, TriggerOfEvent[type] = nodes[t].type,
                        NEW event \in RequestsOfType(type, "route", TextsOf(nodes[t].data)),
                        ResolveExecutionEntryTrigger(nodes, event) = {t},
                        NEW identity, identity = DeriveAutomationIdentity(event)
                 PROVE  LET Enters(source) ==
                              LET managed == BuildManagedTrigger(identity, source)
                              IN  /\ ResolveExecutionEntryTrigger(nodes, managed) = {t}
                                  /\ DeriveAutomationIdentity(managed) = identity
                        IN  /\ identity # NoIdentity
                            /\ Enters(event.values)
                            /\ Enters(Silent) \/ (type = "task" /\ nodes[t].data.taskPriority # Blank)
      BY <1>3, Zenon DEF ManagedTasksEnter
    <2>1. /\ identity # NoIdentity
          /\ ResolveExecutionEntryTrigger(nodes, BuildManagedTrigger(identity, event.values)) = {t}
          /\ DeriveAutomationIdentity(BuildManagedTrigger(identity, event.values)) = identity
      BY <1>2, ManagedEnter
    <2>2. CASE type = "task" /\ nodes[t].data.taskPriority # Blank
      BY <2>1, <2>2
    <2>3. CASE ~(type = "task" /\ nodes[t].data.taskPriority # Blank)
      <3>1. /\ ResolveExecutionEntryTrigger(nodes, BuildManagedTrigger(identity, Silent)) = {t}
            /\ DeriveAutomationIdentity(BuildManagedTrigger(identity, Silent)) = identity
        BY <1>2, <2>3, ManagedEnter
      <3> QED  BY <2>1, <3>1
    <2> QED  BY <2>2, <2>3
  <1> QED  BY <1>4, <1>5, <1>6

LEMMA PublishedFinds ==
    ASSUME Drawn, Configured, Checked, \A job \in jobs : Made(job), ~published => jobs = {}
    PROVE  /\ EveryTriggerIsReached /\ SampleStartsFlow /\ ManagedTasksEnter /\ JobEntersFlow
           /\ \A job \in jobs : job.schedule # NoSchedule
  <1>1. CASE ~published
    BY <1>1 DEF EveryTriggerIsReached, SampleStartsFlow, ManagedTasksEnter, JobEntersFlow, JustPublished
  <1>2. CASE published
    <2>1. Cardinality(GetExecutableTriggerNodes(nodes)) = 1
      BY <1>2 DEF Checked
    <2>2. PICK t : Sole(t)
      BY <2>1, OneTrigger
    <2>3. JobEntersFlow
      BY <2>2, JobEnters DEF JobEntersFlow
    <2>4. ASSUME NEW job \in jobs PROVE job.schedule # NoSchedule
      <3>1. PICK built \in ReadFlowCronTriggerNodes(nodes), enabled \in BOOLEAN :
              job = [built EXCEPT !.enabled = enabled]
        BY DEF Made
      <3>2. PICK id \in DOMAIN nodes :
              /\ built = CronJobOf(nodes, id)
              /\ BuildCronScheduleFromTriggerData(nodes[id].data) # NoSchedule
        BY <3>1 DEF ReadFlowCronTriggerNodes, GetTriggerNodesByType
      <3>3. job.schedule = BuildCronScheduleFromTriggerData(nodes[id].data)
        BY <3>1, <3>2 DEF CronJobOf
      <3> QED  BY <3>2, <3>3
    <2> QED  BY <1>2, <2>3, <2>4, PublishedEnters
  <1> QED  BY <1>1, <1>2

-----------------------------------------------------------------------------
(* The draft keeps to the catalog, and what is published to what was let   *)
(* through.                                                                *)

LEMMA Entries ==
    \A type \in DOMAIN NODE_CATALOG : {"defaults", "offered"} \subseteq DOMAIN NODE_CATALOG[type]
  <1>1. \A a, b, c, d : {"defaults", "offered"} \subseteq DOMAIN Entry(a, b, c, d)
    BY DEF Entry
  <1>2. ASSUME NEW type \in DOMAIN NODE_CATALOG
        PROVE  \E a, b, c, d : NODE_CATALOG[type] = Entry(a, b, c, d)
    <2>1. NODE_CATALOG[type] \in
            {Webhook, ChannelMessage, CronSchedule, Hook, Task, StandingOrder,
             RunAgent, RunSkill, SendToAgent, ChannelReplyStep, ChannelRouteStep, HttpRequest, BrowserStep,
             WebSearchStep, YouTubeTranscriptStep, TranscriptApiStep, ExecStep, ShapePayload, BranchStep,
             ApprovalStep, WaitStep, QueryMemory, WriteMemory, ThreadBindStep, LogStep, UsageStep}
      BY DEF NODE_CATALOG, CatalogTriggers
    <2>2. \A entry \in {Webhook, ChannelMessage, CronSchedule, Hook, Task, StandingOrder, RunAgent} :
             \E a, b, c, d : entry = Entry(a, b, c, d)
      BY Zenon DEF Webhook, ChannelMessage, CronSchedule, Hook, Task, StandingOrder, RunAgent
    <2>3. \A entry \in {RunSkill, SendToAgent, ChannelReplyStep, ChannelRouteStep, HttpRequest, BrowserStep,
                        WebSearchStep} : \E a, b, c, d : entry = Entry(a, b, c, d)
      BY Zenon DEF RunSkill, SendToAgent, ChannelReplyStep, ChannelRouteStep, HttpRequest, BrowserStep, WebSearchStep
    <2>4. \A entry \in {YouTubeTranscriptStep, TranscriptApiStep, ExecStep, ShapePayload, BranchStep,
                        ApprovalStep} : \E a, b, c, d : entry = Entry(a, b, c, d)
      BY Zenon DEF YouTubeTranscriptStep, TranscriptApiStep, ExecStep, ShapePayload, BranchStep, ApprovalStep
    <2>5. \A entry \in {WaitStep, QueryMemory, WriteMemory, ThreadBindStep, LogStep, UsageStep} :
             \E a, b, c, d : entry = Entry(a, b, c, d)
      BY Zenon DEF WaitStep, QueryMemory, WriteMemory, ThreadBindStep, LogStep, UsageStep
    <2> QED  BY <2>1, <2>2, <2>3, <2>4, <2>5
  <1> QED  BY <1>1, <1>2

\* What is told about the gateway changes what a field starts with and what it
\* may become, and never which fields there are.
LEMMA CatalogKeeps ==
    ASSUME NEW filled, NEW type \in DOMAIN NODE_CATALOG
    PROVE  /\ DOMAIN BuildNodeCatalog(filled)[type].defaults = DOMAIN NODE_CATALOG[type].defaults
           /\ type = "tool.payload-template" =>
                /\ BuildNodeCatalog(filled)[type].defaults.outputMode \in ShapeModes
                /\ "outputMode" \in DOMAIN BuildNodeCatalog(filled)[type].offered
                /\ BuildNodeCatalog(filled)[type].offered["outputMode"] = ShapeModes
  <1>1. PICK entry : entry = NODE_CATALOG[type] /\ {"defaults", "offered"} \subseteq DOMAIN entry
    BY Entries
  <1>2. BuildNodeCatalog(filled)[type] =
          [entry EXCEPT !.defaults = PrefilledDefaults(type, entry.defaults, filled),
                        !.offered  = [key \in DOMAIN entry.offered |->
                                        PrefilledOptions(key, entry.offered[key], filled)]]
    BY <1>1 DEF BuildNodeCatalog
  <1>3. /\ BuildNodeCatalog(filled)[type].defaults = PrefilledDefaults(type, entry.defaults, filled)
        /\ BuildNodeCatalog(filled)[type].offered =
             [key \in DOMAIN entry.offered |-> PrefilledOptions(key, entry.offered[key], filled)]
    BY <1>1, <1>2
  <1>4. \A defaults, key, value : /\ DOMAIN FillBlank(defaults, key, value) = DOMAIN defaults
                                  /\ DOMAIN ReplaceDefault(defaults, key, value) = DOMAIN defaults
    BY DEF FillBlank, ReplaceDefault
  <1>5. DOMAIN PrefilledDefaults(type, entry.defaults, filled) = DOMAIN entry.defaults
    BY <1>4 DEF PrefilledDefaults
  <1>6. ASSUME type = "tool.payload-template"
        PROVE  /\ entry.defaults.outputMode \in ShapeModes /\ "outputMode" \in DOMAIN entry.offered
               /\ entry.offered["outputMode"] = ShapeModes
               /\ PrefilledDefaults(type, entry.defaults, filled) = entry.defaults
    <2>1. entry = ShapePayload
      BY <1>1, <1>6 DEF NODE_CATALOG
    <2>2. PrefilledDefaults(type, entry.defaults, filled) = entry.defaults
      BY <1>6 DEF PrefilledDefaults
    <2> QED  BY <2>1, <2>2 DEF ShapePayload, Entry, ShapeModes
  <1>7. \A options : PrefilledOptions("outputMode", options, filled) = options
    BY DEF PrefilledOptions
  <1> QED  BY <1>1, <1>3, <1>5, <1>6, <1>7

LEMMA DrawsConfigured ==
    ASSUME NEW path \in Paths, Draw(path)
    PROVE  Configured
  <1>1. path \in Seq(DOMAIN NODE_CATALOG)
    BY PathsAssumption
  <1>2. nodes = [i \in DOMAIN path |-> NewNode(BuildNodeCatalog(prefill), path[i])]
    BY DEF Draw
  <1>3. ASSUME NEW i \in DOMAIN nodes
        PROVE  /\ path[i] \in DOMAIN NODE_CATALOG /\ nodes[i].type = path[i]
               /\ nodes[i].data = BuildNodeCatalog(prefill)[path[i]].defaults
    BY <1>1, <1>2 DEF NewNode
  <1> QED  BY <1>3, CatalogKeeps DEF Configured

LEMMA EditsConfigured ==
    ASSUME Drawn, Configured, NEW i \in DOMAIN nodes, EditField(i)
    PROVE  Configured'
  <1>1. PICK offered : offered = Offered(BuildNodeCatalog(prefill), nodes[i], Scopes(nodes[i]))
    OBVIOUS
  <1>2. PICK key, value : /\ key \in DOMAIN offered /\ value \in offered[key]
                          /\ nodes' = [nodes EXCEPT ![i].data[key] = value]
    BY <1>1 DEF EditField
  <1>3. PICK node : node = [nodes[i] EXCEPT !.data = [nodes[i].data EXCEPT ![key] = value]]
    OBVIOUS
  <1>4. node.type = nodes[i].type /\ node.data = [nodes[i].data EXCEPT ![key] = value]
    BY <1>3 DEF Drawn
  <1>5. DOMAIN nodes' = DOMAIN nodes /\ \A j \in DOMAIN nodes : nodes'[j] = IF j = i THEN node ELSE nodes[j]
    BY <1>2, <1>3
  <1>6. key = "outputMode" /\ node.type = "tool.payload-template" => value \in ShapeModes
    <2> SUFFICES ASSUME key = "outputMode", node.type = "tool.payload-template" PROVE value \in ShapeModes
      OBVIOUS
    <2>1. PICK options : options = BuildNodeCatalog(prefill)[nodes[i].type].offered
      OBVIOUS
    <2>2. options["outputMode"] = ShapeModes
      BY <1>4, <2>1, CatalogKeeps DEF Configured
    <2>3. offered = [k \in {q \in DOMAIN options : Shown(nodes[i].type, q, nodes[i].data)} |->
                       IF k \in DOMAIN Scopes(nodes[i])
                       THEN ResolveFieldOptions(options[k], Scopes(nodes[i])[k]) ELSE options[k]]
      BY <1>1, <1>4, <2>1 DEF Offered
    <2>4. \A scoped : ResolveFieldOptions(options[key], scoped) \subseteq options[key]
      BY DEF ResolveFieldOptions
    <2> QED  BY <1>2, <2>2, <2>3, <2>4
  <1>7. /\ node.type \in DOMAIN NODE_CATALOG
        /\ DOMAIN node.data = DOMAIN NODE_CATALOG[node.type].defaults
        /\ node.type = "tool.payload-template" => node.data.outputMode \in ShapeModes
    <2>1. DOMAIN node.data = DOMAIN nodes[i].data
      BY <1>4
    <2>2. ASSUME node.type = "tool.payload-template"
          PROVE  \/ node.data.outputMode = nodes[i].data.outputMode
                 \/ key = "outputMode" /\ node.data.outputMode = value
      <3>1. PICK entry : entry = NODE_CATALOG["tool.payload-template"]
        OBVIOUS
      <3>2. entry = ShapePayload
        BY <3>1 DEF NODE_CATALOG
      <3>3. "outputMode" \in DOMAIN entry.defaults
        BY <3>2 DEF ShapePayload, Entry
      <3>4. "outputMode" \in DOMAIN nodes[i].data
        BY <1>4, <2>2, <3>1, <3>3 DEF Configured
      <3> QED  BY <1>4, <3>4
    <2> QED  BY <1>4, <1>6, <2>1, <2>2 DEF Configured
  <1> QED  BY <1>5, <1>7 DEF Configured

-----------------------------------------------------------------------------
(* Why a run of what was published fails.                                  *)

\* A run of a published draft: it fails for one of the reasons, not for a field
\* that was checked, and for its policy only when one changed since or the
\* command was not known.
Fits(run) ==
    /\ run.phase \in Phases /\ run.why \in Reasons
    /\ run.phase = "failed" <=> run.why # Blank
    /\ run.at \in 0..(Len(nodes) + 1)
    /\ run.why = "field" => nodes[run.at].type \notin CheckedTypes
    /\ run.why = "policy" => changed \/ HasCommandTemplate(nodes[run.at].data.command)
    /\ run.phase # "none" => changed \/ run.policy = workspace

\* What fails for a field has passed the checks that find theirs.
LEMMA PassesCheck ==
    ASSUME NEW blank, NEW why \in Whys, NEW rest, NEW o \in Unless(blank, why, rest),
           o.why = "field", why = "field" => ~blank
    PROVE  o \in rest
  BY Refused DEF Unless, Whys

LEMMA EndsOtherwise ==
    /\ \A p : Done(p).why # "field" /\ Done(p).why # "policy"
    /\ Failed("service").why # "field"
  <1>1. "field" # Blank /\ "policy" # Blank
    BY Zenon DEF Blank
  <1> QED  BY <1>1, Refused

LEMMA BrowserFinds ==
    ASSUME NEW p, NEW data, data.target # Blank,
           data.action = "click" => (data.clickHint # Blank \/ data.waitFor # Blank),
           NEW o \in BrowserOutput(data, p)
    PROVE  o.why # "field"
  <1> SUFFICES ASSUME o.why = "field" PROVE FALSE
    OBVIOUS
  <1> DEFINE selector == BrowserSelector(data)
             end    == {Done(Wrap(p, NoFields, 0)), Failed("service")}
             hint   == Unless(data.action = "click" /\ RenderInputTemplate(selector, p) = Blank, "template", end)
             chosen == Unless(data.action = "click" /\ selector = Blank, "field", hint)
             filled == Unless(RenderInputTemplate(data.target, p) = Blank, "template", chosen)
             target == Unless(data.target = Blank, "field", filled)
  <1>1. o \in Unless(BadNumber(data, "timeoutMs"), "number", target)
    BY DEF BrowserOutput
  <1>2. ~(data.action = "click" /\ selector = Blank)
    BY DEF BrowserSelector
  <1> HIDE DEF target, selector
  <1>3. o \in target
    BY <1>1, PassesCheck DEF Whys
  <1> HIDE DEF filled
  <1>4. o \in filled
    BY <1>3, PassesCheck DEF Whys, target
  <1> HIDE DEF chosen
  <1>5. o \in chosen
    BY <1>4, PassesCheck DEF Whys, filled
  <1> HIDE DEF hint
  <1>6. o \in hint
    BY <1>2, <1>5, PassesCheck DEF Whys, chosen
  <1> HIDE DEF end
  <1>7. o \in end
    BY <1>6, PassesCheck DEF Whys, hint
  <1> QED  BY <1>7, EndsOtherwise DEF end

LEMMA SearchFinds ==
    ASSUME NEW p, NEW data, data.query # Blank, NEW o \in WebSearchOutput(data, p)
    PROVE  o.why # "field"
  <1> SUFFICES ASSUME o.why = "field" PROVE FALSE
    OBVIOUS
  <1> DEFINE found == CASE data.outputMode = "top-result-url" -> Done(TextPayload)
                        [] data.outputMode = "top-result"     -> Done(Payload(NoFields, NoFields, 0))
                        [] OTHER                              -> Done(Wrap(p, NoFields, 0))
             end    == {Failed("service"), found}
             filled == Unless(RenderInputTemplate(data.query, p) = Blank, "template", end)
             query  == Unless(data.query = Blank, "field", filled)
  <1>1. o \in Unless(BadNumber(data, "limit"), "number", query)
    BY DEF WebSearchOutput
  <1>2. found.why # "field"
    BY EndsOtherwise
  <1> HIDE DEF query, found
  <1>3. o \in query
    BY <1>1, PassesCheck DEF Whys
  <1> HIDE DEF filled
  <1>4. o \in filled
    BY <1>3, PassesCheck DEF Whys, query
  <1> HIDE DEF end
  <1>5. o \in end
    BY <1>4, PassesCheck DEF Whys, filled
  <1> QED  BY <1>2, <1>5, EndsOtherwise DEF end

LEMMA ShapeFinds ==
    ASSUME NEW p, NEW data, data.outputMode \in ShapeModes,
           data.outputMode = "assign" => data.outputPath # Blank, NEW o \in ShapeOutput(data, p)
    PROVE  o.why # "field"
  <1> SUFFICES ASSUME o.why = "field" PROVE FALSE
    OBVIOUS
  <1> DEFINE whole   == data.template = "{{input}}"
             merged  == Unless(~whole \/ ~p.object, "payload", {Done(p)})
             put     == Unless(data.outputPath = Blank, "field", {Done(MergeObjectOutput(p))})
             formed  == CASE data.outputMode = "replace" -> {Done(IF whole THEN p ELSE TextPayload)}
                          [] data.outputMode = "merge"   -> merged
                          [] OTHER                       -> put
  <1>1. o \in Unless(~whole /\ RenderInputTemplate(data.template, p) = Blank, "template", formed)
    BY DEF ShapeOutput
  <1> HIDE DEF formed, merged, put, whole
  <1>2. o \in formed
    BY <1>1, PassesCheck DEF Whys
  <1>3. \/ \E q : o = Done(q)
        \/ o \in merged
        \/ o \in put /\ data.outputPath # Blank
    BY <1>2 DEF formed, ShapeModes
  <1>4. o \in merged => o \in {Done(p)}
    BY PassesCheck DEF Whys, merged
  <1>5. o \in put /\ data.outputPath # Blank => o \in {Done(MergeObjectOutput(p))}
    BY PassesCheck DEF Whys, put
  <1> QED  BY <1>3, <1>4, <1>5, EndsOtherwise

LEMMA WriteFinds ==
    ASSUME NEW p, NEW data, data.key # Blank, NEW o \in MemoryWriteOutput(data, p, Flow)
    PROVE  o.why # "field"
  <1> SUFFICES ASSUME o.why = "field" PROVE FALSE
    OBVIOUS
  <1> DEFINE scoped == Unless(MemoryScope(data.namespace, p, Flow) = Blank, "payload",
                              {Done(MergeObjectOutput(p))})
  <1>1. o \in Unless(data.key = Blank, "field", scoped)
    BY DEF MemoryWriteOutput
  <1> HIDE DEF scoped
  <1>2. o \in scoped
    BY <1>1, PassesCheck DEF Whys
  <1>3. o \in {Done(MergeObjectOutput(p))}
    BY <1>2, PassesCheck DEF Whys, scoped
  <1> QED  BY <1>3, EndsOtherwise

LEMMA FindsItsFields ==
    ASSUME Configured, ValidateFlowSemantics(nodes, Edges), NEW i \in DOMAIN nodes, NEW run, NEW session,
           NEW o \in Outcomes(run, nodes[i].type, nodes[i].data, session), o.why = "field"
    PROVE  nodes[i].type \notin CheckedTypes
  <1> PICK type, data, p : type = nodes[i].type /\ data = nodes[i].data /\ p = run.payload
    OBVIOUS
  <1>1. SemanticallyValid(i, nodes, Edges)
    BY DEF ValidateFlowSemantics
  <1>2. CASE type = "tool.web-search"
    <2>1. o \in WebSearchOutput(data, p) /\ data.query # Blank
      BY <1>1, <1>2 DEF Outcomes, Transcripts, SemanticallyValid
    <2> QED  BY <2>1, SearchFinds
  <1>3. CASE type = "tool.browser"
    <2>1. o \in BrowserOutput(data, p) /\ data.target # Blank
          /\ (data.action = "click" => (data.clickHint # Blank \/ data.waitFor # Blank))
      BY <1>1, <1>3 DEF Outcomes, Transcripts, SemanticallyValid
    <2> QED  BY <2>1, BrowserFinds
  <1>4. CASE type = "tool.payload-template"
    <2>1. o \in ShapeOutput(data, p) /\ (data.outputMode = "assign" => data.outputPath # Blank)
          /\ data.outputMode \in ShapeModes
      BY <1>1, <1>4 DEF Outcomes, Transcripts, SemanticallyValid, Configured
    <2> QED  BY <2>1, ShapeFinds
  <1>5. CASE type = "context.memory-write"
    <2>1. o \in MemoryWriteOutput(data, p, Flow) /\ data.key # Blank
      BY <1>1, <1>5 DEF Outcomes, Transcripts, SemanticallyValid
    <2> QED  BY <2>1, WriteFinds
  <1>6. CASE type \in {"tool.exec", "action.channel-route"}
    <2>1. o = Done(p)
      BY <1>6 DEF Outcomes, Transcripts
    <2> QED  BY <2>1, EndsOtherwise
  <1> QED  BY <1>2, <1>3, <1>4, <1>5, <1>6 DEF CheckedTypes

Fitting == \A r \in Runs : Fits(runs[r])

LEMMA AfterPolicy ==
    ASSUME NEW run, DOMAIN run = RunFields, NEW o
    PROVE  After(run, o).policy = run.policy
  <1>1. CASE o.why # Blank
    BY <1>1 DEF After, RunFields
  <1>2. CASE o.why = Blank
    BY <1>2 DEF After, RunFields
  <1> QED  BY <1>1, <1>2

LEMMA StaysFitting ==
    ASSUME nodes' = nodes, changed' \/ UNCHANGED <<changed, workspace>>, NEW run, Fits(run)
    PROVE  Fits(run)'
  BY DEF Fits

LEMMA OneFits ==
    ASSUME RunsShaped, Fitting, nodes' = nodes, changed' \/ UNCHANGED <<changed, workspace>>,
           NEW r \in Runs, NEW next, runs' = [runs EXCEPT ![r] = next], Fits(next)
    PROVE  Fitting'
  <1> SUFFICES ASSUME NEW q \in Runs PROVE Fits(runs[q])'
    BY DEF Fitting
  <1>1. PICK run : run = runs'[q]
    OBVIOUS
  <1>2. Fits(run)
    BY <1>1 DEF RunsShaped, Fitting
  <1>3. Fits(run)'
    BY <1>2, StaysFitting
  <1> QED  BY <1>1, <1>3

LEMMA AllFit ==
    ASSUME Fitting, nodes' = nodes, changed' \/ UNCHANGED <<changed, workspace>>, UNCHANGED runs
    PROVE  Fitting'
  <1> SUFFICES ASSUME NEW q \in Runs PROVE Fits(runs[q])'
    BY DEF Fitting
  <1>1. PICK run : run = runs[q]
    OBVIOUS
  <1>2. Fits(run)'
    BY <1>1, StaysFitting DEF Fitting
  <1> QED  BY <1>1, <1>2

LEMMA SettleFits ==
    ASSUME RunsShaped, Fitting, NEW r \in Runs, NEW next, Settle(r, next), Fits(next)
    PROVE  Fitting'
  BY OneFits DEF Settle, flowVars, policyVars

LEMMA WhyIsReason ==
    /\ Whys \cup {"policy", "rejected", Blank} \subseteq Reasons
    /\ {"field", "policy", "rejected"} \cap {Blank} = {}
  <1>1. "field" # Blank /\ "policy" # Blank /\ "rejected" # Blank
    BY Zenon DEF Blank
  <1> QED  BY <1>1 DEF Whys, Reasons

\* Wherever a step of a run leaves it, the run still fits.
LEMMA StepFits ==
    ASSUME RunsShaped, PathInv, Fitting, NEW r \in Runs, NEW o, o.why \in Whys \cup {"policy", Blank},
           o.why = "field" => Current(r).type \notin CheckedTypes,
           o.why = "policy" => changed \/ HasCommandTemplate(Current(r).data.command),
           NEW next, Settle(r, next), NEW after, after = After(runs[r], o),
           next.at = after.at, next.why = after.why, next.phase = after.phase, next.policy = after.policy
    PROVE  Fitting'
  <1>1. PICK run, node : run = runs[r] /\ node = Current(r)
    OBVIOUS
  <1>2. /\ DOMAIN run = RunFields /\ Drawn /\ run.at \in DOMAIN nodes /\ run.why = Blank
        /\ run.phase = "running" /\ Fits(run) /\ node = nodes[run.at]
    BY <1>1, Stands DEF Settle, Fitting, Current
  <1>3. /\ o.why # Blank => /\ after.at = run.at /\ after.phase = "failed" /\ after.why = o.why
        /\ o.why = Blank => /\ after.at = run.at + 1 /\ after.why = Blank
                            /\ after.phase = IF run.at = Len(nodes) THEN "done" ELSE "running"
        /\ after.policy = run.policy
    BY <1>1, <1>2, AfterAt, AfterPolicy
  <1>4. run.at \in 1..Len(nodes) /\ Len(nodes) \in Nat
    BY <1>2 DEF Drawn
  <1>5. changed \/ run.policy = workspace
    BY <1>2 DEF Fits
  <1>6. Fits(next)
    <2>1. CASE o.why # Blank
      <3>1. next.at = run.at /\ next.phase = "failed" /\ next.why = o.why /\ next.policy = run.policy
        BY <1>3, <2>1
      <3>2. next.at \in 0..(Len(nodes) + 1)
        BY <1>4, <3>1
      <3>3. next.phase \in Phases /\ next.why \in Reasons
        BY <3>1, WhyIsReason DEF Phases
      <3> QED  BY <1>1, <1>2, <1>5, <2>1, <3>1, <3>2, <3>3 DEF Fits
    <2>2. CASE o.why = Blank
      <3>1. /\ next.at = run.at + 1 /\ next.why = Blank /\ next.policy = run.policy
            /\ next.phase \in {"done", "running"}
        BY <1>3, <2>2
      <3>2. next.at \in 0..(Len(nodes) + 1)
        BY <1>4, <3>1
      <3>3. next.phase \in Phases /\ next.why \in Reasons /\ next.why # "field" /\ next.why # "policy"
        BY <3>1, WhyIsReason DEF Phases
      <3> QED  BY <1>5, <3>1, <3>2, <3>3 DEF Fits
    <2> QED  BY <2>1, <2>2
  <1> QED  BY <1>6, SettleFits

\* What a step of a published draft comes to, but for commands and replies.
LEMMA OutcomesFit ==
    ASSUME RunsShaped, PathInv, Configured, Checked, NEW r \in Runs, runs[r].phase = "running", NEW session,
           NEW o \in Outcomes(runs[r], Current(r).type, Current(r).data, session)
    PROVE  /\ o.why \in Whys \cup {"policy", Blank} /\ o.why # "policy"
           /\ o.why = "field" => Current(r).type \notin CheckedTypes
  <1>1. PICK run, node : run = runs[r] /\ node = Current(r)
    OBVIOUS
  <1>2. /\ published /\ run.at \in DOMAIN nodes /\ Shaped(run.payload) /\ node = nodes[run.at]
    BY <1>1, Stands DEF Current
  <1>3. o \in Outcomes(run, node.type, node.data, session)
    BY <1>1
  <1>4. FailsAs(o) \/ Succeeds(o)
    BY <1>2, <1>3, OutcomesHandOn
  <1>5. ValidateFlowSemantics(nodes, Edges)
    BY <1>2 DEF Checked
  <1>6. o.why = "field" => node.type \notin CheckedTypes
    BY <1>2, <1>3, <1>5, FindsItsFields
  <1> QED  BY <1>1, <1>4, <1>6, WhyIsReason DEF FailsAs, Succeeds, Whys

LEMMA PlainFits ==
    ASSUME RunsShaped, PathInv, Configured, Checked, Fitting, NEW r \in Runs, runs[r].phase = "running",
           PlainStep(r)
    PROVE  Fitting'
  <1>1. PICK session : session = StepSession[r][runs[r].at]
    OBVIOUS
  <1>2. PICK o \in Outcomes(runs[r], Current(r).type, Current(r).data, session) :
          Settle(r, [After(runs[r], o) EXCEPT
                       !.said = IF Current(r).type \in ReplyProducers /\ o.payload.here["replyText"] # Blank
                                THEN runs[r].at ELSE @])
    BY <1>1 DEF PlainStep
  <1>3. PICK after : after = After(runs[r], o)
    OBVIOUS
  <1>4. PICK said : said = IF Current(r).type \in ReplyProducers /\ o.payload.here["replyText"] # Blank
                           THEN runs[r].at ELSE after.said
    OBVIOUS
  <1>5. PICK next : next = [after EXCEPT !.said = said]
    OBVIOUS
  <1>6. Settle(r, next)
    BY <1>2, <1>3, <1>4, <1>5
  <1>7. DOMAIN after = RunFields
    BY <1>3, SpecialStands
  <1>8. /\ next.at = after.at /\ next.why = after.why /\ next.phase = after.phase
        /\ next.policy = after.policy
    BY <1>5, <1>7 DEF RunFields
  <1>9. /\ o.why \in Whys \cup {"policy", Blank} /\ o.why # "policy"
        /\ o.why = "field" => Current(r).type \notin CheckedTypes
    BY OutcomesFit
  <1> QED  BY <1>3, <1>6, <1>8, <1>9, StepFits

LEMMA MemoryFits ==
    ASSUME RunsShaped, PathInv, Configured, Checked, Fitting, NEW r \in Runs, runs[r].phase = "running",
           MemoryWriteStep(r) \/ MemoryQueryStep(r) \/ BindContextStep(r)
    PROVE  Fitting'
  <1>1. PICK run, node : run = runs[r] /\ node = Current(r)
    OBVIOUS
  <1>2. \E o \in Outcomes(run, node.type, node.data, Blank) : \E wrote, seen :
          \/ Settle(r, [After(run, o) EXCEPT !.wrote = wrote])
          \/ Settle(r, [After(run, o) EXCEPT !.seen = seen])
    <2>1. CASE MemoryWriteStep(r)
      BY <1>1, <2>1 DEF MemoryWriteStep
    <2>2. CASE MemoryQueryStep(r)
      BY <1>1, <2>2 DEF MemoryQueryStep
    <2>3. CASE BindContextStep(r)
      BY <1>1, <2>3 DEF BindContextStep
    <2> QED  BY <2>1, <2>2, <2>3
  <1>3. PICK o \in Outcomes(run, node.type, node.data, Blank) : \E wrote, seen :
          \/ Settle(r, [After(run, o) EXCEPT !.wrote = wrote])
          \/ Settle(r, [After(run, o) EXCEPT !.seen = seen])
    BY <1>2
  <1>4. PICK after : after = After(run, o)
    OBVIOUS
  <1>5. PICK next : /\ Settle(r, next)
                    /\ \E wrote, seen : \/ next = [after EXCEPT !.wrote = wrote]
                                        \/ next = [after EXCEPT !.seen = seen]
    BY <1>3, <1>4
  <1>6. DOMAIN after = RunFields
    BY <1>1, <1>4, SpecialStands
  <1>7. /\ next.at = after.at /\ next.why = after.why /\ next.phase = after.phase
        /\ next.policy = after.policy
    BY <1>5, <1>6 DEF RunFields
  <1>8. /\ o.why \in Whys \cup {"policy", Blank} /\ o.why # "policy"
        /\ o.why = "field" => node.type \notin CheckedTypes
    BY <1>1, <1>3, OutcomesFit
  <1> QED  BY <1>1, <1>4, <1>5, <1>7, <1>8, StepFits

\* A command that was known at the publication is allowed by the policies that
\* allowed it then.
LEMMA KnownIsAllowed ==
    ASSUME NEW a, NEW w, NEW node, PublishAllowsNode(a, w, node), NEW payload,
           NEW command, command = RenderInputTemplate(node.data.command, payload),
           node.data.command # Blank, ~HasCommandTemplate(node.data.command)
    PROVE  AssertExecAllowed(a, w, command, NormalizeApprovalMode(node.data.approvalMode))
  <1>1. node.data.command \notin DOMAIN TemplateField
    BY TextsAssumption DEF HasCommandTemplate
  <1>2. command = node.data.command
    BY <1>1 DEF RenderInputTemplate
  <1>3. PICK mode : mode = NormalizeApprovalMode(node.data.approvalMode)
    OBVIOUS
  <1>4. \A policy \in {a, w} : ModeAllowed(policy, mode) /\ ListsAllow(policy, command, mode)
    BY <1>2, <1>3 DEF PublishAllowsNode
  <1> QED  BY <1>3, <1>4 DEF AssertExecAllowed, AssertPolicyAllowed

LEMMA ExecFits ==
    ASSUME RunsShaped, PathInv, Configured, Checked, Fitting, NEW r \in Runs, runs[r].phase = "running",
           ExecNodeStep(r)
    PROVE  Fitting'
  <1>1. PICK run, node, data : run = runs[r] /\ node = Current(r) /\ data = node.data
    OBVIOUS
  <1>2. /\ node.type = "tool.exec" /\ published /\ run.at \in DOMAIN nodes /\ node = nodes[run.at]
        /\ Fits(run) /\ DOMAIN run = RunFields /\ run.phase = "running" /\ run.why = Blank
    BY <1>1, Stands DEF ExecNodeStep, Current, Fitting
  <1>3. PICK command, mode : /\ command = RenderInputTemplate(data.command, run.payload)
                             /\ mode = NormalizeApprovalMode(data.approvalMode)
    OBVIOUS
  <1>4. \/ data.command = Blank /\ Settle(r, After(run, Failed("field")))
        \/ \E why \in {"template", "number"} : Settle(r, After(run, Failed(why)))
        \/ ~AssertExecAllowed(adapter, run.policy, command, mode) /\ Settle(r, After(run, Failed("policy")))
        \/ \E grant : Settle(r, [run EXCEPT !.phase = "asking", !.grant = grant])
        \/ \E o \in ExecOutput(run.payload) : Settle(r, After(run, o))
    <2>1. \/ \E refused : /\ refused \in {"field", "template", "number", "policy"}
                          /\ refused = "field" => data.command = Blank
                          /\ refused = "policy" => ~AssertExecAllowed(adapter, run.policy, command, mode)
                          /\ Settle(r, After(run, Failed(refused)))
          \/ \E grant : Settle(r, [run EXCEPT !.phase = "asking", !.grant = grant])
          \/ \E o \in ExecOutput(run.payload) : Settle(r, After(run, o))
      BY <1>1, <1>3 DEF ExecNodeStep
    <2> QED  BY <2>1
  <1>5. ValidateFlowSemantics(nodes, Edges)
    BY <1>2 DEF Checked
  <1>6. data.command # Blank
    BY <1>1, <1>2, <1>5 DEF ValidateFlowSemantics, SemanticallyValid
  <1>7. ASSUME NEW o, o.why \in (Whys \ {"field"}) \cup {"policy", Blank}, Settle(r, After(run, o)),
               o.why = "policy" => changed \/ HasCommandTemplate(data.command)
        PROVE  Fitting'
    <2>1. PICK after : after = After(runs[r], o)
      OBVIOUS
    <2>2. o.why # "field"
      BY <1>7, WhyIsReason
    <2> QED  BY <1>1, <1>7, <2>1, <2>2, StepFits
  <1>8. ASSUME NEW why \in {"template", "number"}, Settle(r, After(run, Failed(why))) PROVE Fitting'
    <2>1. Failed(why).why = why
      BY Refused
    <2> QED  BY <1>7, <1>8, <2>1 DEF Whys
  <1>9. CASE ~AssertExecAllowed(adapter, run.policy, command, mode) /\ Settle(r, After(run, Failed("policy")))
    <2>1. Failed("policy").why = "policy"
      BY Refused
    <2>2. changed \/ HasCommandTemplate(data.command)
      <3> SUFFICES ASSUME ~changed, ~HasCommandTemplate(data.command) PROVE FALSE
        OBVIOUS
      <3>1. PublishAllowsNode(adapter, workspace, node)
        BY <1>2 DEF Checked, ValidateExecPublishPolicy
      <3>2. run.policy = workspace
        BY <1>2 DEF Fits
      <3>3. AssertExecAllowed(adapter, workspace, command, mode)
        BY <1>1, <1>3, <1>6, <3>1, KnownIsAllowed
      <3> QED  BY <1>9, <3>2, <3>3
    <2> QED  BY <1>7, <1>9, <2>1, <2>2
  <1>10. ASSUME NEW o \in ExecOutput(run.payload), Settle(r, After(run, o)) PROVE Fitting'
    <2>1. o.why \in {Blank, "service"}
      BY Refused DEF ExecOutput
    <2>2. "policy" # Blank
      BY WhyIsReason
    <2> QED  BY <1>7, <1>10, <2>1, <2>2 DEF Whys
  <1>11. ASSUME NEW grant, Settle(r, [run EXCEPT !.phase = "asking", !.grant = grant]) PROVE Fitting'
    <2>1. PICK next : next = [run EXCEPT !.phase = "asking", !.grant = grant]
      OBVIOUS
    <2>2. next.at = run.at /\ next.why = run.why /\ next.policy = run.policy /\ next.phase = "asking"
      BY <1>2, <2>1 DEF RunFields
    <2>3. Fits(next)
      BY <1>2, <2>2 DEF Fits, Phases
    <2> QED  BY <1>11, <2>1, <2>3, SettleFits
  <1> QED  BY <1>4, <1>6, <1>8, <1>9, <1>10, <1>11

\* A reply fails for what it finds in the payload, or for the service.
LEMMA DeliverFits ==
    ASSUME RunsShaped, PathInv, Fitting, NEW r \in Runs, runs[r].phase = "running",
           NEW profile, NEW asked, NEW keep, Deliver(r, profile, asked, keep)
    PROVE  Fitting'
  <1>1. PICK run, data : run = runs[r] /\ data = Current(r).data
    OBVIOUS
  <1>2. PICK refusal : refusal = ReplyRefusal(data, run.payload, profile)
    OBVIOUS
  <1>3. ASSUME NEW why \in {"payload", "template", "service"}, Settle(r, After(run, Failed(why)))
        PROVE  Fitting'
    <2>1. PICK o, after : o = Failed(why) /\ after = After(runs[r], o)
      OBVIOUS
    <2>2. o.why = why
      BY <2>1, Refused
    <2> QED  BY <1>1, <1>3, <2>1, <2>2, StepFits DEF Whys
  <1>4. refusal # Blank => refusal \in {"payload", "template"}
    BY <1>2 DEF ReplyRefusal
  <1>5. ASSUME NEW channel, NEW sent,
               Settle(r, [After(run, ReplyOutput(run.payload, channel,
                                                 ReplyTarget(data, run.payload, profile), keep)) EXCEPT
                            !.sent = sent])
        PROVE  Fitting'
    <2>1. PICK o : o = ReplyOutput(run.payload, channel, ReplyTarget(data, run.payload, profile), keep)
      OBVIOUS
    <2>2. PICK after : after = After(run, o)
      OBVIOUS
    <2>4. PICK next : next = [after EXCEPT !.sent = sent]
      OBVIOUS
    <2>5. Settle(r, next)
      BY <1>5, <2>1, <2>2, <2>4
    <2>6. DOMAIN after = RunFields
      BY <1>1, <2>2, SpecialStands
    <2>7. /\ next.at = after.at /\ next.why = after.why /\ next.phase = after.phase
          /\ next.policy = after.policy
      BY <2>4, <2>6 DEF RunFields
    <2>8. o.why = Blank
      <3>1. PICK fields : o = Done(Wrap(run.payload, fields, 0))
        BY <2>1 DEF ReplyOutput
      <3> QED  BY <3>1, Refused
    <2>9. o.why # "field" /\ o.why # "policy"
      BY <2>8, WhyIsReason
    <2> QED  BY <1>1, <2>2, <2>5, <2>7, <2>8, <2>9, StepFits
  <1> QED  BY <1>1, <1>2, <1>3, <1>4, <1>5 DEF Deliver

LEMMA ReplyFits ==
    ASSUME RunsShaped, PathInv, Checked, Fitting, NEW r \in Runs, runs[r].phase = "running",
           ChannelReplyNodeStep(r) \/ ChannelRouteNodeStep(r)
    PROVE  Fitting'
  <1>1. \/ Settle(r, After(runs[r], Failed("profile")))
        \/ Current(r).data.destination = Blank /\ Current(r).type = "action.channel-route"
        \/ \E profile, asked, keep : Deliver(r, profile, asked, keep)
    <2>1. CASE ChannelReplyNodeStep(r)
      BY <2>1 DEF ChannelReplyNodeStep
    <2>2. CASE ChannelRouteNodeStep(r)
      BY <2>2 DEF ChannelRouteNodeStep
    <2> QED  BY <2>1, <2>2
  <1>2. CASE Settle(r, After(runs[r], Failed("profile")))
    <2>1. PICK o, after : o = Failed("profile") /\ after = After(runs[r], o)
      OBVIOUS
    <2>2. o.why = "profile"
      BY <2>1, Refused
    <2> QED  BY <1>2, <2>1, <2>2, StepFits DEF Whys
  <1>3. Current(r).type = "action.channel-route" => Current(r).data.destination # Blank
    <2>1. published /\ runs[r].at \in DOMAIN nodes
      BY Stands
    <2>2. ValidateFlowSemantics(nodes, Edges)
      BY <2>1 DEF Checked
    <2> QED  BY <2>1, <2>2 DEF ValidateFlowSemantics, SemanticallyValid, Current
  <1> QED  BY <1>1, <1>2, <1>3, DeliverFits

LEMMA DecisionFits ==
    ASSUME RunsShaped, Fitting, NEW r \in Runs, Approve(r) \/ Resume(r)
    PROVE  Fitting'
  <1>1. PICK run : run = runs[r]
    OBVIOUS
  <1>2. DOMAIN run = RunFields /\ Fits(run) /\ run.phase \in {"asking", "approved"}
    BY <1>1 DEF Approve, Resume, RunsShaped, Fitting
  <1>3. run.why = Blank /\ (changed \/ run.policy = workspace)
    BY <1>2 DEF Fits
  <1>4. PICK next : /\ runs' = [runs EXCEPT ![r] = next]
                    /\ \/ /\ next = [run EXCEPT !.phase = "approved", !.why = Blank]
                       \/ /\ next = [run EXCEPT !.phase = "failed", !.why = "rejected"]
                       \/ /\ next = [run EXCEPT !.phase = "running", !.policy = workspace]
    <2>1. CASE Approve(r)
      <3>1. PICK approved \in BOOLEAN :
              runs' = [runs EXCEPT ![r].phase = IF approved THEN "approved" ELSE "failed",
                                   ![r].why = IF approved THEN Blank ELSE "rejected"]
        BY <2>1 DEF Approve
      <3>2. CASE approved
        <4>1. runs' = [runs EXCEPT ![r] = [run EXCEPT !.phase = "approved", !.why = Blank]]
          BY <1>1, <3>1, <3>2 DEF RunsShaped
        <4> QED  BY <4>1
      <3>3. CASE ~approved
        <4>1. runs' = [runs EXCEPT ![r] = [run EXCEPT !.phase = "failed", !.why = "rejected"]]
          BY <1>1, <3>1, <3>3 DEF RunsShaped
        <4> QED  BY <4>1
      <3> QED  BY <3>2, <3>3
    <2>2. CASE Resume(r)
      <3>1. runs' = [runs EXCEPT ![r] = [run EXCEPT !.phase = "running", !.policy = workspace]]
        BY <1>1, <2>2 DEF Resume, RunsShaped
      <3> QED  BY <3>1
    <2> QED  BY <2>1, <2>2
  <1>5. /\ next.at = run.at
        /\ \/ next.phase = "approved" /\ next.why = Blank /\ next.policy = run.policy
           \/ next.phase = "running" /\ next.why = Blank /\ next.policy = workspace
           \/ next.phase = "failed" /\ next.why = "rejected" /\ next.policy = run.policy
    BY <1>2, <1>3, <1>4 DEF RunFields
  <1>6. /\ next.why # "field" /\ next.why # "policy" /\ next.why \in Reasons
        /\ next.phase = "failed" <=> next.why # Blank
    BY <1>5, WhyIsReason
  <1>7. Fits(next)
    BY <1>2, <1>3, <1>5, <1>6 DEF Fits, Phases
  <1> QED  BY <1>4, <1>7, OneFits DEF Approve, Resume, flowVars, policyVars

LEMMA BeginFits ==
    ASSUME RunsShaped, PathInv, Fitting, NEW r \in Runs, NEW events, NEW payload, Begin(r, events, payload),
           \A event \in events : event.type \in DOMAIN TriggerOfEvent \cup {"manual"}, UNCHANGED nodes
    PROVE  Fitting'
  <1>1. PICK entry \in UNION {ResolveExecutionEntryTrigger(nodes, e) : e \in events} :
          runs' = [runs EXCEPT ![r] =
                    [NoRun EXCEPT !.phase = "running", !.at = entry, !.payload = payload,
                                  !.policy = workspace, !.sessions = Sessions(payload),
                                  !.seen = LoadPersistedMemory(entries, ReaderOf(payload))]]
    BY DEF Begin
  <1>2. entry = 1 /\ entry \in DOMAIN nodes
    BY EntersFirst DEF PathInv
  <1>3. 1 \in 0..(Len(nodes) + 1)
    BY <1>2 DEF PathInv, Drawn
  <1> DEFINE next == [NoRun EXCEPT !.phase = "running", !.at = entry, !.payload = payload,
                                  !.policy = workspace, !.sessions = Sessions(payload),
                                  !.seen = LoadPersistedMemory(entries, ReaderOf(payload))]
  <1>4. next.phase = "running" /\ next.at = 1 /\ next.why = Blank /\ next.policy = workspace
    BY <1>2 DEF NoRun
  <1>5. runs' = [runs EXCEPT ![r] = next]
    BY <1>1
  <1> HIDE DEF next
  <1>6. Fits(next)
    BY <1>3, <1>4, WhyIsReason DEF Fits, Phases
  <1> QED  BY <1>5, <1>6, OneFits DEF Begin, policyVars

LEMMA NoRunFits ==
    /\ Len(nodes) \in Nat => Fits(NoRun)
    /\ Len(nodes') \in Nat => Fits(NoRun)'
  <1>1. NoRun.phase = "none" /\ NoRun.at = 0 /\ NoRun.why = Blank
    BY DEF NoRun
  <1>2. \A n \in Nat : 0 \in 0..(n + 1)
    OBVIOUS
  <1>3. Blank # "field" /\ Blank # "policy" /\ Blank \in Reasons
    BY WhyIsReason
  <1> QED  BY <1>1, <1>2, <1>3 DEF Fits, Phases

-----------------------------------------------------------------------------
(* What a firing tells.                                                    *)

\* What a trigger made of its job, whatever was left blank.
JobFields == {"node", "schedule", "enabled", "deleteAfterRun", "payload", "sessionTarget", "sessionKey",
              "clearAgent", "wakeMode", "delivery", "bestEffort", "failureAlert"}
Tells(job) ==
    /\ DOMAIN job = JobFields
    /\ job.payload.kind # "flowTrigger" => job.payload.text # Blank
    /\ job.payload.kind = "agentTurn" => BuildAgentSessionKey(job) # Blank
    /\ DOMAIN job.failureAlert = {"mode", "to", "after"} /\ job.failureAlert.after \in Nat

LEMMA BuiltTells ==
    ASSUME NEW id
    PROVE  Tells(CronJobOf(nodes, id)) /\ CronJobOf(nodes, id).enabled \in BOOLEAN
  <1> PICK data, kind, target, job : /\ data = nodes[id].data /\ kind = GetCronExecutionKind(data)
                                     /\ target = GetCronSessionTarget(data)
                                     /\ job = CronJobOf(nodes, id)
    OBVIOUS
  <1>1. /\ DOMAIN job = JobFields /\ job.enabled \in BOOLEAN
        /\ job.payload = BuildCronPayload(data) /\ job.sessionTarget = target
        /\ job.sessionKey = IF kind = "agentTurn" THEN data.sessionKey ELSE Blank
        /\ job.failureAlert = BuildCronFailureAlert(data)
    BY DEF CronJobOf, JobFields
  <1>2. kind \in {"agentTurn", "systemEvent", "flowTrigger"}
    BY DEF GetCronExecutionKind
  <1>3. BuildCronPayload(data).kind = kind /\ (kind # "flowTrigger" => BuildCronPayload(data).text # Blank)
    BY <1>2, Placeholders DEF BuildCronPayload, OrElse
  <1>4. kind = "agentTurn" =>
          target = "isolated" \/ (target = "session" /\ data.sessionKey # Blank)
    BY DEF GetCronSessionTarget
  <1>5. kind = "agentTurn" => BuildAgentSessionKey(job) # Blank
    BY <1>1, <1>4, Placeholders DEF BuildAgentSessionKey
  <1>6. DOMAIN BuildCronFailureAlert(data) = {"mode", "to", "after"} /\ BuildCronFailureAlert(data).after \in Nat
    <2>1. data.failureAlertAfter \in PositiveNumbers => NumberOf[data.failureAlertAfter] \in Nat
      BY NumbersAssumption
    <2> QED  BY <2>1 DEF BuildCronFailureAlert
  <1> QED  BY <1>1, <1>2, <1>3, <1>5, <1>6 DEF Tells

LEMMA MadeTells ==
    ASSUME NEW job, Made(job)
    PROVE  Tells(job)
  <1>1. PICK built \in ReadFlowCronTriggerNodes(nodes), enabled \in BOOLEAN :
          job = [built EXCEPT !.enabled = enabled]
    BY DEF Made
  <1>2. \E id : built = CronJobOf(nodes, id)
    BY <1>1 DEF ReadFlowCronTriggerNodes
  <1>3. Tells(built)
    BY <1>2, BuiltTells
  <1>4. /\ DOMAIN job = DOMAIN built
        /\ job.payload = built.payload /\ job.sessionTarget = built.sessionTarget
        /\ job.sessionKey = built.sessionKey /\ job.failureAlert = built.failureAlert
    BY <1>1, <1>3 DEF Tells, JobFields
  <1>5. BuildAgentSessionKey(job) = BuildAgentSessionKey(built)
    BY <1>4 DEF BuildAgentSessionKey
  <1> QED  BY <1>3, <1>4, <1>5 DEF Tells

LEMMA NeverSkips ==
    ASSUME NEW job, Tells(job), NEW execution \in ExecuteCronJob(job)
    PROVE  execution.status \in {"ok", "error"}
  <1> DEFINE Ended(cleared) == {[status |-> s, cleared |-> cleared] : s \in {"ok", "error"}}
             failed == [status |-> "error", cleared |-> FALSE]
  <1>1. /\ job.payload.kind # "flowTrigger" => job.payload.text # Blank
        /\ job.payload.kind = "agentTurn" => BuildAgentSessionKey(job) # Blank
    BY DEF Tells
  <1>2. execution \in Ended(FALSE) \cup Ended(TRUE) \cup {failed}
    BY <1>1 DEF ExecuteCronJob
  <1>3. \A cleared : \A e \in Ended(cleared) : e.status \in {"ok", "error"}
    OBVIOUS
  <1>4. failed.status = "error"
    OBVIOUS
  <1> HIDE DEF Ended, failed
  <1> QED  BY <1>2, <1>3, <1>4

LEMMA AlertReaches ==
    ASSUME NEW job, Tells(job), NEW errors \in Nat, NEW alert \in MaybeSendCronFailureAlert(job, errors)
    PROVE  /\ alert = "none" /\ errors # 0 =>
                job.failureAlert.mode = "none" \/ job.failureAlert.after > errors
           /\ alert = "nowhere" => {job.failureAlert.to, job.delivery.to} = {Blank}
  <1>1. PICK target : target = ResolveFailureAlertTarget(job)
    OBVIOUS
  <1>2. /\ target.mode = job.failureAlert.mode /\ target.after = job.failureAlert.after
        /\ target.to = OrElse(job.failureAlert.to, job.delivery.to)
    BY <1>1 DEF ResolveFailureAlertTarget, Tells
  <1>3. \/ alert = "none" /\ (errors = 0 \/ target.mode = "none" \/ errors < target.after)
        \/ alert \in PostTo(target.to)
    BY <1>1 DEF MaybeSendCronFailureAlert
  <1>4. alert \in PostTo(target.to) => alert # "none" /\ (alert = "nowhere" => target.to = Blank)
    BY DEF PostTo
  <1>5. target.to = Blank => job.failureAlert.to = Blank /\ job.delivery.to = Blank
    BY <1>2 DEF OrElse
  <1>6. job.failureAlert.after \in Nat
    BY DEF Tells
  <1>7. alert = "none" /\ errors # 0 => job.failureAlert.mode = "none" \/ job.failureAlert.after > errors
    BY <1>2, <1>3, <1>4, <1>6
  <1>8. alert = "nowhere" => job.failureAlert.to = Blank /\ job.delivery.to = Blank
    BY <1>3, <1>4, <1>5
  <1> QED  BY <1>7, <1>8

\* What is recorded of a firing, said of the job it was.
Reported(report, job) ==
    /\ report.status = "ok" /\ report.delivery = "not-delivered" => job.bestEffort
    /\ report.status = "error" /\ report.alert = "none" =>
         job.failureAlert.mode = "none" \/ job.failureAlert.after > report.errors
    /\ report.alert = "nowhere" => {job.failureAlert.to, job.delivery.to} = {Blank}

LEMMA ReportTells ==
    ASSUME NEW job, Tells(job), NEW execution \in ExecuteCronJob(job), NEW before \in Nat,
           NEW report \in Reports(job, execution, before)
    PROVE  /\ report.status \in {"ok", "error"} /\ report.errors \in 0..(before + 1)
           /\ Reported(report, job)
  <1>1. execution.status \in {"ok", "error"}
    BY NeverSkips
  <1>2. PICK delivery, session :
          LET ended == FinalStatus(job, execution.status, delivery)
              errors == IF ended = "ok" THEN 0 ELSE before + 1
          IN  \E alert \in MaybeSendCronFailureAlert(job, errors) :
                report = [status |-> ended, errors |-> errors, delivery |-> delivery, alert |-> alert,
                          session |-> session, cleared |-> execution.cleared]
    BY DEF Reports
  <1>3. PICK ended, errors : /\ ended = FinalStatus(job, execution.status, delivery)
                             /\ errors = IF ended = "ok" THEN 0 ELSE before + 1
    OBVIOUS
  <1>4. PICK alert \in MaybeSendCronFailureAlert(job, errors) :
          report = [status |-> ended, errors |-> errors, delivery |-> delivery, alert |-> alert,
                    session |-> session, cleared |-> execution.cleared]
    BY <1>2, <1>3
  <1>5. ended \in {"ok", "error"} /\ (ended = "ok" /\ delivery = "not-delivered" => job.bestEffort)
    BY <1>1, <1>3 DEF FinalStatus
  <1>6. errors \in Nat /\ errors \in 0..(before + 1) /\ (ended = "error" => errors # 0)
    BY <1>3, <1>5
  <1>7. /\ alert = "none" /\ errors # 0 =>
             job.failureAlert.mode = "none" \/ job.failureAlert.after > errors
        /\ alert = "nowhere" => {job.failureAlert.to, job.delivery.to} = {Blank}
    BY <1>4, <1>6, AlertReaches
  <1>8. /\ report.status = ended /\ report.errors = errors /\ report.delivery = delivery
        /\ report.alert = alert
    BY <1>4
  <1> QED  BY <1>5, <1>6, <1>7, <1>8 DEF Reported

-----------------------------------------------------------------------------
(* What is published holds.                                                *)

\* A step leaves all but the runs and the memory alone.
LEMMA StepsOnly ==
    ASSUME NEW r \in Runs, Step(r)
    PROVE  UNCHANGED <<flowVars, policyVars, status, requests, firing, profileVars>>
  <1>1. \E next : Settle(r, next)
    <2>1. CASE PlainStep(r)
      BY <2>1 DEF PlainStep
    <2>2. CASE MemoryWriteStep(r) \/ MemoryQueryStep(r) \/ BindContextStep(r)
      BY <2>2 DEF MemoryWriteStep, MemoryQueryStep, BindContextStep
    <2>3. CASE ExecNodeStep(r)
      BY <2>3 DEF ExecNodeStep
    <2>4. CASE ChannelReplyNodeStep(r) \/ ChannelRouteNodeStep(r)
      <3>1. ASSUME NEW profile, NEW asked, NEW keep, Deliver(r, profile, asked, keep)
            PROVE  \E next : Settle(r, next)
        BY <3>1 DEF Deliver
      <3> QED  BY <2>4, <3>1 DEF ChannelReplyNodeStep, ChannelRouteNodeStep
    <2> QED  BY <2>1, <2>2, <2>3, <2>4 DEF Step
  <1> QED  BY <1>1 DEF Settle

\* No firing has been skipped, and what was recorded of the last one is true of
\* every job that is left.
Fired ==
    /\ firing.status \in {"none", "ok", "error"} /\ firing.errors \in 0..requests
    /\ \A job \in jobs : Made(job) /\ Reported(firing, job)
    /\ ~published => jobs = {} /\ firing = NoFiring

Surrounded ==
    /\ edits \in 0..(MaxEdits + MaxCronEdits) /\ requests \in 0..MaxRequests
    /\ published \in BOOLEAN /\ changed \in BOOLEAN
    /\ adapter \in AdapterPolicies /\ workspace \in WorkspacePolicies /\ status \in Statuses

PublicationInv == Surrounded /\ Configured /\ Checked /\ Fired /\ Fitting

LEMMA NothingFired ==
    /\ NoFiring.status = "none" /\ NoFiring.errors = 0
    /\ \A job : Reported(NoFiring, job)
  <1>1. NoFiring.status = "none" /\ NoFiring.errors = 0 /\ NoFiring.alert = "none"
    BY DEF NoFiring
  <1> QED  BY <1>1 DEF Reported

LEMMA SurroundedInitially == Init => Surrounded
  <1> SUFFICES ASSUME Init PROVE Surrounded
    OBVIOUS
  <1>1. edits = 0 /\ requests = 0 /\ published \in BOOLEAN /\ changed \in BOOLEAN
    BY DEF Init
  <1>2. adapter \in AdapterPolicies /\ workspace \in WorkspacePolicies /\ status \in Statuses
    BY DEF Init
  <1>3. 0 \in 0..(MaxEdits + MaxCronEdits) /\ 0 \in 0..MaxRequests
    BY BoundsAssumption
  <1> QED  BY <1>1, <1>2, <1>3 DEF Surrounded

LEMMA SurroundedInductive == Surrounded /\ [Next]_vars => Surrounded'
  <1> SUFFICES ASSUME Surrounded, [Next]_vars PROVE Surrounded'
    OBVIOUS
  <1> USE BoundsAssumption DEF Surrounded
  <1>1. CASE UNCHANGED vars
    BY <1>1 DEF vars, flowVars, policyVars
  <1>2. ASSUME NEW i \in DOMAIN nodes, EditField(i) PROVE Surrounded'
    <2>1. /\ edits < (IF "trigger.cron" \in Types THEN MaxCronEdits ELSE MaxEdits)
          /\ edits' = edits + 1
          /\ UNCHANGED <<published, changed, adapter, workspace, status, requests>>
      BY <1>2 DEF EditField, policyVars
    <2> QED  BY <2>1
  <1>3. CASE Publish
    BY <1>3 DEF Publish
  <1>4. ASSUME NEW policy \in WorkspacePolicies, UpdateExecPolicy(policy) PROVE Surrounded'
    BY <1>4 DEF UpdateExecPolicy, flowVars
  <1>5. ASSUME NEW policy \in AdapterPolicies, RestartAdapter(policy) PROVE Surrounded'
    BY <1>5 DEF RestartAdapter, flowVars
  <1>6. ASSUME NEW s \in Statuses, ChannelsChange(s) PROVE Surrounded'
    BY <1>6 DEF ChannelsChange, flowVars, policyVars
  <1>7. CASE ProfileRequest
    <2>1. /\ requests' = requests + 1 \/ requests' = requests
          /\ requests' <= MaxRequests
          /\ UNCHANGED <<edits, published, changed, adapter, workspace, status>>
      BY <1>7 DEF ProfileRequest, flowVars, policyVars
    <2> QED  BY <2>1
  <1>8. CASE FireJob
    <2>1. /\ requests < MaxRequests /\ requests' = requests + 1
          /\ UNCHANGED <<edits, published, changed, adapter, workspace, status>>
      <3>1. UNCHANGED policyVars /\ UNCHANGED status
        BY <1>8 DEF FireJob, Begin
      <3>2. UNCHANGED <<edits, published>>
        BY <1>8 DEF FireJob
      <3> QED  BY <1>8, <3>1, <3>2 DEF FireJob, policyVars
    <2> QED  BY <2>1
  <1>9. ASSUME NEW r \in Runs, StartRun(r) PROVE Surrounded'
    BY <1>9 DEF StartRun, Begin, flowVars, policyVars
  <1>10. ASSUME NEW r \in Runs, Approve(r) \/ Resume(r) PROVE Surrounded'
    BY <1>10 DEF Approve, Resume, flowVars, policyVars
  <1>11. ASSUME NEW r \in Runs, Step(r) PROVE Surrounded'
    <2>1. UNCHANGED <<flowVars, policyVars, status, requests>>
      BY <1>11, StepsOnly
    <2> QED  BY <2>1 DEF flowVars, policyVars
  <1> QED  BY <1>1, <1>2, <1>3, <1>4, <1>5, <1>6, <1>7, <1>8, <1>9, <1>10, <1>11 DEF Next

LEMMA PublicationInitially == Init => PublicationInv
  <1> SUFFICES ASSUME Init PROVE PublicationInv
    OBVIOUS
  <1>1. PICK path \in Paths : Draw(path)
    BY DEF Init
  <1>2. ~published /\ jobs = {} /\ firing = NoFiring /\ requests = 0 /\ \A r \in Runs : runs[r] = NoRun
    BY DEF Init
  <1>3. Configured
    BY <1>1, DrawsConfigured
  <1>4. Checked
    BY <1>2 DEF Checked
  <1>5. Fired
    BY <1>2, NothingFired DEF Fired
  <1>6. Fitting
    <2>1. Len(nodes) \in Nat
      BY PathInitially DEF PathInv, Drawn
    <2> QED  BY <1>2, <2>1, NoRunFits DEF Fitting
  <1> QED  BY <1>3, <1>4, <1>5, <1>6, SurroundedInitially DEF PublicationInv

\* A job stays what its trigger made of it, whether it is left on or not.
LEMMA StaysMade ==
    ASSUME NEW job, Made(job), NEW on \in BOOLEAN, NEW remains, remains = [job EXCEPT !.enabled = on]
    PROVE  Made(remains) /\ \A report : Reported(report, job) => Reported(report, remains)
  <1>1. PICK built \in ReadFlowCronTriggerNodes(nodes), enabled \in BOOLEAN :
          job = [built EXCEPT !.enabled = enabled]
    BY DEF Made
  <1>2. DOMAIN job = JobFields
    BY MadeTells DEF Tells
  <1>3. remains = [built EXCEPT !.enabled = on]
    BY <1>1
  <1>4. /\ remains.bestEffort = job.bestEffort /\ remains.failureAlert = job.failureAlert
        /\ remains.delivery = job.delivery
    BY <1>2 DEF JobFields
  <1> QED  BY <1>1, <1>3, <1>4 DEF Made, Reported

\* What was just published is as its trigger made it.
LEMMA StartsMade ==
    ASSUME NEW job \in ReadFlowCronTriggerNodes(nodes)
    PROVE  Made(job)
  <1>1. PICK id : job = CronJobOf(nodes, id)
    BY DEF ReadFlowCronTriggerNodes
  <1>2. job = [job EXCEPT !.enabled = job.enabled] /\ job.enabled \in BOOLEAN
    BY <1>1, BuiltTells DEF CronJobOf
  <1> QED  BY <1>1, <1>2 DEF Made

LEMMA FiringTells ==
    ASSUME Fired, requests \in Nat, FireJob
    PROVE  Fired'
  <1>1. PICK job \in jobs : \E execution \in ExecuteCronJob(job) :
          /\ firing' \in Reports(job, execution, firing.errors)
          /\ jobs' = {[job EXCEPT !.enabled = ~(firing'.status = "ok" /\ job.deleteAfterRun)]}
    BY DEF FireJob
  <1>2. Made(job) /\ Tells(job)
    BY MadeTells DEF Fired
  <1>3. firing.errors \in Nat /\ firing.errors \in 0..requests
    BY DEF Fired
  <1>4. /\ firing'.status \in {"ok", "error"} /\ firing'.errors \in 0..(firing.errors + 1)
        /\ Reported(firing', job)
    BY <1>1, <1>2, <1>3, ReportTells
  <1>5. published /\ published' = published /\ nodes' = nodes /\ requests' = requests + 1
    BY <1>1 DEF FireJob, Fired
  <1>6. firing'.errors \in 0..requests'
    BY <1>3, <1>4, <1>5
  <1>7. PICK on \in BOOLEAN : jobs' = {[job EXCEPT !.enabled = on]}
    <2>1. CASE firing'.status = "ok" /\ job.deleteAfterRun
      BY <1>1, <2>1
    <2>2. CASE ~(firing'.status = "ok" /\ job.deleteAfterRun)
      BY <1>1, <2>2
    <2> QED  BY <2>1, <2>2
  <1> PICK remains : remains = [job EXCEPT !.enabled = on]
    OBVIOUS
  <1>8. Made(remains) /\ Reported(firing', remains)
    BY <1>2, <1>4, StaysMade
  <1>9. Made(remains)'
    BY <1>5, <1>8 DEF Made
  <1> QED  BY <1>4, <1>5, <1>6, <1>7, <1>8, <1>9 DEF Fired

LEMMA FiredUntouched ==
    ASSUME Fired, UNCHANGED <<firing, jobs, published, nodes>>,
           requests \in Nat, requests' \in {requests, requests + 1}
    PROVE  Fired'
  <1>1. firing.errors \in 0..requests => firing.errors \in 0..requests'
    OBVIOUS
  <1>2. \A job : Made(job) => Made(job)'
    BY DEF Made
  <1> QED  BY <1>1, <1>2 DEF Fired

LEMMA CheckedUntouched ==
    ASSUME Checked, Configured, UNCHANGED <<nodes, published>>, changed' \/ UNCHANGED <<changed, adapter, workspace>>
    PROVE  Checked' /\ Configured'
  BY DEF Checked, Configured, Edges

LEMMA PublicationInductive ==
    RunsShaped /\ PathInv /\ PublicationInv /\ [Next]_vars => PublicationInv'
  <1> SUFFICES ASSUME RunsShaped, PathInv, PublicationInv, [Next]_vars
               PROVE  Configured' /\ Checked' /\ Fired' /\ Fitting'
    BY SurroundedInductive DEF PublicationInv
  <1>1. /\ Surrounded /\ Configured /\ Checked /\ Fired /\ Fitting /\ Drawn /\ Len(nodes) \in Nat
        /\ requests \in Nat
    BY DEF PublicationInv, PathInv, Drawn, Surrounded
  <1>2. CASE UNCHANGED vars
    BY <1>1, <1>2, CheckedUntouched, FiredUntouched, AllFit DEF vars, flowVars, policyVars
  <1>3. ASSUME NEW i \in DOMAIN nodes, EditField(i)
        PROVE  Configured' /\ Checked' /\ Fired' /\ Fitting'
    <2>1. ~published /\ UNCHANGED <<published, jobs, runs, firing, requests>>
      BY <1>3 DEF EditField
    <2>2. Configured' /\ Drawn'
      BY <1>1, <1>3, EditsConfigured, EditsWell
    <2>3. Checked'
      BY <2>1 DEF Checked
    <2>4. Fired'
      BY <1>1, <2>1 DEF Fired
    <2>5. ASSUME NEW r \in Runs PROVE Fits(runs[r])'
      <3>1. Fits(NoRun)'
        BY <2>2, NoRunFits DEF Drawn
      <3>2. runs'[r] = NoRun
        BY <2>1 DEF PathInv
      <3> QED  BY <3>1, <3>2
    <2> QED  BY <2>2, <2>3, <2>4, <2>5 DEF Fitting
  <1>4. CASE Publish
    <2>1. /\ ~published /\ UNCHANGED <<nodes, adapter, workspace, runs, firing, requests>>
          /\ jobs' = ReadFlowCronTriggerNodes(nodes)
          /\ Cardinality(GetExecutableTriggerNodes(nodes)) = 1
          /\ ValidateFlowSemantics(nodes, Edges)
          /\ ValidateExecPublishPolicy(adapter, workspace, {nodes[i] : i \in DOMAIN nodes})
          /\ published'
      BY <1>4 DEF Publish
    <2>2. Checked' /\ Configured'
      BY <1>1, <2>1 DEF Checked, Configured, Edges
    <2>3. Fired'
      <3>1. ASSUME NEW job \in jobs' PROVE Made(job)' /\ Reported(NoFiring, job)
        <4>1. Made(job)
          BY <2>1, StartsMade
        <4> QED  BY <2>1, <4>1, NothingFired DEF Made
      <3>2. firing' = NoFiring
        BY <1>1, <2>1 DEF Fired
      <3> QED  BY <1>1, <2>1, <3>1, <3>2 DEF Fired
    <2>4. ASSUME NEW r \in Runs PROVE Fits(runs[r])'
      <3>1. Fits(NoRun)'
        BY <1>1, <2>1, NoRunFits
      <3>2. runs'[r] = NoRun
        BY <2>1 DEF PathInv
      <3> QED  BY <3>1, <3>2
    <2> QED  BY <2>2, <2>3, <2>4 DEF Fitting
  <1>5. ASSUME NEW policy, UpdateExecPolicy(policy) \/ RestartAdapter(policy)
        PROVE  Configured' /\ Checked' /\ Fired' /\ Fitting'
    <2>1. changed' /\ requests' = requests + 1 /\ UNCHANGED <<nodes, published, jobs, runs, firing>>
      BY <1>5 DEF UpdateExecPolicy, RestartAdapter, flowVars
    <2> QED  BY <1>1, <2>1, CheckedUntouched, FiredUntouched, AllFit
  <1>6. ASSUME (\E s : ChannelsChange(s)) \/ ProfileRequest
        PROVE  Configured' /\ Checked' /\ Fired' /\ Fitting'
    <2>1. /\ requests' \in {requests, requests + 1}
          /\ UNCHANGED <<nodes, published, jobs, runs, firing, changed, adapter, workspace>>
      BY <1>6 DEF ChannelsChange, ProfileRequest, flowVars, policyVars
    <2> QED  BY <1>1, <2>1, CheckedUntouched, FiredUntouched, AllFit
  <1>7. CASE FireJob
    <2>1. Fired'
      BY <1>1, <1>7, FiringTells
    <2>2. UNCHANGED <<nodes, published, changed, adapter, workspace>>
      BY <1>7 DEF FireJob, Begin, policyVars
    <2>3. Checked' /\ Configured'
      BY <1>1, <2>2, CheckedUntouched
    <2>4. \/ UNCHANGED runs
          \/ \E r \in Runs : \E job : Begin(r, {EventOfJob(job)}, Payload(NoFields, NoFields, 0))
      BY <1>7 DEF FireJob
    <2>5. ASSUME NEW r \in Runs, NEW job, Begin(r, {EventOfJob(job)}, Payload(NoFields, NoFields, 0))
          PROVE  Fitting'
      <3>1. EventOfJob(job).type = "cron" /\ "cron" \in DOMAIN TriggerOfEvent
        BY DEF EventOfJob, TriggerOfEvent
      <3> QED  BY <1>1, <2>2, <2>5, <3>1, BeginFits
    <2> QED  BY <1>1, <2>1, <2>2, <2>3, <2>4, <2>5, AllFit
  <1>8. ASSUME NEW r \in Runs, StartRun(r)
        PROVE  Configured' /\ Checked' /\ Fired' /\ Fitting'
    <2>1. PICK payload \in Payloads : Begin(r, Events \cup {BuildTriggerPlan(nodes)}, payload)
      BY <1>8 DEF StartRun
    <2>2. UNCHANGED <<nodes, published, jobs, changed, adapter, workspace, firing, requests>>
      BY <1>8, <2>1 DEF StartRun, Begin, flowVars, policyVars
    <2>3. \A event \in Events \cup {BuildTriggerPlan(nodes)} :
            event.type \in DOMAIN TriggerOfEvent \cup {"manual"}
      BY EventsAssumption, PlanIsKnown
    <2> QED  BY <1>1, <2>1, <2>2, <2>3, CheckedUntouched, FiredUntouched, BeginFits
  <1>9. ASSUME NEW r \in Runs, Approve(r) \/ Resume(r)
        PROVE  Configured' /\ Checked' /\ Fired' /\ Fitting'
    <2>1. UNCHANGED <<nodes, published, jobs, changed, adapter, workspace, firing, requests>>
      BY <1>9 DEF Approve, Resume, flowVars, policyVars
    <2> QED  BY <1>1, <1>9, <2>1, CheckedUntouched, FiredUntouched, DecisionFits
  <1>10. ASSUME NEW r \in Runs, Step(r)
         PROVE  Configured' /\ Checked' /\ Fired' /\ Fitting'
    <2>1. UNCHANGED <<nodes, published, jobs, changed, adapter, workspace, firing, requests>>
      BY <1>10, StepsOnly DEF flowVars, policyVars
    <2>2. runs[r].phase = "running"
      BY <1>10 DEF Step
    <2>3. \/ PlainStep(r) \/ MemoryWriteStep(r) \/ MemoryQueryStep(r) \/ BindContextStep(r)
          \/ ExecNodeStep(r) \/ ChannelReplyNodeStep(r) \/ ChannelRouteNodeStep(r)
      BY <1>10 DEF Step
    <2>4. Fitting'
      BY <1>1, <2>2, <2>3, PlainFits, MemoryFits, ExecFits, ReplyFits
    <2> QED  BY <1>1, <2>1, <2>4, CheckedUntouched, FiredUntouched
  <1> QED  BY <1>2, <1>3, <1>4, <1>5, <1>6, <1>7, <1>8, <1>9, <1>10 DEF Next

\* What the publication of a draft checks (routers/flows.ts 391) its requests,
\* runs and job find (execution.ts 593 and 770, flow-executor.ts 3271,
\* cron-job-service.ts 614 and 1005): whatever the paths, the fields, the
\* policies, the payloads and the bounds are, a request that asks for what the
\* trigger does, its sample, a managed task and the event of its job enter the
\* flow, no run fails for a field that was checked, or for its policy before one
\* changed unless its command is a template, and a firing is told as it went.
THEOREM Publishing == Spec => []PublicationHolds
  <1>1. RunsShaped /\ PathInv /\ PublicationInv /\ EntriesOwned /\ ProfilesInv => PublicationHolds
    <2> SUFFICES ASSUME PathInv, PublicationInv, EntriesOwned, ProfilesInv PROVE PublicationHolds
      OBVIOUS
    <2>1. /\ Surrounded /\ Configured /\ Checked /\ Fired /\ Fitting /\ Drawn
      BY DEF PublicationInv, PathInv
    <2>2. \A job \in jobs : Made(job) /\ Reported(firing, job)
      BY <2>1 DEF Fired
    <2>3. ~published => jobs = {}
      BY <2>1 DEF Fired
    <2>4. /\ EveryTriggerIsReached /\ SampleStartsFlow /\ ManagedTasksEnter /\ JobEntersFlow
          /\ \A job \in jobs : job.schedule # NoSchedule
      BY <2>1, <2>2, <2>3, PublishedFinds
    <2>5. PublishedCanRun /\ BlockedMeansChanged
      BY <2>1 DEF Fitting, Fits, PublishedCanRun, BlockedMeansChanged, Current
    <2>6. JobReports
      BY <2>1, <2>2 DEF Fired, Reported, JobReports
    <2>7. TypeOK
      <3>1. \A r \in Runs : /\ runs[r].phase \in Phases /\ runs[r].why \in Reasons
                            /\ runs[r].at \in 0..(Len(nodes) + 1)
        BY <2>1 DEF Fitting, Fits
      <3>2. \A r \in Runs : (runs[r].phase = "failed") = (runs[r].why # Blank)
        BY <2>1, Zenon DEF Fitting, Fits
      <3>3. \A e \in entries : e.value \in Runs
        BY DEF EntriesOwned, OfItsSession
      <3>4. grown \in BOOLEAN
        BY DEF ProfilesInv, ProfilesTyped
      <3>5. firing.status \in {"none", "ok", "error", "skipped"} /\ firing.errors \in 0..MaxRequests
        BY <2>1, BoundsAssumption DEF Fired, Surrounded
      <3>6. \A i \in DOMAIN nodes : DOMAIN nodes[i].data = DOMAIN NODE_CATALOG[nodes[i].type].defaults
        BY <2>1 DEF Configured
      <3> QED  BY <2>1, <2>4, <3>1, <3>2, <3>3, <3>4, <3>5, <3>6, Zenon DEF TypeOK, Surrounded
    <2> QED  BY <2>4, <2>5, <2>6, <2>7 DEF PublicationHolds
  <1>2. Spec => []EntriesOwned
    <2>1. MemoryInv => EntriesOwned
      BY DEF MemoryInv
    <2> QED  BY <2>1, MemoryInitially, MemoryInductive, PTL DEF Spec
  <1>3. Spec => []ProfilesInv
    <2>1. Init => ProfilesInv
      BY ProfilesInitially DEF Init
    <2> QED  BY <2>1, ProfilesInductive, ProfilesApart, PTL DEF Spec
  <1>4. Spec => []PublicationInv
    BY PublicationInitially, PublicationInductive, Shaping, Advancing, PTL DEF Spec
  <1> QED  BY <1>1, <1>2, <1>3, <1>4, Shaping, Advancing, PTL

=============================================================================
