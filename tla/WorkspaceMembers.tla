-------------------------- MODULE WorkspaceMembers --------------------------
(***************************************************************************)
(* One workspace, its members and invites (apps/adapter/src/workspaces.ts, *)
(* routers/workspaces.ts, routers/auth.ts).                                *)
(*                                                                         *)
(* A request reads its context (who asks, and as what) when it begins; no  *)
(* handler opens a transaction, so every statement is a step and requests  *)
(* interleave between any two of them.  A user stands for an email.        *)
(***************************************************************************)
EXTENDS FiniteSets, Naturals

CONSTANTS
    Users, Invites,
    Requests     \* bound: requests under way at a time

ASSUME UsersAssumption == Users # {} /\ "none" \notin Users \cup Invites

VARIABLES
    isDefault,   \* is this the workspace that bootstrap makes?
    made,        \* its row exists
    account,     \* users that have an account
    member,      \* workspace_memberships: a role, or "none"
    invite,
    op,          \* the requests
    grantedBy,   \* history: the role of whoever made each owner an owner
    left,        \* history: users that were removed
    clean        \* history: no owner was demoted, no two removals overlapped, and
                 \* no creation was cut short

membersVars == <<isDefault, made, account, member, invite, op, grantedBy, left, clean>>

-----------------------------------------------------------------------------
Roles    == {"owner", "admin", "member"}
Managers == {"owner", "admin"}     \* workspaceCanManageMembers

NoInvite == [state |-> "none", email |-> "none", role |-> "none", by |-> "none"]

\* by: who is to be a member, or removes; as: the role a request is made in;
\* target, role: what is asked; todo: invites read.
Idle == [pc |-> "idle", by |-> "none", as |-> "none", target |-> "none",
         role |-> "none", todo |-> {}]

\* Users who are there already can only make a workspace of their own.
MembersInit ==
    /\ isDefault \in BOOLEAN
    /\ account = IF isDefault THEN {} ELSE {CHOOSE u \in Users : TRUE}
    /\ made = FALSE
    /\ member = [u \in Users |-> "none"]
    /\ invite = [i \in Invites |-> NoInvite]
    /\ op = [r \in Requests |-> Idle]
    /\ grantedBy = [u \in Users |-> "none"]
    /\ left = {}
    /\ clean = TRUE

Pending(i) == invite[i].state = "pending"
Owners     == {u \in Users : member[u] = "owner"}
At(r, pc)  == op[r].pc = pc
Go(r, o)   == op' = [op EXCEPT ![r] = o]
Advance(r, pc) == Go(r, [op[r] EXCEPT !.pc = pc])
Ends(r)    == Go(r, Idle)

\* createWorkspaceMembership: a row is inserted, or its role replaced.
Upsert(u, role, by) ==
    /\ member' = [member EXCEPT ![u] = role]
    /\ grantedBy' = [grantedBy EXCEPT ![u] = IF role = "owner" THEN by ELSE "none"]
    /\ left' = left \ {u}
    /\ clean' = (clean /\ (member[u] = "owner" => role = "owner"))

NoUpsert == UNCHANGED <<member, grantedBy, left, clean>>

-----------------------------------------------------------------------------
(* The workspace comes to exist: bootstrap, or create.                     *)

\* countUsers and ensureDefaultWorkspace.
Bootstrap(r, u) ==
    /\ isDefault /\ At(r, "idle") /\ account = {}
    /\ made' = TRUE
    /\ Go(r, [Idle EXCEPT !.pc = "firstUser", !.by = u])
    /\ UNCHANGED <<isDefault, account, member, invite, grantedBy, left, clean>>

\* Mutant: the owner is made a member before there is an account.
BootstrapMember(r) ==
    /\ At(r, "firstUser")
    /\ Upsert(op[r].by, "owner", "nobody")
    /\ Advance(r, "firstUser")
    /\ UNCHANGED <<isDefault, made, account, invite>>

\* createUser: the email is unique.
BootstrapUser(r) ==
    /\ At(r, "firstUser")
    /\ IF op[r].by \in account
       THEN Ends(r) /\ UNCHANGED account
       ELSE Advance(r, "firstOwner") /\ account' = account \cup {op[r].by}
    /\ NoUpsert
    /\ UNCHANGED <<isDefault, made, invite>>

\* The slug is free and the row inserted; slugs are unique.
Create(r, u) ==
    /\ ~isDefault /\ ~made /\ At(r, "idle") /\ u \in account
    /\ made' = TRUE
    /\ Go(r, [Idle EXCEPT !.pc = "firstOwner", !.by = u])
    /\ UNCHANGED <<isDefault, account, member, invite, grantedBy, left, clean>>

FirstOwner(r) ==
    /\ At(r, "firstOwner")
    /\ Upsert(op[r].by, "owner", "nobody")
    /\ Ends(r)
    /\ UNCHANGED <<isDefault, made, account, invite>>

-----------------------------------------------------------------------------
(* Invites.                                                                *)

Asks(u, pc) == [Idle EXCEPT !.pc = pc, !.as = member[u]]

\* Mutant: an administrator may invite an owner.
MayGrantAny(as, role) == as \in Managers

\* requireWorkspaceRole, and that only owners grant ownership.
MayGrant(as, role) == as \in Managers /\ (role = "owner" => as = "owner")

\* The context of createInvite is read; an invite that cannot be given is refused.
InviteAsked(r, u, e, role) ==
    /\ At(r, "idle") /\ MayGrant(member[u], role)
    /\ \E i \in Invites : invite[i].state = "none"      \* bound
    /\ Go(r, [Asks(u, "invite") EXCEPT !.target = e, !.role = role])
    /\ NoUpsert
    /\ UNCHANGED <<isDefault, made, account, invite>>

CreateInvite(r, i) ==
    /\ At(r, "invite") /\ invite[i].state = "none"
    /\ invite' = [invite EXCEPT ![i] = [state |-> "pending", email |-> op[r].target,
                                        role |-> op[r].role, by |-> op[r].as]]
    /\ Ends(r)
    /\ NoUpsert
    /\ UNCHANGED <<isDefault, made, account>>

\* The invite is read; expiry is not looked at.
RevokeRead(r, u, i) ==
    /\ At(r, "idle") /\ member[u] \in Managers
    /\ invite[i].state \in {"pending", "expired"}
    /\ Go(r, [Asks(u, "revoke") EXCEPT !.todo = {i}])
    /\ NoUpsert
    /\ UNCHANGED <<isDefault, made, account, invite>>

\* It is revoked, accepted in the meantime or not.
RevokeWrite(r) ==
    /\ At(r, "revoke")
    /\ invite' = [i \in Invites |->
           IF i \notin op[r].todo THEN invite[i]
           ELSE [invite[i] EXCEPT !.state = IF @ \in {"accepted", "both"} THEN "both"
                                      ELSE "revoked"]]
    /\ Ends(r)
    /\ NoUpsert
    /\ UNCHANGED <<isDefault, made, account>>

Expire(i) ==
    /\ Pending(i)
    /\ invite' = [invite EXCEPT ![i].state = "expired"]
    /\ NoUpsert
    /\ UNCHANGED <<isDefault, made, account, op>>

\* acceptInvite: the invite is pending and nobody has its email.
AcceptRead(r, i) ==
    /\ At(r, "idle") /\ account # {} /\ Pending(i)
    /\ invite[i].email \notin account
    /\ Go(r, [Idle EXCEPT !.pc = "newUser", !.by = invite[i].email, !.todo = {i}])
    /\ NoUpsert
    /\ UNCHANGED <<isDefault, made, account, invite>>

AcceptUser(r) ==
    /\ At(r, "newUser")
    /\ IF op[r].by \in account
       THEN Ends(r) /\ UNCHANGED account
       ELSE Advance(r, "reread") /\ account' = account \cup {op[r].by}
    /\ NoUpsert
    /\ UNCHANGED <<isDefault, made, invite>>

\* acceptWorkspaceInviteToken reads the invite again.
AcceptAgain(r) ==
    /\ At(r, "reread")
    /\ IF \A i \in op[r].todo : Pending(i) THEN Advance(r, "grant") ELSE Ends(r)
    /\ NoUpsert
    /\ UNCHANGED <<isDefault, made, account, invite>>

\* login: acceptPendingWorkspaceInvites reads the invites for the email.
Login(r, u) ==
    LET mine == {i \in Invites : Pending(i) /\ invite[i].email = u}
    IN  /\ At(r, "idle") /\ u \in account /\ mine # {}
        /\ Go(r, [Idle EXCEPT !.pc = "grant", !.by = u, !.todo = mine])
        /\ NoUpsert
        /\ UNCHANGED <<isDefault, made, account, invite>>

Accepted(i) == [invite EXCEPT ![i].state = IF @ \in {"revoked", "both"} THEN "both"
                                           ELSE "accepted"]

\* Mutant: the invite is marked, then the membership granted.
GrantMarks(r, i) ==
    /\ At(r, "grant") /\ i \in op[r].todo
    /\ invite' = Accepted(i)
    /\ Go(r, [op[r] EXCEPT !.pc = "mark", !.target = i])
    /\ NoUpsert
    /\ UNCHANGED <<isDefault, made, account>>

\* The membership, with the role of the invite ...
Grant(r, i) ==
    /\ At(r, "grant") /\ i \in op[r].todo
    /\ Upsert(op[r].by, invite[i].role, invite[i].by)
    /\ Go(r, [op[r] EXCEPT !.pc = "mark", !.target = i])
    /\ UNCHANGED <<isDefault, made, account, invite>>

\* ... then the mark on the invite, and the next one.
Mark(r) ==
    /\ At(r, "mark")
    /\ invite' = Accepted(op[r].target)
    /\ LET rest == op[r].todo \ {op[r].target}
       IN  IF rest = {} THEN Ends(r)
           ELSE Go(r, [op[r] EXCEPT !.pc = "grant", !.target = "none", !.todo = rest])
    /\ NoUpsert
    /\ UNCHANGED <<isDefault, made, account>>

-----------------------------------------------------------------------------
(* Members.                                                                *)

\* addMember, with the data of an account for a user that has none.
AddAsked(r, u, e, role) ==
    /\ At(r, "idle") /\ member[u] \in Managers
    /\ Go(r, [Asks(u, IF e \in account THEN "addMember" ELSE "addUser")
              EXCEPT !.target = e, !.role = role])
    /\ NoUpsert
    /\ UNCHANGED <<isDefault, made, account, invite>>

AddUser(r) ==
    /\ At(r, "addUser")
    /\ IF op[r].target \in account
       THEN Ends(r) /\ UNCHANGED account
       ELSE Advance(r, "addMember") /\ account' = account \cup {op[r].target}
    /\ NoUpsert
    /\ UNCHANGED <<isDefault, made, invite>>

\* Who may not grant ownership is refused here, with the account made.
AddMember(r) ==
    /\ At(r, "addMember")
    /\ IF MayGrant(op[r].as, op[r].role)
       THEN Upsert(op[r].target, op[r].role, op[r].as) ELSE NoUpsert
    /\ Ends(r)
    /\ UNCHANGED <<isDefault, made, account, invite>>

\* updateMemberRole, having read the membership.
RoleAsked(r, u, e, role) ==
    /\ At(r, "idle") /\ member[u] = "owner" /\ member[e] # "none"
    /\ Go(r, [Asks(u, "setRole") EXCEPT !.target = e, !.role = role])
    /\ NoUpsert
    /\ UNCHANGED <<isDefault, made, account, invite>>

\* An update of a row that is gone changes nothing; owners are not counted.
SetRole(r) ==
    /\ At(r, "setRole")
    /\ IF member[op[r].target] = "none" THEN NoUpsert
       ELSE Upsert(op[r].target, op[r].role, op[r].as)
    /\ Ends(r)
    /\ UNCHANGED <<isDefault, made, account, invite>>

\* removeMember: the context and then the membership of somebody else are read.
RemoveAsked(r, u) ==
    /\ At(r, "idle") /\ member[u] = "owner"
    /\ Go(r, [Asks(u, "remove") EXCEPT !.by = u])
    /\ NoUpsert
    /\ UNCHANGED <<isDefault, made, account, invite>>

RemoveRead(r, e) ==
    /\ At(r, "remove") /\ member[e] # "none" /\ e # op[r].by
    /\ Go(r, [Idle EXCEPT !.pc = "count", !.target = e, !.role = member[e]])
    /\ NoUpsert
    /\ UNCHANGED <<isDefault, made, account, invite>>

\* Mutant: whoever asks is an owner and stays, so nobody is counted.
MayRemoveAny(role) == TRUE

\* A workspace must keep at least one owner.
MayRemove(role) == role = "owner" => Cardinality(Owners) > 1

RemoveCount(r) ==
    /\ At(r, "count")
    /\ IF MayRemove(op[r].role) THEN Advance(r, "delete") ELSE Ends(r)
    /\ UNCHANGED <<isDefault, made, account, invite, member, grantedBy, left>>
    /\ clean' = (clean /\ \A q \in Requests : ~At(q, "delete"))

RemoveDelete(r) ==
    /\ At(r, "delete")
    /\ member' = [member EXCEPT ![op[r].target] = "none"]
    /\ left' = left \cup {op[r].target}
    /\ Ends(r)
    \* the member may have become an owner since its role was read
    /\ clean' = (clean /\ (member[op[r].target] = "owner" => op[r].role = "owner"))
    /\ grantedBy' = [grantedBy EXCEPT ![op[r].target] = "none"]
    /\ UNCHANGED <<isDefault, made, account, invite>>

-----------------------------------------------------------------------------
\* A statement fails, or the request ends with the process.
Fails(r) ==
    /\ ~At(r, "idle")
    /\ Ends(r)
    /\ clean' = (clean /\ ~At(r, "firstOwner") /\ ~At(r, "firstUser"))
    /\ UNCHANGED <<isDefault, made, account, member, invite, grantedBy, left>>

Founding(r) == (\E u \in Users : Bootstrap(r, u) \/ Create(r, u))
               \/ BootstrapUser(r) \/ FirstOwner(r)

Inviting(r) ==
    \/ \E u, e \in Users, role \in Roles : InviteAsked(r, u, e, role)
    \/ \E i \in Invites : CreateInvite(r, i) \/ AcceptRead(r, i) \/ Grant(r, i)
                          \/ \E u \in Users : RevokeRead(r, u, i)
    \/ \E u \in Users : Login(r, u)
    \/ RevokeWrite(r) \/ AcceptUser(r) \/ AcceptAgain(r) \/ Mark(r)

Managing(r) ==
    \/ \E u, e \in Users, role \in Roles : AddAsked(r, u, e, role) \/ RoleAsked(r, u, e, role)
    \/ AddUser(r) \/ AddMember(r) \/ SetRole(r)
    \/ \E u \in Users : RemoveAsked(r, u) \/ RemoveRead(r, u)
    \/ RemoveCount(r) \/ RemoveDelete(r)

MembersNext ==
    \/ \E r \in Requests : Founding(r) \/ Inviting(r) \/ Managing(r) \/ Fails(r)
    \/ \E i \in Invites : Expire(i)

MembersSpec == MembersInit /\ [][MembersNext]_membersVars

-----------------------------------------------------------------------------
InviteStates == {"none", "pending", "expired", "revoked", "accepted", "both"}
Steps == {"idle", "firstUser", "firstOwner", "invite", "revoke", "newUser", "reread",
          "grant", "mark", "addUser", "addMember", "setRole", "remove", "count", "delete"}

MembersTypeOK ==
    /\ isDefault \in BOOLEAN /\ made \in BOOLEAN /\ clean \in BOOLEAN
    /\ account \subseteq Users /\ left \subseteq Users
    /\ member \in [Users -> Roles \cup {"none"}]
    /\ \A u \in Users : member[u] # "none" => u \in account
    /\ \A i \in Invites : invite[i] = NoInvite \/ invite[i] \in
          [state : InviteStates, email : Users, role : Roles, by : Managers]
    /\ \A r \in Requests : op[r] \in
          [pc : Steps, by : Users \cup {"none"}, as : Roles \cup {"none"},
           target : Users \cup Invites \cup {"none"}, role : Roles \cup {"none"},
           todo : SUBSET Invites]
    /\ grantedBy \in [Users -> Managers \cup {"nobody", "none"}]

(* A workspace keeps an owner, whoever removes whom in the role of an owner   *)
(* that has been removed itself in the meantime, as long as no owner is       *)
(* demoted by a change of role or an invite, no two removals count before     *)
(* either deletes, and its creation was not cut short                         *)
(* (routers/workspaces.ts 717-743).                                           *)
KeepsAnOwner ==
    clean /\ made /\ (\A r \in Requests : ~At(r, "firstUser") /\ ~At(r, "firstOwner"))
        => Owners # {}

(* An invite that is marked as accepted has made its user a member, however   *)
(* far the request got, unless the member was removed since                   *)
(* (workspaces.ts 299-314, 334-347).                                          *)
AcceptedAreMembers ==
    \A i \in Invites : invite[i].state \in {"accepted", "both"}
        => member[invite[i].email] # "none" \/ invite[i].email \in left

(* An owner was made an owner by the creation of the workspace or by somebody *)
(* who asked as an owner, directly or through an invite accepted later        *)
(* (routers/workspaces.ts 426-431, 591-596, 646).                             *)
OwnersMakeOwners == \A u \in Owners : grantedBy[u] \in {"nobody", "owner"}

(* Who is a member was let in, and who is an owner was made one by an owner.  *)
RolesEarned == MembersTypeOK /\ AcceptedAreMembers /\ OwnersMakeOwners
=============================================================================
