---------------------------- MODULE AuthSessions ----------------------------
(***************************************************************************)
(* Accounts, sessions and password resets (apps/adapter/src/auth-service.ts*)
(* and routers/auth.ts), with authentication required.                     *)
(*                                                                         *)
(* No handler opens a transaction: every statement is a step, and hashing  *)
(* a password is an await between two of them.  Passwords are told apart   *)
(* by the order in which the user was given them.                          *)
(***************************************************************************)
EXTENDS Naturals, FiniteSets

CONSTANTS
    Users,
    Sessions,     \* bound: rows of auth_sessions, reused
    Tokens,       \* bound: password reset tokens, reused once they are used up
    Requests,     \* bound: requests under way at a time
    MaxPasswords  \* bound: passwords of a user

ASSUME BoundAssumption == MaxPasswords \in Nat \ {0}
ASSUME NobodyAssumption == "nobody" \notin Users

VARIABLES
    password,   \* the last one of each user, 0 for no account
    session,
    token,
    op,         \* the requests
    resetTo,    \* history: the password of the last reset that has completed
    uses,       \* history: how often a token has set a password
    shared,     \* history: tokens that two requests had found open at a time
    twice       \* history: users for whom two tokens were issued at a time

vars == <<password, session, token, op, resetTo, uses, shared, twice>>

-----------------------------------------------------------------------------
Nobody == "nobody"
\* with: the password a session was opened with; late: when a reset had completed.
NoSession == [user |-> Nobody, with |-> 0, late |-> FALSE]
NoToken   == [user |-> Nobody, open |-> FALSE]
Idle      == [pc |-> "idle", user |-> Nobody, with |-> 0, of |-> {}]

Init ==
    /\ password = [u \in Users |-> 0]
    /\ session = [s \in Sessions |-> NoSession]
    /\ token = [t \in Tokens |-> NoToken]
    /\ op = [r \in Requests |-> Idle]
    /\ resetTo = [u \in Users |-> 0]
    /\ uses = [t \in Tokens |-> 0]
    /\ shared = {} /\ twice = {}

At(r, pc)   == op[r].pc = pc
Go(r, o)    == op' = [op EXCEPT ![r] = o]
Step(r, pc) == Go(r, [op[r] EXCEPT !.pc = pc])
Ends(r)     == Go(r, Idle)
Of(u)       == {s \in Sessions : session[s].user = u}
Revoke(ss)  == session' = [s \in Sessions |-> IF s \in ss THEN NoSession ELSE session[s]]
History     == <<resetTo, uses, shared, twice>>

\* updateUserPassword
SetPassword(u) ==
    /\ password[u] < MaxPasswords
    /\ password' = [password EXCEPT ![u] = @ + 1]

-----------------------------------------------------------------------------
(* Sessions.                                                               *)

\* bootstrap and acceptInvite create the account and sign in; addMember only
\* creates it, which is the same with the session never opened.
SignUp(r, u) ==
    /\ At(r, "idle") /\ password[u] = 0
    /\ SetPassword(u)
    /\ Go(r, [Idle EXCEPT !.pc = "open", !.user = u, !.with = 1])
    /\ UNCHANGED <<session, token, History>>

\* login: the user is read, and the password checked against what was read.
Login(r, u) ==
    /\ At(r, "idle") /\ password[u] # 0
    /\ Go(r, [Idle EXCEPT !.pc = "open", !.user = u, !.with = password[u]])
    /\ UNCHANGED <<password, session, token, History>>

\* createAuthSession
OpenSession(r, s) ==
    /\ At(r, "open") /\ session[s] = NoSession
    /\ session' = [session EXCEPT ![s] =
           [user |-> op[r].user, with |-> op[r].with, late |-> op[r].with < resetTo[op[r].user]]]
    /\ Ends(r)
    /\ UNCHANGED <<password, token, History>>

\* The session has ended by itself.
Expire(s) ==
    /\ session[s] # NoSession
    /\ Revoke({s})
    /\ UNCHANGED <<password, token, op, History>>

\* resolveAuthContext, for the requests that revoke: logout, one session, all others.
RevokeAsked(r, s, which) ==
    /\ At(r, "idle") /\ session[s] # NoSession
    /\ Go(r, [Idle EXCEPT !.pc = which, !.user = session[s].user, !.of = {s}])
    /\ UNCHANGED <<password, session, token, History>>

Logout(r)        == At(r, "logout") /\ Revoke(op[r].of)
RevokeSession(r) == At(r, "logout") /\ \E s \in Of(op[r].user) : Revoke({s})
RevokeOthers(r)  == At(r, "others") /\ Revoke(Of(op[r].user) \ op[r].of)

RevokeSessions(r) ==
    /\ Logout(r) \/ RevokeSession(r) \/ RevokeOthers(r)
    /\ Ends(r)
    /\ UNCHANGED <<password, token, History>>

\* Mutant: a session that has ended is not told from one that lasts.
ChangeAskedByAnyone(r, s) ==
    /\ At(r, "idle")
    /\ Go(r, [Idle EXCEPT !.pc = "change", !.user = session[s].user])
    /\ UNCHANGED <<password, session, token, History>>

\* changePassword: the current password is checked against what was read.
ChangeAsked(r, s) ==
    /\ At(r, "idle") /\ session[s] # NoSession
    /\ Go(r, [Idle EXCEPT !.pc = "change", !.user = session[s].user])
    /\ UNCHANGED <<password, session, token, History>>

\* The sessions of the user go on.
Change(r) ==
    /\ At(r, "change")
    /\ SetPassword(op[r].user)
    /\ Ends(r)
    /\ UNCHANGED <<session, token, History>>

-----------------------------------------------------------------------------
(* Password resets.                                                        *)

Issuing(u) == {r \in Requests : At(r, "issue") /\ op[r].user = u}

\* Mutant: the tokens that were issued before stay good.
IssueAnother(r, u) ==
    /\ At(r, "idle") /\ password[u] # 0
    /\ Go(r, [Idle EXCEPT !.pc = "issue", !.user = u])
    /\ twice' = IF Issuing(u) = {} THEN twice ELSE twice \cup {u}
    /\ UNCHANGED <<password, session, token, resetTo, uses, shared>>

\* issuePasswordResetToken: the open tokens of the user are used up ...
Issue(r, u) ==
    /\ At(r, "idle") /\ password[u] # 0
    /\ token' = [t \in Tokens |-> [token[t] EXCEPT !.open = @ /\ token[t].user # u]]
    /\ Go(r, [Idle EXCEPT !.pc = "issue", !.user = u])
    /\ twice' = IF Issuing(u) = {} THEN twice ELSE twice \cup {u}
    /\ UNCHANGED <<password, session, resetTo, uses, shared>>

Holds(r, t) == (At(r, "consume") \/ At(r, "write")) /\ t \in op[r].of

\* ... and a new one is inserted, and mailed.
IssueToken(r, t) ==
    /\ At(r, "issue") /\ ~token[t].open /\ ~\E q \in Requests : Holds(q, t)
    /\ token' = [token EXCEPT ![t] = [user |-> op[r].user, open |-> TRUE]]
    /\ uses' = [uses EXCEPT ![t] = 0]
    /\ shared' = shared \ {t}
    /\ Ends(r)
    /\ UNCHANGED <<password, session, resetTo, twice>>

ExpireToken(t) ==
    /\ token[t].open
    /\ token' = [token EXCEPT ![t].open = FALSE]
    /\ UNCHANGED <<password, session, op, History>>

\* consumePasswordResetToken: the token is found open ...
ResetAsked(r, t) ==
    /\ At(r, "idle") /\ token[t].open
    /\ shared' = IF \A q \in Requests : At(q, "consume") => t \notin op[q].of
                 THEN shared ELSE shared \cup {t}
    /\ Go(r, [Idle EXCEPT !.pc = "consume", !.user = token[t].user, !.of = {t}])
    /\ UNCHANGED <<password, session, token, resetTo, uses, twice>>

\* Mutant: it is not used up.
ConsumeLater(r) ==
    /\ At(r, "consume")
    /\ Step(r, "write")
    /\ UNCHANGED <<password, session, token, History>>

\* ... and used up, open or not by now.
Consume(r) ==
    /\ At(r, "consume")
    /\ token' = [t \in Tokens |-> [token[t] EXCEPT !.open = @ /\ t \notin op[r].of]]
    /\ Step(r, "write")
    /\ UNCHANGED <<password, session, History>>

\* The password is set ...
Write(r) ==
    /\ At(r, "write")
    /\ SetPassword(op[r].user)
    /\ uses' = [t \in Tokens |-> IF t \in op[r].of /\ uses[t] < 2 THEN uses[t] + 1
                                 ELSE uses[t]]
    /\ Go(r, [op[r] EXCEPT !.pc = "revoke", !.with = password[op[r].user] + 1])
    /\ UNCHANGED <<session, token, resetTo, shared, twice>>

\* Mutant: a session is kept, as by revokeOtherAuthSessions.
RevokeAllButOne(r) ==
    /\ At(r, "revoke")
    /\ \E keep \in Sessions : Revoke(Of(op[r].user) \ {keep})
    /\ resetTo' = [resetTo EXCEPT ![op[r].user] =
                       IF op[r].with > @ THEN op[r].with ELSE @]
    /\ Ends(r)
    /\ UNCHANGED <<password, token, uses, shared, twice>>

\* ... and every session of the user ends.
RevokeAll(r) ==
    /\ At(r, "revoke")
    /\ Revoke(Of(op[r].user))
    /\ resetTo' = [resetTo EXCEPT ![op[r].user] =
                       IF op[r].with > @ THEN op[r].with ELSE @]
    /\ Ends(r)
    /\ UNCHANGED <<password, token, uses, shared, twice>>

-----------------------------------------------------------------------------
\* A statement fails, or the request ends with the process.
Fails(r) ==
    /\ ~At(r, "idle")
    /\ Ends(r)
    /\ UNCHANGED <<password, session, token, History>>

SessionStep(r) ==
    \/ \E u \in Users : SignUp(r, u) \/ Login(r, u)
    \/ \E s \in Sessions : OpenSession(r, s) \/ ChangeAsked(r, s)
                           \/ \E which \in {"logout", "others"} : RevokeAsked(r, s, which)
    \/ RevokeSessions(r) \/ Change(r)

ResetStep(r) ==
    \/ \E u \in Users : Issue(r, u)
    \/ \E t \in Tokens : IssueToken(r, t) \/ ResetAsked(r, t)
    \/ Consume(r) \/ Write(r) \/ RevokeAll(r)

Next ==
    \/ \E r \in Requests : SessionStep(r) \/ ResetStep(r) \/ Fails(r)
    \/ \E s \in Sessions : Expire(s)
    \/ \E t \in Tokens : ExpireToken(t)

Spec == Init /\ [][Next]_vars

-----------------------------------------------------------------------------
Steps == {"idle", "open", "logout", "others", "change", "issue", "consume",
          "write", "revoke"}

TypeOK ==
    /\ password \in [Users -> 0 .. MaxPasswords]
    /\ session \in [Sessions -> [user : Users \cup {Nobody}, with : 0 .. MaxPasswords,
                                 late : BOOLEAN]]
    /\ token \in [Tokens -> [user : Users \cup {Nobody}, open : BOOLEAN]]
    /\ op \in [Requests -> [pc : Steps, user : Users \cup {Nobody},
                            with : 0 .. MaxPasswords, of : SUBSET (Sessions \cup Tokens)]]
    /\ \A r \in Requests : ~At(r, "idle") => op[r].user # Nobody
    /\ resetTo \in [Users -> 0 .. MaxPasswords]
    /\ uses \in [Tokens -> 0 .. 2]
    /\ shared \subseteq Tokens /\ twice \subseteq Users

(* Once a reset has completed, no session is left that was opened with an     *)
(* earlier password, except by a sign-in that had checked that password and   *)
(* opens its session after the reset (routers/auth.ts 119-132, 245-253).      *)
ResetEndsSessions ==
    \A s \in Sessions : session[s] # NoSession /\ ~session[s].late
        => session[s].with >= resetTo[session[s].user]

(* A reset token sets a password once, however often it is presented and      *)
(* wherever a request fails, unless two requests find it open at a time       *)
(* (auth-service.ts 316-340).                                                 *)
TokenUsedOnce == \A t \in Tokens \ shared : uses[t] <= 1

(* Of the reset tokens of a user only the last is open, unless two were       *)
(* issued at a time (auth-service.ts 280-314).                                *)
OneTokenOpen ==
    \A u \in Users \ twice : Cardinality({t \in Tokens : token[t].user = u /\ token[t].open}) <= 1

(* Issued, used or outdated, a reset token opens an account at most once.     *)
TokensSpent == TypeOK /\ OneTokenOpen /\ TokenUsedOnce
=============================================================================
