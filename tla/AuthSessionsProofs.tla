------------------------- MODULE AuthSessionsProofs -------------------------
(***************************************************************************)
(* Reset tokens are spent once and a completed reset ends the sessions of  *)
(* its user, for any users, sessions, tokens and requests.                 *)
(***************************************************************************)
EXTENDS AuthSessions, FiniteSetTheorems, TLAPS

\* The domains of the variables, by name.
People     == Users \cup {Nobody}
Levels     == 0 .. MaxPasswords
Asked      == SUBSET (Sessions \cup Tokens)
SessionRow == [user : People, with : Levels, late : BOOLEAN]
TokenRow   == [user : People, open : BOOLEAN]
Request    == [pc : Steps, user : People, with : Levels, of : Asked]
Domains ==
    /\ password \in [Users -> Levels]
    /\ session \in [Sessions -> SessionRow]
    /\ token \in [Tokens -> TokenRow]
    /\ op \in [Requests -> Request]
    /\ resetTo \in [Users -> Levels]
    /\ uses \in [Tokens -> 0 .. 2]
    /\ shared \subseteq Tokens /\ twice \subseteq Users

\* A session, an open token and a request under way belong to a user.
Owned ==
    /\ \A s \in Sessions : session[s] # NoSession => session[s].user \in Users
    /\ \A t \in Tokens : token[t].open => token[t].user \in Users
    /\ \A r \in Requests : op[r].pc # "idle" => op[r].user \in Users

\* A token is open or about to be used only as long as it has set no password,
\* and then one request has it, which closes it before it writes.
Open(t)    == token[t].open
Writes(r, t) == At(r, "write") /\ t \in op[r].of
WrittenClosed == \A r \in Requests, t \in Tokens : Writes(r, t) => ~Open(t)
HeldByOne ==
    \A t \in Tokens \ shared : \A q, r \in Requests : Holds(q, t) /\ Holds(r, t) => q = r
FreshWhileGood ==
    \A t \in Tokens \ shared : (Open(t) \/ \E r \in Requests : Holds(r, t)) => uses[t] = 0
UseInv == WrittenClosed /\ HeldByOne /\ FreshWhileGood /\ TokenUsedOnce

\* Who issues a token for a user is alone, has closed those before, and opens
\* a single one.
OneIssues == \A u \in Users \ twice : \A q, r \in Issuing(u) : q = r
NoneOpen  == \A u \in Users \ twice : Issuing(u) # {} =>
                 \A t \in Tokens : Open(t) => token[t].user # u
OneOpen   == \A u \in Users \ twice : \A t1, t2 \in Tokens :
                 /\ Open(t1) /\ token[t1].user = u
                 /\ Open(t2) /\ token[t2].user = u
                 => t1 = t2
IssueInv == OneIssues /\ NoneOpen /\ OneOpen

Typing == Domains /\ Owned
IInv == Typing /\ UseInv /\ IssueInv /\ ResetEndsSessions

-----------------------------------------------------------------------------
(* Lemmas about the operators.                                             *)

LEMMA LevelFacts ==
    /\ Levels \subseteq Nat
    /\ 0 \in Levels
    /\ 1 \in Levels
    /\ \A n \in Levels : n < MaxPasswords => n + 1 \in Levels
    /\ \A n \in Levels : n <= MaxPasswords
  BY BoundAssumption DEF Levels

\* A step of a request changes no other.
LEMMA GoOne ==
    ASSUME Domains, NEW r \in Requests, NEW o, Go(r, o)
    PROVE  /\ \A q \in Requests : op'[q] = IF q = r THEN o ELSE op[q]
           /\ o \in Request => op' \in [Requests -> Request]
  BY DEF Domains, Go

LEMMA IdleIsRequest == Idle \in Request /\ Idle.pc = "idle"
  BY LevelFacts DEF Idle, Request, People, Steps, Asked

LEMMA RevokeOnly ==
    ASSUME Domains, NEW ss, Revoke(ss)
    PROVE  /\ session' \in [Sessions -> SessionRow]
           /\ \A s \in Sessions : session'[s] = IF s \in ss THEN NoSession ELSE session[s]
  <1>1. NoSession \in SessionRow
    BY LevelFacts DEF NoSession, SessionRow, People
  <1> QED  BY <1>1 DEF Domains, Revoke

-----------------------------------------------------------------------------
(* Types and owners.                                                       *)

LEMMA TypingInit == Init => Typing
  <1> SUFFICES ASSUME Init PROVE Typing
    OBVIOUS
  <1>1. NoSession \in SessionRow /\ NoToken \in TokenRow
    BY LevelFacts DEF NoSession, NoToken, SessionRow, TokenRow, People
  <1>2. Domains
    BY <1>1, LevelFacts, IdleIsRequest DEF Init, Domains
  <1>3. Owned
    BY IdleIsRequest DEF Init, Owned, NoToken
  <1> QED  BY <1>2, <1>3 DEF Typing

\* A step that replaces one request by another that has a user.
LEMMA TypingGo ==
    ASSUME Typing, NEW r \in Requests, NEW o \in Request, Go(r, o),
           o.pc # "idle" => o.user \in Users
    PROVE  /\ op' \in [Requests -> Request]
           /\ \A q \in Requests : op'[q].pc # "idle" => op'[q].user \in Users
  BY GoOne DEF Typing, Owned

LEMMA TypingEnds ==
    ASSUME Typing, NEW r \in Requests, Ends(r)
    PROVE  /\ op' \in [Requests -> Request]
           /\ \A q \in Requests : op'[q].pc # "idle" => op'[q].user \in Users
  BY TypingGo, IdleIsRequest DEF Ends

\* A new request has the fields it is given.
Fields(o, pc, u, w, a) ==
    o \in Request /\ o.pc = pc /\ o.user = u /\ o.with = w /\ o.of = a

LEMMA Asking ==
    ASSUME NEW pc \in Steps, NEW u \in Users, NEW w \in Levels, NEW a \in Asked
    PROVE  /\ Fields([Idle EXCEPT !.pc = pc, !.user = u, !.with = w], pc, u, w, {})
           /\ Fields([Idle EXCEPT !.pc = pc, !.user = u, !.of = a], pc, u, 0, a)
           /\ Fields([Idle EXCEPT !.pc = pc, !.user = u], pc, u, 0, {})
  <1>1. u \in People /\ 0 \in Levels /\ {} \in Asked
    BY LevelFacts DEF People, Asked
  <1>2. Fields([Idle EXCEPT !.pc = pc, !.user = u, !.with = w], pc, u, w, {})
    BY <1>1 DEF Idle, Fields, Request
  <1>3. Fields([Idle EXCEPT !.pc = pc, !.user = u, !.of = a], pc, u, 0, a)
    BY <1>1 DEF Idle, Fields, Request
  <1>4. Fields([Idle EXCEPT !.pc = pc, !.user = u], pc, u, 0, {})
    BY <1>1 DEF Idle, Fields, Request
  <1> QED  BY <1>2, <1>3, <1>4

\* A request that goes on keeps what it is not given.
LEMMA GoingOn ==
    ASSUME Domains, NEW r \in Requests, NEW pc \in Steps, NEW w \in Levels
    PROVE  /\ Fields([op[r] EXCEPT !.pc = pc], pc, op[r].user, op[r].with, op[r].of)
           /\ Fields([op[r] EXCEPT !.pc = pc, !.with = w], pc, op[r].user, w, op[r].of)
  BY DEF Domains, Fields, Request

\* The request a user asks for has its type, and so has one that goes on.
LEMMA TypingAsks ==
    ASSUME Typing, NEW r \in Requests, NEW o, NEW pc, NEW u \in Users, NEW w, NEW a,
           Go(r, o), Fields(o, pc, u, w, a)
    PROVE  /\ op' \in [Requests -> Request]
           /\ \A q \in Requests : op'[q].pc # "idle" => op'[q].user \in Users
  BY TypingGo DEF Fields

LEMMA TypingStep == Typing /\ [Next]_vars => Typing'
  <1> SUFFICES ASSUME Typing, [Next]_vars PROVE Typing'
    OBVIOUS
  <1> USE DEF Typing
  <1>1. ASSUME NEW r \in Requests, NEW u \in Users, SignUp(r, u) PROVE Typing'
    <2>1. password' \in [Users -> Levels]
      BY <1>1, LevelFacts DEF SignUp, SetPassword, Domains
    <2>2. /\ op' \in [Requests -> Request]
          /\ \A q \in Requests : op'[q].pc # "idle" => op'[q].user \in Users
      <3>1. "open" \in Steps /\ 1 \in Levels /\ {} \in Asked
        BY LevelFacts DEF Steps, Asked
      <3> QED  BY <1>1, <3>1, Asking, TypingAsks DEF SignUp
    <2> QED  BY <1>1, <2>1, <2>2 DEF SignUp, History, Domains, Owned
  <1>2. ASSUME NEW r \in Requests, NEW u \in Users, Login(r, u) PROVE Typing'
    <2>1. /\ op' \in [Requests -> Request]
          /\ \A q \in Requests : op'[q].pc # "idle" => op'[q].user \in Users
      <3>1. "open" \in Steps /\ password[u] \in Levels /\ {} \in Asked
        BY DEF Steps, Asked, Domains
      <3> QED  BY <1>2, <3>1, Asking, TypingAsks DEF Login
    <2> QED  BY <1>2, <2>1 DEF Login, History, Domains, Owned
  <1>3. ASSUME NEW r \in Requests, NEW s \in Sessions, OpenSession(r, s) PROVE Typing'
    <2> DEFINE new == [user |-> op[r].user, with |-> op[r].with,
                       late |-> op[r].with < resetTo[op[r].user]]
    <2>1. new.user \in Users /\ new \in SessionRow
      BY <1>3 DEF OpenSession, At, Domains, Owned, Request, SessionRow, People
    <2>2. session' = [session EXCEPT ![s] = new]
      BY <1>3 DEF OpenSession
    <2> HIDE DEF new
    <2>3. /\ session' \in [Sessions -> SessionRow]
          /\ \A x \in Sessions : session'[x] # NoSession => session'[x].user \in Users
      BY <2>1, <2>2 DEF Domains, Owned
    <2>4. /\ op' \in [Requests -> Request]
          /\ \A q \in Requests : op'[q].pc # "idle" => op'[q].user \in Users
      BY <1>3, TypingEnds DEF OpenSession
    <2> QED  BY <1>3, <2>3, <2>4 DEF OpenSession, History, Domains, Owned
  <1>4. ASSUME NEW ss, Revoke(ss), UNCHANGED <<password, token, op, History>> PROVE Typing'
    BY <1>4, RevokeOnly DEF History, Domains, Owned
  <1>5. ASSUME NEW r \in Requests, NEW s \in Sessions, NEW which \in {"logout", "others"},
               RevokeAsked(r, s, which)
        PROVE  Typing'
    <2>1. session[s].user \in Users
      BY <1>5 DEF RevokeAsked, Owned
    <2>2. which \in Steps /\ 0 \in Levels /\ {s} \in Asked
      BY LevelFacts DEF Steps, Asked
    <2>3. /\ op' \in [Requests -> Request]
          /\ \A q \in Requests : op'[q].pc # "idle" => op'[q].user \in Users
      BY <1>5, <2>1, <2>2, Asking, TypingAsks DEF RevokeAsked
    <2> QED  BY <1>5, <2>3 DEF RevokeAsked, History, Domains, Owned
  <1>6. ASSUME NEW r \in Requests, RevokeSessions(r) PROVE Typing'
    <2>1. PICK ss : Revoke(ss)
      BY <1>6 DEF RevokeSessions, Logout, RevokeSession, RevokeOthers
    <2>2. /\ op' \in [Requests -> Request]
          /\ \A q \in Requests : op'[q].pc # "idle" => op'[q].user \in Users
      BY <1>6, TypingEnds DEF RevokeSessions
    <2> QED  BY <1>6, <2>1, <2>2, RevokeOnly DEF RevokeSessions, History, Domains, Owned
  <1>7. ASSUME NEW r \in Requests, NEW s \in Sessions, ChangeAsked(r, s) PROVE Typing'
    <2>1. session[s].user \in Users
      BY <1>7 DEF ChangeAsked, Owned
    <2>2. "change" \in Steps /\ 0 \in Levels /\ {} \in Asked
      BY LevelFacts DEF Steps, Asked
    <2>3. /\ op' \in [Requests -> Request]
          /\ \A q \in Requests : op'[q].pc # "idle" => op'[q].user \in Users
      BY <1>7, <2>1, <2>2, Asking, TypingAsks DEF ChangeAsked
    <2> QED  BY <1>7, <2>3 DEF ChangeAsked, History, Domains, Owned
  <1>8. ASSUME NEW r \in Requests, Change(r) PROVE Typing'
    <2>1. password' \in [Users -> Levels]
      BY <1>8, LevelFacts DEF Change, SetPassword, Domains
    <2>2. /\ op' \in [Requests -> Request]
          /\ \A q \in Requests : op'[q].pc # "idle" => op'[q].user \in Users
      BY <1>8, TypingEnds DEF Change
    <2> QED  BY <1>8, <2>1, <2>2 DEF Change, History, Domains, Owned
  <1>9. ASSUME NEW r \in Requests, NEW u \in Users, Issue(r, u) PROVE Typing'
    <2>1. /\ token' \in [Tokens -> TokenRow]
          /\ \A t \in Tokens : token'[t].open => token'[t].user \in Users
      BY <1>9 DEF Issue, Domains, Owned, TokenRow
    <2>2. /\ op' \in [Requests -> Request]
          /\ \A q \in Requests : op'[q].pc # "idle" => op'[q].user \in Users
      <3>1. "issue" \in Steps /\ 0 \in Levels /\ {} \in Asked
        BY LevelFacts DEF Steps, Asked
      <3> QED  BY <1>9, <3>1, Asking, TypingAsks DEF Issue
    <2> QED  BY <1>9, <2>1, <2>2 DEF Issue, Domains, Owned
  <1>10. ASSUME NEW r \in Requests, NEW t \in Tokens, IssueToken(r, t) PROVE Typing'
    <2>1. /\ token' \in [Tokens -> TokenRow]
          /\ \A x \in Tokens : token'[x].open => token'[x].user \in Users
      BY <1>10 DEF IssueToken, At, Domains, Owned, TokenRow, People, Request
    <2>2. /\ op' \in [Requests -> Request]
          /\ \A q \in Requests : op'[q].pc # "idle" => op'[q].user \in Users
      BY <1>10, TypingEnds DEF IssueToken
    <2> QED  BY <1>10, <2>1, <2>2 DEF IssueToken, Domains, Owned
  <1>11. ASSUME NEW r \in Requests, NEW t \in Tokens, ResetAsked(r, t) PROVE Typing'
    <2>1. token[t].user \in Users
      BY <1>11 DEF ResetAsked, Owned
    <2>2. "consume" \in Steps /\ 0 \in Levels /\ {t} \in Asked
      BY LevelFacts DEF Steps, Asked
    <2>3. /\ op' \in [Requests -> Request]
          /\ \A q \in Requests : op'[q].pc # "idle" => op'[q].user \in Users
      BY <1>11, <2>1, <2>2, Asking, TypingAsks DEF ResetAsked
    <2> QED  BY <1>11, <2>3 DEF ResetAsked, Domains, Owned
  <1>12. ASSUME NEW r \in Requests, Consume(r) PROVE Typing'
    <2>1. /\ token' \in [Tokens -> TokenRow]
          /\ \A x \in Tokens : token'[x].open => token'[x].user \in Users
      BY <1>12 DEF Consume, Domains, Owned, TokenRow
    <2>2. "write" \in Steps /\ 0 \in Levels
      BY LevelFacts DEF Steps
    <2>3. op[r].user \in Users
      BY <1>12 DEF Consume, At, Owned
    <2>4. /\ op' \in [Requests -> Request]
          /\ \A q \in Requests : op'[q].pc # "idle" => op'[q].user \in Users
      BY <1>12, <2>2, <2>3, GoingOn, TypingAsks DEF Consume, Step
    <2> QED  BY <1>12, <2>1, <2>4 DEF Consume, History, Domains, Owned
  <1>13. ASSUME NEW r \in Requests, Write(r) PROVE Typing'
    <2>1. op[r].user \in Users
      BY <1>13 DEF Write, At, Owned
    <2>2. "revoke" \in Steps /\ password[op[r].user] + 1 \in Levels
      BY <1>13, <2>1, LevelFacts DEF Write, SetPassword, Domains, Steps
    <2>3. password' \in [Users -> Levels]
      BY <1>13, <2>1, <2>2 DEF Write, SetPassword, Domains
    <2>4. uses' \in [Tokens -> 0 .. 2]
      BY <1>13 DEF Write, Domains
    <2>5. /\ op' \in [Requests -> Request]
          /\ \A q \in Requests : op'[q].pc # "idle" => op'[q].user \in Users
      BY <1>13, <2>1, <2>2, GoingOn, TypingAsks DEF Write
    <2> QED  BY <1>13, <2>3, <2>4, <2>5 DEF Write, Domains, Owned
  <1>14. ASSUME NEW r \in Requests, RevokeAll(r) PROVE Typing'
    <2>1. op[r].user \in Users /\ op[r].with \in Levels
      BY <1>14 DEF RevokeAll, At, Domains, Owned, Request
    <2>2. resetTo' \in [Users -> Levels]
      BY <1>14, <2>1 DEF RevokeAll, Domains
    <2>3. /\ op' \in [Requests -> Request]
          /\ \A q \in Requests : op'[q].pc # "idle" => op'[q].user \in Users
      BY <1>14, TypingEnds DEF RevokeAll
    <2>4. /\ session' \in [Sessions -> SessionRow]
          /\ \A s \in Sessions : session'[s] = session[s] \/ session'[s] = NoSession
      BY <1>14, RevokeOnly DEF RevokeAll
    <2> QED  BY <1>14, <2>2, <2>3, <2>4 DEF RevokeAll, Domains, Owned
  <1>15. ASSUME NEW r \in Requests, Fails(r) PROVE Typing'
    BY <1>15, TypingEnds DEF Fails, History, Domains, Owned
  <1>16. ASSUME NEW t \in Tokens, ExpireToken(t) PROVE Typing'
    BY <1>16 DEF ExpireToken, History, Domains, Owned, TokenRow
  <1>17. CASE UNCHANGED vars
    BY <1>17 DEF vars, Domains, Owned
  <1> QED
    BY <1>1, <1>2, <1>3, <1>4, <1>5, <1>6, <1>7, <1>8, <1>9, <1>10, <1>11, <1>12, <1>13,
       <1>14, <1>15, <1>16, <1>17 DEF Next, SessionStep, ResetStep, Expire

-----------------------------------------------------------------------------
(* The tokens.                                                             *)

\* A step after which no token is open and no request has one that was not
\* and had not keeps what is known of their use.
LEMMA UseKept ==
    ASSUME UseInv, uses' = uses, shared' = shared,
           \A t \in Tokens : Open(t)' => Open(t),
           \A r \in Requests, t \in Tokens :
               (Holds(r, t)' => Holds(r, t)) /\ (Writes(r, t)' => Writes(r, t))
    PROVE  UseInv'
  BY DEF UseInv, WrittenClosed, HeldByOne, FreshWhileGood, TokenUsedOnce

\* Likewise of who issues them.
LEMMA IssueKept ==
    ASSUME IssueInv, twice' = twice,
           \A t \in Tokens : Open(t)' => Open(t) /\ token'[t].user = token[t].user,
           \A u \in Users : Issuing(u)' \subseteq Issuing(u)
    PROVE  IssueInv'
  BY DEF IssueInv, OneIssues, NoneOpen, OneOpen

\* A request that turns to something else has no token and issues none.
LEMMA TurnsAway ==
    ASSUME Typing, NEW r \in Requests, NEW o, Go(r, o)
    PROVE  /\ o.pc \notin {"consume", "write"} =>
                  \A q \in Requests, t \in Tokens :
                      (Holds(q, t)' <=> q # r /\ Holds(q, t)) /\
                      (Writes(q, t)' <=> q # r /\ Writes(q, t))
           /\ o.pc # "issue" =>
                  \A u \in Users : Issuing(u)' = Issuing(u) \ {r}
  <1>1. \A q \in Requests : op'[q] = IF q = r THEN o ELSE op[q]
    BY GoOne DEF Typing
  <1>2. ASSUME o.pc \notin {"consume", "write"}, NEW q \in Requests, NEW t \in Tokens
        PROVE  (Holds(q, t)' <=> q # r /\ Holds(q, t)) /\ (Writes(q, t)' <=> q # r /\ Writes(q, t))
    BY <1>1, <1>2 DEF Holds, Writes, At
  <1>3. ASSUME o.pc # "issue", NEW u \in Users
        PROVE  Issuing(u)' = Issuing(u) \ {r}
    BY <1>1, <1>3 DEF Issuing, At
  <1> QED  BY <1>2, <1>3

LEMMA PlainStep ==
    ASSUME Typing, UseInv, IssueInv, NEW r \in Requests, NEW o, Go(r, o),
           o.pc \notin {"consume", "write", "issue"}, UNCHANGED <<token, uses, shared, twice>>
    PROVE  UseInv' /\ IssueInv'
  <1>1. \A t \in Tokens : Open(t)' <=> Open(t)
    BY DEF Open
  <1>2. UseInv'
    BY <1>1, UseKept, TurnsAway
  <1>3. IssueInv'
    BY <1>1, IssueKept, TurnsAway
  <1> QED  BY <1>2, <1>3

\* A token that is issued is new.
LEMMA IssueTokenStep ==
    ASSUME Typing, UseInv, IssueInv, NEW r \in Requests, NEW t \in Tokens, IssueToken(r, t)
    PROVE  UseInv' /\ IssueInv'
  <1>1. /\ \A q \in Requests, x \in Tokens :
               (Holds(q, x)' <=> q # r /\ Holds(q, x)) /\ (Writes(q, x)' <=> q # r /\ Writes(q, x))
        /\ \A u \in Users : Issuing(u)' = Issuing(u) \ {r}
    BY TurnsAway, IdleIsRequest DEF IssueToken, Ends
  <1>2. /\ token'[t].user = op[r].user /\ Open(t)'
        /\ \A x \in Tokens \ {t} : token'[x] = token[x] /\ uses'[x] = uses[x]
        /\ uses'[t] = 0
    BY DEF IssueToken, Typing, Domains, Open
  <1>3. \A q \in Requests : ~Holds(q, t) /\ ~Writes(q, t)
    BY DEF IssueToken, Holds, Writes
  <1>4. UseInv'
    <2>1. WrittenClosed'
      BY <1>1, <1>2, <1>3 DEF UseInv, WrittenClosed, Open
    <2>2. HeldByOne'
      BY <1>1, <1>3 DEF UseInv, HeldByOne, IssueToken
    <2>3. FreshWhileGood'
      BY <1>1, <1>2, <1>3 DEF UseInv, FreshWhileGood, IssueToken, Open
    <2>4. TokenUsedOnce'
      BY <1>2 DEF UseInv, TokenUsedOnce, IssueToken
    <2> QED  BY <2>1, <2>2, <2>3, <2>4 DEF UseInv
  <1>5. IssueInv'
    <2>1. op[r].user \in Users /\ r \in Issuing(op[r].user)
      BY DEF IssueToken, Issuing, Typing, Owned, At
    <2>2. OneIssues'
      BY <1>1 DEF IssueInv, OneIssues, IssueToken
    <2>3. NoneOpen'
      <3>1. SUFFICES ASSUME NEW u \in Users \ twice, Issuing(u)' # {}, NEW x \in Tokens, Open(x)'
                     PROVE  token'[x].user # u
        BY DEF NoneOpen, IssueToken
      <3>2. PICK q : q \in Issuing(u) /\ q # r
        BY <3>1, <1>1
      <3>3. r \notin Issuing(u)
        BY <3>1, <3>2 DEF IssueInv, OneIssues
      <3>4. u # op[r].user
        BY <3>3, <2>1
      <3>5. Issuing(u) # {}
        BY <3>2
      <3> QED  BY <3>1, <3>4, <3>5, <1>2 DEF IssueInv, NoneOpen, Open
    <2>4. OneOpen'
      <3>1. \A x \in Tokens \ {t}, u \in Users \ twice : token'[x].user = u /\ Open(x)' => u # op[r].user
        BY <2>1, <1>2 DEF IssueInv, NoneOpen, Open
      <3> QED  BY <3>1, <1>2 DEF IssueInv, OneOpen, Open, IssueToken
    <2> QED  BY <2>2, <2>3, <2>4 DEF IssueInv
  <1> QED  BY <1>4, <1>5

\* Whoever issues a token closes those before.
LEMMA IssueStep ==
    ASSUME Typing, UseInv, IssueInv, NEW r \in Requests, NEW u \in Users, Issue(r, u)
    PROVE  UseInv' /\ IssueInv'
  <1> DEFINE o == [Idle EXCEPT !.pc = "issue", !.user = u]
  <1>1. o.pc = "issue" /\ o.user = u
    BY DEF Idle
  <1>2. Go(r, o) /\ At(r, "idle")
    BY DEF Issue
  <1>3. \A x \in Tokens : /\ Open(x)' <=> Open(x) /\ token[x].user # u
                          /\ token'[x].user = token[x].user
    BY DEF Issue, Typing, Domains, Open, TokenRow
  <1> HIDE DEF o
  <1>4. UseInv'
    BY <1>1, <1>2, <1>3, UseKept, TurnsAway DEF Issue
  <1>5. IssueInv'
    <2>1. \A q \in Requests : op'[q] = IF q = r THEN o ELSE op[q]
      BY <1>2, GoOne DEF Typing
    <2>2. \A v \in Users : Issuing(v)' = IF v = u THEN Issuing(v) \cup {r} ELSE Issuing(v)
      <3> SUFFICES ASSUME NEW v \in Users, NEW q \in Requests
                   PROVE  q \in Issuing(v)' <=> q \in Issuing(v) \/ (v = u /\ q = r)
        BY DEF Issuing
      <3> QED  BY <1>1, <1>2, <2>1 DEF Issuing, At
    <2>3. /\ twice \subseteq twice'
          /\ u \notin twice' => Issuing(u) = {}
      BY DEF Issue
    <2>4. OneIssues'
      BY <2>2, <2>3 DEF IssueInv, OneIssues
    <2>5. NoneOpen'
      BY <1>3, <2>2, <2>3 DEF IssueInv, NoneOpen
    <2>6. OneOpen'
      BY <1>3, <2>3 DEF IssueInv, OneOpen
    <2> QED  BY <2>4, <2>5, <2>6 DEF IssueInv
  <1> QED  BY <1>4, <1>5

\* Whoever presents an open token has it alone, or it is shared from then on.
LEMMA ResetAskedStep ==
    ASSUME Typing, UseInv, IssueInv, NEW r \in Requests, NEW t \in Tokens, ResetAsked(r, t)
    PROVE  UseInv' /\ IssueInv'
  <1> DEFINE o == [Idle EXCEPT !.pc = "consume", !.user = token[t].user, !.of = {t}]
  <1>1. o.pc = "consume" /\ o.of = {t}
    BY DEF Idle
  <1>2. Go(r, o) /\ At(r, "idle") /\ Open(t)
    BY DEF ResetAsked, Open
  <1> HIDE DEF o
  <1>3. \A q \in Requests : op'[q] = IF q = r THEN o ELSE op[q]
    BY <1>2, GoOne DEF Typing
  <1>4. \A q \in Requests, x \in Tokens :
            /\ Holds(q, x)' <=> Holds(q, x) \/ (q = r /\ x = t)
            /\ Writes(q, x)' <=> Writes(q, x)
    BY <1>1, <1>2, <1>3 DEF Holds, Writes, At
  <1>5. \A x \in Tokens : Open(x)' <=> Open(x)
    BY DEF ResetAsked, Open
  <1>6. t \notin shared' => \A q \in Requests : ~Holds(q, t)
    <2>1. \A q \in Requests : ~Writes(q, t)
      BY <1>2 DEF UseInv, WrittenClosed
    <2>2. t \notin shared' => \A q \in Requests : At(q, "consume") => t \notin op[q].of
      BY DEF ResetAsked
    <2> QED  BY <2>1, <2>2 DEF Holds, Writes
  <1>7. shared \subseteq shared' /\ uses' = uses
    BY DEF ResetAsked
  <1>8. UseInv'
    <2>1. WrittenClosed'
      BY <1>4, <1>5 DEF UseInv, WrittenClosed
    <2>2. HeldByOne'
      BY <1>4, <1>6, <1>7 DEF UseInv, HeldByOne
    <2>3. FreshWhileGood'
      BY <1>2, <1>4, <1>5, <1>7 DEF UseInv, FreshWhileGood
    <2>4. TokenUsedOnce'
      BY <1>7 DEF UseInv, TokenUsedOnce
    <2> QED  BY <2>1, <2>2, <2>3, <2>4 DEF UseInv
  <1>9. IssueInv'
    <2>1. \A u \in Users : Issuing(u)' \subseteq Issuing(u)
      BY <1>1, <1>2, TurnsAway
    <2> QED  BY <1>5, <2>1, IssueKept DEF ResetAsked
  <1> QED  BY <1>8, <1>9

\* The token is closed before anything is written.
LEMMA ConsumeStep ==
    ASSUME Typing, UseInv, IssueInv, NEW r \in Requests, Consume(r)
    PROVE  UseInv' /\ IssueInv'
  <1> DEFINE o == [op[r] EXCEPT !.pc = "write"]
  <1>1. o.pc = "write" /\ o.of = op[r].of
    BY DEF Typing, Domains, Request
  <1>2. Go(r, o) /\ At(r, "consume")
    BY DEF Consume, Step
  <1> HIDE DEF o
  <1>3. \A q \in Requests : op'[q] = IF q = r THEN o ELSE op[q]
    BY <1>2, GoOne DEF Typing
  <1>4. \A q \in Requests, x \in Tokens :
            /\ Holds(q, x)' <=> Holds(q, x)
            /\ Writes(q, x)' <=> Writes(q, x) \/ (q = r /\ x \in op[r].of)
    BY <1>1, <1>2, <1>3 DEF Holds, Writes, At
  <1>5. \A x \in Tokens : /\ Open(x)' <=> Open(x) /\ x \notin op[r].of
                          /\ token'[x].user = token[x].user
    BY DEF Consume, Typing, Domains, Open, TokenRow
  <1>6. UNCHANGED <<uses, shared, twice>>
    BY DEF Consume, History
  <1>7. UseInv'
    <2>1. WrittenClosed'
      BY <1>4, <1>5 DEF UseInv, WrittenClosed
    <2>2. HeldByOne' /\ FreshWhileGood' /\ TokenUsedOnce'
      BY <1>4, <1>5, <1>6 DEF UseInv, HeldByOne, FreshWhileGood, TokenUsedOnce
    <2> QED  BY <2>1, <2>2 DEF UseInv
  <1>8. IssueInv'
    <2>1. \A u \in Users : Issuing(u)' \subseteq Issuing(u)
      BY <1>1, <1>2, TurnsAway
    <2> QED  BY <1>5, <1>6, <2>1, IssueKept
  <1> QED  BY <1>7, <1>8

\* The password is set with a token that is closed and no longer held.
LEMMA WriteStep ==
    ASSUME Typing, UseInv, IssueInv, NEW r \in Requests, Write(r)
    PROVE  UseInv' /\ IssueInv'
  <1> DEFINE o == [op[r] EXCEPT !.pc = "revoke", !.with = password[op[r].user] + 1]
  <1>1. o.pc = "revoke"
    BY DEF Typing, Domains, Request
  <1>2. Go(r, o) /\ At(r, "write") /\ UNCHANGED <<token, shared, twice>>
    BY DEF Write
  <1> HIDE DEF o
  <1>3. \A q \in Requests, x \in Tokens :
            (Holds(q, x)' <=> q # r /\ Holds(q, x)) /\ (Writes(q, x)' <=> q # r /\ Writes(q, x))
    BY <1>1, <1>2, TurnsAway
  <1>4. \A x \in Tokens : Open(x)' <=> Open(x)
    BY <1>2 DEF Open
  <1>5. \A x \in Tokens : Holds(r, x) <=> x \in op[r].of
    BY <1>2 DEF Holds, At
  <1>6. \A x \in Tokens : Writes(r, x) <=> x \in op[r].of
    BY <1>2 DEF Writes
  <1>7. \A x \in Tokens : uses'[x] = IF x \in op[r].of /\ uses[x] < 2 THEN uses[x] + 1 ELSE uses[x]
    BY DEF Write
  <1>8. UseInv'
    <2>1. WrittenClosed'
      BY <1>3, <1>4 DEF UseInv, WrittenClosed
    <2>2. HeldByOne'
      BY <1>2, <1>3 DEF UseInv, HeldByOne
    <2>3. FreshWhileGood'
      <3>1. SUFFICES ASSUME NEW x \in Tokens \ shared,
                            Open(x)' \/ \E q \in Requests : Holds(q, x)'
                     PROVE  uses'[x] = 0
        BY <1>2 DEF FreshWhileGood
      <3>2. x \notin op[r].of
        <4>1. CASE Open(x)'
          BY <4>1, <1>4, <1>6 DEF UseInv, WrittenClosed
        <4>2. CASE \E q \in Requests : Holds(q, x)'
          BY <4>2, <1>3, <1>5 DEF UseInv, HeldByOne
        <4> QED  BY <3>1, <4>1, <4>2
      <3>3. uses[x] = 0
        BY <3>1, <1>3, <1>4 DEF UseInv, FreshWhileGood
      <3> QED  BY <3>2, <3>3, <1>7
    <2>4. TokenUsedOnce'
      <3>1. ASSUME NEW x \in Tokens \ shared PROVE uses'[x] <= 1
        <4>1. x \in op[r].of => uses[x] = 0
          BY <1>5 DEF UseInv, FreshWhileGood
        <4>2. uses[x] <= 1
          BY DEF UseInv, TokenUsedOnce
        <4> QED  BY <4>1, <4>2, <1>7
      <3> QED  BY <3>1, <1>2 DEF TokenUsedOnce
    <2> QED  BY <2>1, <2>2, <2>3, <2>4 DEF UseInv
  <1>9. IssueInv'
    <2>1. \A u \in Users : Issuing(u)' \subseteq Issuing(u)
      BY <1>1, <1>2, TurnsAway
    <2> QED  BY <1>2, <1>4, <2>1, IssueKept
  <1> QED  BY <1>8, <1>9

LEMMA TokenInit == Init => UseInv /\ IssueInv
  <1> SUFFICES ASSUME Init PROVE UseInv /\ IssueInv
    OBVIOUS
  <1>1. \A r \in Requests : op[r].pc = "idle"
    BY IdleIsRequest DEF Init
  <1>2. \A t \in Tokens : ~Open(t) /\ uses[t] = 0
    BY DEF Init, Open, NoToken
  <1>3. \A r \in Requests, t \in Tokens : ~Holds(r, t) /\ ~Writes(r, t)
    BY <1>1 DEF Holds, Writes, At
  <1>4. \A u \in Users : Issuing(u) = {}
    BY <1>1 DEF Issuing, At
  <1> QED
    BY <1>2, <1>3, <1>4 DEF UseInv, WrittenClosed, HeldByOne, FreshWhileGood, TokenUsedOnce,
       IssueInv, OneIssues, NoneOpen, OneOpen

LEMMA TokenStep ==
    ASSUME Typing, UseInv, IssueInv, [Next]_vars
    PROVE  UseInv' /\ IssueInv'
  <1>1. ASSUME NEW r \in Requests, SessionStep(r) PROVE UseInv' /\ IssueInv'
    <2>1. UNCHANGED <<token, uses, shared, twice>>
      BY <1>1 DEF SessionStep, SignUp, Login, OpenSession, RevokeAsked, RevokeSessions,
                  ChangeAsked, Change, History
    <2>2. \E o : Go(r, o) /\ o.pc \in {"idle", "open", "logout", "others", "change"}
      <3>1. ASSUME NEW u \in Users, SignUp(r, u)
            PROVE  \E o : Go(r, o) /\ o.pc = "open"
        <4> DEFINE o == [Idle EXCEPT !.pc = "open", !.user = u, !.with = 1]
        <4>1. Go(r, o) /\ o.pc = "open"
          BY <3>1 DEF SignUp, Idle
        <4> HIDE DEF o
        <4> QED  BY <4>1
      <3>2. ASSUME NEW u \in Users, Login(r, u)
            PROVE  \E o : Go(r, o) /\ o.pc = "open"
        <4> DEFINE o == [Idle EXCEPT !.pc = "open", !.user = u, !.with = password[u]]
        <4>1. Go(r, o) /\ o.pc = "open"
          BY <3>2 DEF Login, Idle
        <4> HIDE DEF o
        <4> QED  BY <4>1
      <3>3. ASSUME NEW s \in Sessions, ChangeAsked(r, s)
            PROVE  \E o : Go(r, o) /\ o.pc = "change"
        <4> DEFINE o == [Idle EXCEPT !.pc = "change", !.user = session[s].user]
        <4>1. Go(r, o) /\ o.pc = "change"
          BY <3>3 DEF ChangeAsked, Idle
        <4> HIDE DEF o
        <4> QED  BY <4>1
      <3>4. ASSUME NEW s \in Sessions, NEW which \in {"logout", "others"}, RevokeAsked(r, s, which)
            PROVE  \E o : Go(r, o) /\ o.pc = which
        <4> DEFINE o == [Idle EXCEPT !.pc = which, !.user = session[s].user, !.of = {s}]
        <4>1. Go(r, o) /\ o.pc = which
          BY <3>4 DEF RevokeAsked, Idle
        <4> HIDE DEF o
        <4> QED  BY <4>1
      <3>5. ASSUME Ends(r)
            PROVE  \E o : Go(r, o) /\ o.pc = "idle"
        BY <3>5, IdleIsRequest DEF Ends
      <3> QED
        BY <1>1, <3>1, <3>2, <3>3, <3>4, <3>5 DEF SessionStep, OpenSession, RevokeSessions, Change
    <2> QED  BY <2>1, <2>2, PlainStep
  <1>2. ASSUME NEW r \in Requests, RevokeAll(r) \/ Fails(r) PROVE UseInv' /\ IssueInv'
    BY <1>2, PlainStep, IdleIsRequest DEF RevokeAll, Fails, Ends, History
  <1>3. ASSUME NEW r \in Requests, ResetStep(r) PROVE UseInv' /\ IssueInv'
    BY <1>2, <1>3, IssueStep, IssueTokenStep, ResetAskedStep, ConsumeStep, WriteStep DEF ResetStep
  <1>4. ASSUME NEW t \in Tokens, ExpireToken(t) PROVE UseInv' /\ IssueInv'
    <2>1. \A x \in Tokens : Open(x)' => Open(x) /\ token'[x].user = token[x].user
      BY <1>4 DEF ExpireToken, Open, Typing, Domains, TokenRow
    <2>2. UNCHANGED <<op, uses, shared, twice>>
      BY <1>4 DEF ExpireToken, History
    <2> QED
      BY <2>1, <2>2, UseKept, IssueKept DEF Holds, Writes, Issuing, At
  <1>5. ASSUME UNCHANGED <<op, token, uses, shared, twice>> PROVE UseInv' /\ IssueInv'
    BY <1>5, UseKept, IssueKept DEF Holds, Writes, Issuing, At, Open
  <1> QED
    BY <1>1, <1>2, <1>3, <1>4, <1>5 DEF Next, Expire, vars, History

-----------------------------------------------------------------------------
(* The sessions.                                                           *)

\* A session that is opened says whether a reset had completed.
LEMMA SessionsStep ==
    ASSUME Typing, ResetEndsSessions, [Next]_vars
    PROVE  ResetEndsSessions'
  <1>1. ASSUME \A s \in Sessions : session'[s] = session[s] \/ session'[s] = NoSession,
               resetTo' = resetTo
        PROVE  ResetEndsSessions'
    BY <1>1 DEF ResetEndsSessions
  <1>2. ASSUME NEW r \in Requests, SessionStep(r) PROVE ResetEndsSessions'
    <2>1. CASE \E s \in Sessions : OpenSession(r, s)
      <3>1. PICK s \in Sessions : OpenSession(r, s)
        BY <2>1
      <3>2. \A x \in Sessions \ {s} : session'[x] = session[x]
        BY <3>1 DEF OpenSession
      <3>3. resetTo' = resetTo
        BY <3>1 DEF OpenSession, History
      <3>4. session'[s] = [user |-> op[r].user, with |-> op[r].with,
                           late |-> op[r].with < resetTo[op[r].user]]
        BY <3>1 DEF OpenSession, Typing, Domains
      <3>5. op[r].user \in Users /\ op[r].with \in Nat /\ resetTo[op[r].user] \in Nat
        BY <3>1, LevelFacts DEF OpenSession, At, Typing, Domains, Owned, Request
      <3>6. ~session'[s].late => session'[s].with >= resetTo'[session'[s].user]
        <4>1. CASE op[r].with < resetTo[op[r].user]
          <5>1. (op[r].with < resetTo[op[r].user]) = TRUE
            BY <4>1
          <5>2. session'[s] = [user |-> op[r].user, with |-> op[r].with, late |-> TRUE]
            BY <3>4, <5>1, Zenon
          <5> QED  BY <5>2
        <4>2. CASE op[r].with >= resetTo[op[r].user]
          <5> DEFINE late == op[r].with < resetTo[op[r].user]
          <5>1. session'[s] = [user |-> op[r].user, with |-> op[r].with, late |-> late]
            BY <3>4
          <5> HIDE DEF late
          <5>2. session'[s].user = op[r].user /\ session'[s].with = op[r].with
            BY <5>1
          <5> QED  BY <3>3, <4>2, <5>2
        <4> QED  BY <3>5, <4>1, <4>2
      <3>7. \A x \in Sessions : session'[x] # NoSession /\ ~session'[x].late
                => session'[x].with >= resetTo'[session'[x].user]
        <4> TAKE x \in Sessions
        <4>1. CASE x = s
          BY <3>6, <4>1
        <4>2. CASE x # s
          BY <3>2, <3>3, <4>2 DEF ResetEndsSessions
        <4> QED  BY <4>1, <4>2
      <3> QED  BY <3>7 DEF ResetEndsSessions
    <2>2. CASE RevokeSessions(r)
      <3>1. PICK ss : Revoke(ss)
        BY <2>2 DEF RevokeSessions, Logout, RevokeSession, RevokeOthers
      <3> QED  BY <1>1, <2>2, <3>1, RevokeOnly DEF RevokeSessions, History, Typing
    <2>3. CASE UNCHANGED <<session, resetTo>>
      BY <1>1, <2>3
    <2> QED
      BY <1>2, <2>1, <2>2, <2>3
      DEF SessionStep, SignUp, Login, RevokeAsked, ChangeAsked, Change, History
  <1>3. ASSUME NEW r \in Requests, RevokeAll(r) PROVE ResetEndsSessions'
    <2>1. \A s \in Sessions : session'[s] = IF session[s].user = op[r].user THEN NoSession ELSE session[s]
      BY <1>3, RevokeOnly DEF RevokeAll, Of, Typing
    <2>2. \A u \in Users : u # op[r].user => resetTo'[u] = resetTo[u]
      BY <1>3 DEF RevokeAll, Typing, Domains
    <2> QED  BY <2>1, <2>2 DEF ResetEndsSessions, Typing, Owned
  <1>4. ASSUME NEW s \in Sessions, Expire(s) PROVE ResetEndsSessions'
    BY <1>1, <1>4, RevokeOnly DEF Expire, History, Typing
  <1>5. CASE UNCHANGED <<session, resetTo>>
    BY <1>1, <1>5
  <1> QED
    BY <1>2, <1>3, <1>4, <1>5
    DEF Next, ResetStep, Issue, IssueToken, ResetAsked, Consume, Write, Fails, ExpireToken,
        vars, History

-----------------------------------------------------------------------------
(* The theorems.                                                           *)

\* The invariant is inductive.
THEOREM Invariance == Spec => []IInv
  <1>1. Init => IInv
    <2>1. Init => ResetEndsSessions
      BY DEF Init, ResetEndsSessions
    <2> QED  BY <2>1, TypingInit, TokenInit DEF IInv
  <1>2. IInv /\ [Next]_vars => IInv'
    BY TypingStep, TokenStep, SessionsStep DEF IInv
  <1> QED  BY <1>1, <1>2, PTL DEF Spec

LEMMA TypesHold == Typing => TypeOK
  <1> SUFFICES ASSUME Typing PROVE TypeOK
    OBVIOUS
  <1>1. \A r \in Requests : ~At(r, "idle") => op[r].user # Nobody
    BY NobodyAssumption DEF Typing, Owned, At, Nobody
  <1> QED
    BY <1>1 DEF Typing, Domains, TypeOK, Levels, SessionRow, TokenRow, Request, People, Asked

\* A set without two elements has at most one.
LEMMA AtMostOne ==
    ASSUME NEW S, \A x, y \in S : x = y
    PROVE  Cardinality(S) <= 1
  <1>1. CASE S = {}
    BY <1>1, FS_EmptySet
  <1>2. CASE S # {}
    <2>1. PICK x : x \in S
      BY <1>2
    <2>2. S = {x}
      BY <2>1
    <2> QED  BY <2>2, FS_Singleton
  <1> QED  BY <1>1, <1>2

\* Issued, used or outdated, a reset token opens an account at most once, and
\* of those of a user one is open: whatever requests find it, issue another or
\* fail between the statements of auth-service.ts 280-340, as long as no two
\* find the same token open, or issue tokens for the same user, at a time.
THEOREM Spending == Spec => []TokensSpent
  <1>1. IInv => TokensSpent
    <2> SUFFICES ASSUME IInv PROVE TokensSpent
      OBVIOUS
    <2>1. TypeOK /\ TokenUsedOnce
      BY TypesHold DEF IInv, UseInv
    <2>2. ASSUME NEW u \in Users \ twice
          PROVE  Cardinality({t \in Tokens : token[t].user = u /\ token[t].open}) <= 1
      <3> DEFINE S == {t \in Tokens : token[t].user = u /\ token[t].open}
      <3>1. \A x, y \in S : x = y
        BY DEF IInv, IssueInv, OneOpen, Open
      <3> HIDE DEF S
      <3>2. Cardinality(S) <= 1
        BY <3>1, AtMostOne
      <3> QED  BY <3>2 DEF S
    <2> QED  BY <2>1, <2>2 DEF TokensSpent, OneTokenOpen
  <1> QED  BY <1>1, Invariance, PTL

\* Once a reset has completed, the sessions opened with an earlier password
\* have ended, but for those of sign-ins that had checked it before.
THEOREM Revoking == Spec => []ResetEndsSessions
  <1>1. IInv => ResetEndsSessions
    BY DEF IInv
  <1> QED  BY <1>1, Invariance, PTL
=============================================================================
