--------------------------- MODULE GatewayClient ---------------------------
(***************************************************************************)
(* OpenClawClient (packages/openclaw-client/src/client.ts): one object     *)
(* that several callers share, its WebSocket, the handshake the gateway    *)
(* asks for, the requests that wait for an answer, and the reconnection.   *)
(*                                                                         *)
(* The fields of the object (ws, handshakeComplete, pendingConnect, the    *)
(* challenge timer) belong to the latest socket only, while the handlers   *)
(* of earlier sockets, which may be open still, act on them as well.       *)
(* JavaScript runs one callback at a time, promise reactions included, so  *)
(* a callback is one action here.                                          *)
(***************************************************************************)
EXTENDS Naturals, FiniteSets

CONSTANTS
    Sockets,     \* bound: WebSockets that exist at a time; reused once closed
    Requests,    \* bound: calls of request() under way at a time
    None,        \* no socket
    MaxTimers    \* bound: reconnection timers counted

ASSUME SocketsAssumption == None \notin Sockets /\ Sockets \cap Requests = {}
ASSUME OutcomesAssumption ==
    Sockets \cap {"idle", "connecting", "answered", "failed"} = {}
ASSUME TimersAssumption  == MaxTimers \in Nat \ {0}

VARIABLES
    closed,             \* close() was called
    ws,                 \* the socket the client takes for its own
    sock,               \* readyState of every socket, "none" once closed
    handshakeComplete,
    connectPromise,     \* the attempt connect() has promised and not settled
    pendingConnect,     \* the attempt the handlers settle, and handshakeStarted
    challengeTimer,     \* is connectChallengeTimer armed?
    reconnects,         \* reconnection timers that run
    pending,            \* requests in the map; a socket stands for its handshake
    request,            \* per call: where it is, or the socket it was sent over
    aborted,            \* calls whose signal is aborted before they are sent
    peer                \* what the gateway knows of each socket

client == <<closed, ws, sock, handshakeComplete, connectPromise, pendingConnect,
            challengeTimer, reconnects, pending, request, aborted, peer>>

-----------------------------------------------------------------------------
NoAttempt == [of |-> None, started |-> FALSE]

ClientInit ==
    /\ closed = FALSE /\ ws = None /\ sock = [s \in Sockets |-> "none"]
    /\ handshakeComplete = FALSE /\ connectPromise = None
    /\ pendingConnect = NoAttempt /\ challengeTimer = FALSE /\ reconnects = 0
    /\ pending = {} /\ aborted = {}
    /\ request = [r \in Requests |-> "idle"]
    /\ peer = [s \in Sockets |-> "new"]

isConnected == ws # None /\ handshakeComplete /\ sock[ws] = "open"

Waiting == {r \in Requests : request[r] = "connecting"}
Live(s) == sock[s] \in {"open", "closing"}      \* messages still arrive

Settle(rs, outcome) ==
    request' = [r \in Requests |-> IF r \in rs THEN outcome ELSE request[r]]

\* Mutant: the attempt fails, those who await it are not told.
RejectForgetsWaiters ==
    /\ connectPromise' = None
    /\ UNCHANGED <<aborted, request>>

\* pendingConnect.reject: whoever awaits the attempt fails.
RejectConnect ==
    /\ connectPromise' = None
    /\ aborted' = aborted \ Waiting
    /\ Settle(Waiting, "failed")

\* this.ws?.close()
CloseWs == sock' = IF ws # None /\ sock[ws] \in {"connecting", "open"}
                   THEN [sock EXCEPT ![ws] = "closing"] ELSE sock

-----------------------------------------------------------------------------
(* connect() and request().                                                *)

NewAttempt(s) ==
    /\ sock[s] = "none"
    /\ sock' = [sock EXCEPT ![s] = "connecting"]
    /\ peer' = [peer EXCEPT ![s] = "new"]
    /\ ws' = s
    /\ handshakeComplete' = FALSE
    /\ connectPromise' = s
    /\ pendingConnect' = [of |-> s, started |-> FALSE]

NoNewAttempt ==
    UNCHANGED <<sock, peer, ws, handshakeComplete, connectPromise, pendingConnect>>

Request(r) ==
    /\ request[r] \in {"idle", "answered", "failed"}
    /\ UNCHANGED <<closed, challengeTimer, reconnects, aborted>>
    /\ \/ /\ closed
          /\ Settle({r}, "failed")
          /\ UNCHANGED pending /\ NoNewAttempt
       \/ /\ ~closed /\ isConnected
          /\ pending' = pending \cup {r}
          /\ Settle({r}, ws)
          /\ NoNewAttempt
       \/ /\ ~closed /\ ~isConnected
          /\ Settle({r}, "connecting")
          /\ UNCHANGED pending
          /\ IF connectPromise # None THEN NoNewAttempt
             ELSE \E s \in Sockets : NewAttempt(s)

\* connect(), the result of which is only logged.
Connect ==
    /\ ~closed
    /\ UNCHANGED <<closed, challengeTimer, reconnects, pending, request, aborted>>
    /\ IF isConnected \/ connectPromise # None THEN NoNewAttempt
       ELSE \E s \in Sockets : NewAttempt(s)

\* Mutant: every rejection of connect() retries, timer or no timer.
ReconnectAlways ==
    /\ reconnects' = reconnects - 1
    /\ UNCHANGED <<closed, challengeTimer, pending, request, aborted>>
    /\ NoNewAttempt

\* The timer of scheduleReconnect.
Reconnect ==
    /\ reconnects > 0
    /\ reconnects' = reconnects - 1
    /\ UNCHANGED <<closed, challengeTimer, pending, request, aborted>>
    /\ IF closed \/ isConnected \/ connectPromise # None THEN NoNewAttempt
       ELSE \E s \in Sockets : NewAttempt(s)

Response(r) ==
    /\ r \in pending /\ request[r] \in Sockets /\ Live(request[r])
    /\ pending' = pending \ {r}
    /\ Settle({r}, "answered")
    /\ UNCHANGED <<closed, ws, sock, handshakeComplete, connectPromise,
                   pendingConnect, challengeTimer, reconnects, aborted, peer>>

\* Mutant: the entry stays in the map.
RequestFailsKept(r) ==
    /\ r \in pending
    /\ Settle({r}, "failed")
    /\ UNCHANGED <<closed, ws, sock, handshakeComplete, connectPromise, pending,
                   pendingConnect, challengeTimer, reconnects, aborted, peer>>

\* The timeout of a request, or an error of ws.send.
RequestFails(r) ==
    /\ r \in pending
    /\ pending' = pending \ {r}
    /\ Settle({r}, "failed")
    /\ UNCHANGED <<closed, ws, sock, handshakeComplete, connectPromise,
                   pendingConnect, challengeTimer, reconnects, aborted, peer>>

\* A signal is looked at after the connection, and listened to after the send.
Abort(r) ==
    /\ \/ /\ r \in Waiting
          /\ aborted' = aborted \cup {r}
          /\ UNCHANGED <<pending, request>>
       \/ /\ r \in pending
          /\ pending' = pending \ {r}
          /\ Settle({r}, "failed")
          /\ UNCHANGED aborted
    /\ UNCHANGED <<closed, ws, sock, handshakeComplete, connectPromise,
                   pendingConnect, challengeTimer, reconnects, peer>>

-----------------------------------------------------------------------------
(* Events of a socket, and the timers.                                     *)

\* Mutant: the gateway may take any time to send its challenge.
SocketOpensUntimed(s) ==
    /\ sock[s] = "connecting"
    /\ sock' = [sock EXCEPT ![s] = "open"]
    /\ UNCHANGED <<closed, ws, handshakeComplete, connectPromise, pendingConnect,
                   challengeTimer, reconnects, pending, request, aborted, peer>>

SocketOpens(s) ==
    /\ sock[s] = "connecting"
    /\ sock' = [sock EXCEPT ![s] = "open"]
    /\ challengeTimer' = TRUE
    /\ UNCHANGED <<closed, ws, handshakeComplete, connectPromise, pendingConnect,
                   reconnects, pending, request, aborted, peer>>

\* 'error' on an open socket: nothing arrives any more, 'close' follows later.
\* (On a connecting socket the two come together: SocketCloses.)
SocketError(s) ==
    /\ Live(s)
    /\ sock' = [sock EXCEPT ![s] = "broken"]
    /\ RejectConnect
    /\ UNCHANGED <<closed, ws, handshakeComplete, pendingConnect, challengeTimer,
                   reconnects, pending, peer>>


\* The timers after the close event of s.
Scheduled(s) == IF closed \/ reconnects = MaxTimers THEN reconnects
                ELSE reconnects + 1

\* 'close' resets the fields whatever socket they belong to.
SocketCloses(s) ==
    /\ sock[s] # "none"
    /\ sock' = [sock EXCEPT ![s] = "none"]
    /\ peer' = [peer EXCEPT ![s] = "new"]
    /\ ws' = None
    /\ handshakeComplete' = FALSE
    /\ challengeTimer' = FALSE
    /\ connectPromise' = None
    /\ pendingConnect' = NoAttempt
    /\ Settle(Waiting \cup (pending \cap Requests), "failed")
    /\ pending' = {}
    /\ aborted' = {}
    /\ reconnects' = Scheduled(s)
    /\ UNCHANGED closed

ChallengeTimeout ==
    /\ challengeTimer
    /\ challengeTimer' = FALSE
    /\ RejectConnect
    /\ CloseWs
    /\ UNCHANGED <<closed, ws, handshakeComplete, pendingConnect, reconnects,
                   pending, peer>>

ChallengeWithoutNonce(s) ==
    /\ Live(s) /\ peer[s] = "new"
    /\ peer' = [peer EXCEPT ![s] = "challenged"]
    /\ RejectConnect
    /\ CloseWs
    /\ UNCHANGED <<closed, ws, handshakeComplete, pendingConnect, challengeTimer,
                   reconnects, pending>>

\* The handshake goes out over this.ws, with the nonce of the socket the
\* challenge came from; sending over a socket that is not open fails.
Challenge(s) ==
    /\ Live(s) /\ peer[s] = "new"
    /\ UNCHANGED <<closed, ws, handshakeComplete, reconnects, sock>>
    /\ IF pendingConnect.of = None \/ pendingConnect.started \/ ws = None
       THEN /\ peer' = [peer EXCEPT ![s] = "challenged"]
            /\ UNCHANGED <<connectPromise, pendingConnect, challengeTimer, pending,
                           request, aborted>>
       ELSE /\ challengeTimer' = FALSE
            /\ \/ /\ sock[ws] = "open"
                  /\ pendingConnect' = [pendingConnect EXCEPT !.started = TRUE]
                  /\ pending' = pending \cup {ws}
                  /\ peer' = [peer EXCEPT ![s] = "challenged",
                                ![ws] = IF s = ws THEN "greeted" ELSE "mismatched"]
                  /\ UNCHANGED <<connectPromise, request, aborted>>
               \/ /\ sock[ws] # "open"
                  /\ pendingConnect' = NoAttempt
                  /\ RejectConnect
                  /\ peer' = [peer EXCEPT ![s] = "challenged"]
                  /\ UNCHANGED pending

HandshakeRejected(s) ==
    /\ pending' = pending \ {s}
    /\ pendingConnect' = NoAttempt
    /\ RejectConnect

\* hello-ok: the callers that waited send their requests, if this.ws is open.
HelloOk(s) ==
    /\ Live(s) /\ peer[s] = "greeted"
    /\ peer' = [peer EXCEPT ![s] = "accepted"]
    /\ UNCHANGED <<closed, ws, sock, challengeTimer, reconnects>>
    /\ IF s \notin pending
       THEN UNCHANGED <<handshakeComplete, pendingConnect, connectPromise, pending,
                        request, aborted>>
       ELSE LET sent == IF ws # None /\ sock[ws] = "open" THEN Waiting \ aborted ELSE {}
            IN  /\ handshakeComplete' = TRUE
                /\ pendingConnect' = NoAttempt
                /\ connectPromise' = None
                /\ pending' = (pending \ {s}) \cup sent
                /\ request' = [r \in Requests |->
                       IF r \in sent THEN ws
                       ELSE IF r \in Waiting THEN "failed" ELSE request[r]]
                /\ aborted' = aborted \ Waiting

\* An error (NOT_PAIRED, a signature over another nonce) or another protocol.
HelloRefused(s) ==
    /\ Live(s) /\ peer[s] \in {"greeted", "mismatched"}
    /\ peer' = [peer EXCEPT ![s] = "refused"]
    /\ UNCHANGED <<closed, ws, sock, handshakeComplete, challengeTimer, reconnects>>
    /\ IF s \in pending THEN HandshakeRejected(s)
       ELSE UNCHANGED <<pendingConnect, connectPromise, pending, request, aborted>>

HandshakeTimeout(s) ==
    /\ s \in pending
    /\ HandshakeRejected(s)
    /\ UNCHANGED <<closed, ws, sock, handshakeComplete, challengeTimer, reconnects,
                   peer>>

\* close() rejects a handshake under way like any request.
Close ==
    /\ ~closed
    /\ closed' = TRUE
    /\ CloseWs
    /\ ws' = None
    /\ handshakeComplete' = FALSE
    /\ pending' = {}
    /\ LET dropped == IF pending \cap Sockets # {} THEN Waiting ELSE {}
       IN  /\ Settle((pending \cap Requests) \cup dropped, "failed")
           /\ aborted' = aborted \ dropped
    /\ IF pending \cap Sockets # {}
       THEN connectPromise' = None /\ pendingConnect' = NoAttempt
       ELSE UNCHANGED <<connectPromise, pendingConnect>>
    /\ UNCHANGED <<challengeTimer, reconnects, peer>>

-----------------------------------------------------------------------------
(* A HelloOk is a step of its own for whoever listens to connections.      *)
ClientQuiet ==
    \/ Connect \/ Reconnect \/ ChallengeTimeout \/ Close
    \/ \E r \in Requests : Request(r) \/ Response(r) \/ RequestFails(r) \/ Abort(r)
    \/ \E s \in Sockets :
          \/ SocketOpens(s) \/ SocketError(s) \/ SocketCloses(s)
          \/ Challenge(s) \/ ChallengeWithoutNonce(s)
          \/ HelloRefused(s) \/ HandshakeTimeout(s)

\* Timers fire, and a socket that closes or has failed is closed in the end (ws
\* sees to it).  Nothing limits how long a socket connects: no timer runs yet.
ClientFairness ==
    /\ WF_client(ChallengeTimeout)
    /\ \A r \in Requests : WF_client(RequestFails(r))
    /\ \A s \in Sockets :
          /\ WF_client(HandshakeTimeout(s))
          /\ WF_client(sock[s] \in {"closing", "broken"} /\ SocketCloses(s))

ClientNext == ClientQuiet \/ \E s \in Sockets : HelloOk(s)

ClientSpec == ClientInit /\ [][ClientNext]_client /\ ClientFairness

-----------------------------------------------------------------------------
ClientTypeOK ==
    /\ closed \in BOOLEAN /\ ws \in Sockets \cup {None}
    /\ sock \in [Sockets -> {"none", "connecting", "open", "closing", "broken"}]
    /\ handshakeComplete \in BOOLEAN /\ connectPromise \in Sockets \cup {None}
    /\ pendingConnect \in [of : Sockets \cup {None}, started : BOOLEAN]
    /\ challengeTimer \in BOOLEAN /\ reconnects \in 0 .. MaxTimers
    /\ pending \subseteq Requests \cup Sockets
    /\ request \in [Requests -> Sockets \cup {"idle", "connecting", "answered", "failed"}]
    /\ aborted \subseteq Requests
    /\ peer \in [Sockets -> {"new", "challenged", "greeted", "mismatched",
                             "accepted", "refused"}]

(* connectPromise and pendingConnect are set, replaced and cleared by        *)
(* handlers of different sockets, in any order (client.ts 204-247).  A       *)
(* caller that waits for a connection waits for the attempt in progress, and *)
(* the handlers hold the means to settle exactly that one.                   *)
WaitersHeld ==
    Waiting # {} => connectPromise # None /\ pendingConnect.of = connectPromise

(* Whatever ends a request (an answer, its timer, an abort, a failed send,    *)
(* the end of any socket, close()) ends the call and its entry in the map     *)
(* together: no late answer finds a call that has ended (client.ts 383-402). *)
SentArePending == \A r \in Requests : request[r] \in Sockets <=> r \in pending

\* The attempt of s has neither been opened nor refused.
Hangs(s) == connectPromise = s /\ sock[s] = "connecting"

(* Every request ends, whatever the sockets do and whichever of them fails,   *)
(* is orphaned or closes late, and whenever close() is called.  The exception *)
(* is a call that waits for a socket which connects for ever: the challenge   *)
(* timer is armed once a socket is open (client.ts 212-219), no timer before. *)
RequestsSettle ==
    \A r \in Requests :
       \/ request[r] \in Sockets \cup {"connecting"}
             ~> request[r] \in {"idle", "answered", "failed"}
       \/ \E s \in Sockets : <>[](request[r] = "connecting" /\ Hangs(s))
=============================================================================
