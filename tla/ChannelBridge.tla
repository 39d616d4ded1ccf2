--------------------------- MODULE ChannelBridge ---------------------------
(***************************************************************************)
(* The live channel trigger bridge on top of the gateway client            *)
(* (apps/adapter/src/channel-trigger-bridge.ts, gateway-manager.ts): it    *)
(* subscribes after every handshake, and launches the flows with a channel *)
(* trigger for every inbound message it has not seen.                      *)
(***************************************************************************)
EXTENDS GatewayClient

CONSTANTS
    Messages,    \* inbound messages that can be told apart: those with an id or
                 \* a sequence number (others are launched at every delivery)
    Flows,       \* published flows with a channel trigger
    Handlers,    \* bound: messages handled at a time
    NoMessage

ASSUME MessagesAssumption == NoMessage \notin Messages

VARIABLES
    started,     \* is the bridge set up?
    asked,       \* sockets whose sessions.subscribe waits for its answer
    warned,      \* sockets on which it has failed, as the bridge has logged
    grant,       \* what the gateway makes of the request, per socket
    seen,        \* RecentEventCache
    handler,     \* calls of handleInboundChannelSessionMessage
    launches     \* runs launched since the message was last unknown, 0 .. 2

subscription == <<asked, warned, grant>>
bridge == <<started, subscription, seen, handler, launches>>

-----------------------------------------------------------------------------
\* listing: the candidates are being read; todo: those the loop has yet to launch.
Idle == [msg |-> NoMessage, listing |-> FALSE, todo |-> {}]

BInit ==
    /\ ClientInit
    /\ started = FALSE /\ seen = {}
    /\ asked = {} /\ warned = {} /\ grant = [s \in Sockets |-> "none"]
    /\ handler = [h \in Handlers |-> Idle]
    /\ launches = [m \in Messages |-> [f \in Flows |-> 0]]

\* The listeners are registered and the gateway is called in one tick.
Start ==
    /\ ~started
    /\ started' = TRUE
    /\ Connect
    /\ UNCHANGED <<subscription, seen, handler, launches>>

Ask(s) ==
    /\ asked' = asked \cup {s}
    /\ warned' = warned \ {s}
    /\ grant' = [grant EXCEPT ![s] = IF @ = "granted" THEN @ ELSE "sent"]

wsOpen == ws # None /\ sock[ws] = "open"

\* Mutant: the subscription of the first connection is taken to last.
SubscribeOnce ==
    IF wsOpen /\ \A s \in Sockets : grant[s] = "none"
    THEN Ask(ws) ELSE UNCHANGED subscription

\* onConnected: the request goes out over this.ws, unless it is not open.
Subscribe ==
    IF wsOpen THEN Ask(ws) ELSE UNCHANGED subscription

\* When this.ws is not open and no attempt is promised any more, the request of
\* the bridge begins one, which the callback that called the bridge resolves at
\* once: nobody is left to answer the challenge of the new socket.
Reopens(s, new) ==
    /\ Live(s) /\ peer[s] = "greeted"
    /\ sock[new] = "none"
    /\ sock' = [sock EXCEPT ![new] = "connecting"]
    /\ peer' = [peer EXCEPT ![s] = "accepted", ![new] = "new"]
    /\ ws' = new
    /\ handshakeComplete' = FALSE
    /\ pendingConnect' = NoAttempt
    /\ pending' = pending \ {s}
    /\ UNCHANGED <<closed, connectPromise, challengeTimer, reconnects, request,
                   aborted, subscription>>

Connected(s) ==
    /\ IF s \in pending /\ connectPromise = None /\ ~wsOpen
       THEN \E new \in Sockets : Reopens(s, new)
       ELSE /\ HelloOk(s)
            /\ IF s \in pending THEN Subscribe ELSE UNCHANGED subscription
    /\ UNCHANGED <<started, seen, handler, launches>>

\* What leaves the client without a socket has emptied its map of requests.
Dropped == IF ws' = None THEN asked ELSE {}
Kept    == {s \in Sockets : sock'[s] # "none"}

ClientStep ==
    /\ started
    /\ \/ /\ ClientQuiet
          /\ asked' = (asked \ Dropped) \cap Kept
          /\ warned' = (warned \cup Dropped) \cap Kept
          /\ grant' = [s \in Sockets |-> IF s \in Kept THEN grant[s] ELSE "none"]
          /\ UNCHANGED <<started, seen, handler, launches>>
       \/ \E s \in Sockets : Connected(s)

\* The gateway takes the request, also one the client has given up, or refuses it.
GatewayDecides(s) ==
    /\ grant[s] = "sent" /\ Live(s)
    /\ \/ peer[s] = "accepted" /\ grant' = [grant EXCEPT ![s] = "granted"]
       \/ grant' = [grant EXCEPT ![s] = "refused"]
    /\ UNCHANGED <<client, started, asked, warned, seen, handler, launches>>

\* The answer of the gateway.
Answered(s) ==
    /\ s \in asked /\ Live(s) /\ grant[s] \in {"granted", "refused"}
    /\ asked' = asked \ {s}
    /\ warned' = IF grant[s] = "refused" THEN warned \cup {s} ELSE warned
    /\ UNCHANGED <<client, started, grant, seen, handler, launches>>

\* The timeout of the request, or an error of ws.send.  It is not repeated.
SubscribeFails(s) ==
    /\ s \in asked
    /\ asked' = asked \ {s}
    /\ warned' = warned \cup {s}
    /\ UNCHANGED <<client, started, grant, seen, handler, launches>>

\* Mutant: a message is marked when its runs have been launched.
MarkedLater(m) == seen

\* A session.message over any socket that is subscribed, new or repeated.  It
\* is checked and marked before anything is awaited.
Marked(m) == seen \cup {m}

Inbound(s, m, h) ==
    /\ grant[s] = "granted" /\ Live(s)
    /\ m \notin seen
    /\ handler[h] = Idle
    /\ seen' = Marked(m)
    /\ handler' = [handler EXCEPT ![h] = [Idle EXCEPT !.msg = m, !.listing = TRUE]]
    /\ UNCHANGED <<client, started, subscription, launches>>

Candidates(h) ==
    /\ handler[h].listing
    /\ \E fs \in SUBSET Flows :
          handler' = [handler EXCEPT ![h] = [@ EXCEPT !.listing = FALSE, !.todo = fs]]
    /\ UNCHANGED <<client, started, subscription, seen, launches>>

\* startPublishedFlowRun; a refusal or a failure is skipped.
Launch(h, f, ok) ==
    /\ f \in handler[h].todo
    /\ handler' = [handler EXCEPT ![h].todo = @ \ {f}]
    /\ launches' =
          IF ~ok THEN launches
          ELSE [launches EXCEPT ![handler[h].msg][f] = IF @ = 2 THEN 2 ELSE @ + 1]
    /\ UNCHANGED <<client, started, subscription, seen>>

Return(h) ==
    /\ handler[h].msg # NoMessage
    /\ ~handler[h].listing /\ handler[h].todo = {}
    /\ handler' = [handler EXCEPT ![h] = Idle]
    /\ UNCHANGED <<client, started, subscription, seen, launches>>

\* Ten minutes later (longer than a message is handled).
Forget(m) ==
    /\ m \in seen
    /\ \A h \in Handlers : handler[h].msg # m
    /\ seen' = seen \ {m}
    /\ launches' = [launches EXCEPT ![m] = [f \in Flows |-> 0]]
    /\ UNCHANGED <<client, started, subscription, handler>>

\* The adapter ends: it is restarted, or the list of candidates could not be
\* read, and nobody catches the rejection of the handler.
Restart ==
    /\ started
    /\ closed' = FALSE /\ ws' = None /\ sock' = [s \in Sockets |-> "none"]
    /\ handshakeComplete' = FALSE /\ connectPromise' = None
    /\ pendingConnect' = NoAttempt /\ challengeTimer' = FALSE /\ reconnects' = 0
    /\ pending' = {} /\ aborted' = {}
    /\ request' = [r \in Requests |-> "idle"]
    /\ peer' = [s \in Sockets |-> "new"]
    /\ started' = FALSE /\ seen' = {}
    /\ asked' = {} /\ warned' = {} /\ grant' = [s \in Sockets |-> "none"]
    /\ handler' = [h \in Handlers |-> Idle]
    /\ launches' = [m \in Messages |-> [f \in Flows |-> 0]]

HandlerStep(h) ==
    \/ Candidates(h) \/ Return(h)
    \/ \E f \in Flows, ok \in BOOLEAN : Launch(h, f, ok)

BNext ==
    \/ Start \/ ClientStep \/ Restart
    \/ \E s \in Sockets : GatewayDecides(s) \/ Answered(s) \/ SubscribeFails(s)
    \/ \E s \in Sockets, m \in Messages, h \in Handlers : Inbound(s, m, h)
    \/ \E h \in Handlers : HandlerStep(h)
    \/ \E m \in Messages : Forget(m)

bvars == <<client, bridge>>

BSpec == BInit /\ [][BNext]_bvars /\ ClientFairness

-----------------------------------------------------------------------------
BTypeOK ==
    /\ ClientTypeOK
    /\ started \in BOOLEAN /\ seen \subseteq Messages
    /\ asked \subseteq Sockets /\ warned \subseteq Sockets
    /\ grant \in [Sockets -> {"none", "sent", "granted", "refused"}]
    /\ handler \in [Handlers ->
          [msg : Messages \cup {NoMessage}, listing : BOOLEAN,
           todo : SUBSET Flows]]
    /\ launches \in [Messages -> [Flows -> 0 .. 2]]

(* However often the gateway delivers a message, over one socket or over a    *)
(* new one and an orphaned one at a time, a flow is launched once for it      *)
(* within the memory of the bridge (channel-trigger-bridge.ts 230-235).       *)
LaunchedOnce == \A m \in Messages, f \in Flows : launches[m][f] <= 1

(* The bridge asks for the messages of every connection the client takes for  *)
(* complete, after however many reconnections and orphaned sockets, and is    *)
(* not deaf without a trace: it is subscribed there, waits for the answer, or *)
(* has logged the failure, after which it does not ask again (311-321).       *)
SubscribedOrWarned ==
    isConnected /\ peer[ws] = "accepted" =>
       grant[ws] = "granted" \/ ws \in asked \cup warned

(* Every call that is under way can still be settled: one that waits for a     *)
(* connection by the attempt in progress, one that was sent by its entry.      *)
CallsHeld == BTypeOK /\ WaitersHeld /\ SentArePending

(* Messages are asked for on the connection the client uses, and start each    *)
(* flow once, over reconnections that leave orphaned sockets behind.           *)
HeardOnce == SubscribedOrWarned /\ LaunchedOnce
=============================================================================
