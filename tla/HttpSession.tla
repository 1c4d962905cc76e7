---------------------------- MODULE HttpSession ----------------------------
(***************************************************************************)
(* One MCP session over Streamable HTTP: the Host's lifecycle client and   *)
(* its HTTP transport, the network, and the Finance server with its map of *)
(* sessions and one lifecycle per session.  Every exchange is a POST (or   *)
(* the closing DELETE) of its own, so calls overlap and answers come in    *)
(* any order, or never.                                                    *)
(*                                                                         *)
(* A client initializes once and is never initialized again                *)
(* (streamable-http-jsonrpc-client.ts:213), so it has one session at most; *)
(* clients share nothing but the server's fate, and one is modelled.       *)
(***************************************************************************)
EXTENDS Naturals

CONSTANTS
  Calls,      \* tools/list and tools/call requests
  MaxFaults   \* answers that reach the client malformed

Control == {"initialize", "initialized", "delete"}

ASSUME CallsAssumption == Calls \cap Control = {}
ASSUME MaxFaultsAssumption == MaxFaults \in Nat

Exchanges == Calls \cup Control

VARIABLES
  transport,      \* the transport's state
  closePromise,   \* none, pending, over
  mcpSessionId,   \* whether the transport holds the id the server issued
  life,           \* the lifecycle client's state
  phase,          \* [Exchanges -> Phases]: the await its caller is in
  outcome,        \* [Exchanges -> Outcomes]: what its caller was told
  wire,           \* [Exchanges -> Wires]: where it is, whoever still waits
  sessions,       \* whether the server's map has the client's session
  lifecycle,      \* the state of that session's server lifecycle
  handled,        \* calls the server has executed
  faults

client == <<transport, closePromise, mcpSessionId, life, phase, outcome>>
server == <<sessions, lifecycle, handled>>
vars == <<client, wire, server, faults>>

\* "dropping": the result was malformed and the caller waits for close().
Phases == {"unused", "headers", "body", "dropping", "settled"}
Malformed == {"garbled", "badResult"}
Replies == {"ok", "remoteError", "refused"} \cup Malformed
Wires == {"none", "request", "executing", "lost"} \cup Replies
Failures == {"HTTP_ERROR", "PROTOCOL_ERROR", "NETWORK_ERROR_OR_TIMEOUT"}
Outcomes == {"none", "ok", "remoteError"} \cup Failures

Init ==
  /\ transport = "idle"
  /\ closePromise = "none"
  /\ mcpSessionId = FALSE
  /\ life = "DISCONNECTED"
  /\ phase = [e \in Exchanges |-> "unused"]
  /\ outcome = [e \in Exchanges |-> "none"]
  /\ wire = [e \in Exchanges |-> "none"]
  /\ sessions = FALSE
  /\ lifecycle = "AWAITING_INITIALIZE"
  /\ handled = {}
  /\ faults = 0

-----------------------------------------------------------------------------
(* The client: sending, and ending an exchange.  Sent and Ended give the   *)
(* phases of an exchange's callers, so that a handler may end one exchange *)
(* and send another.                                                       *)

Sent(e) == [phase EXCEPT ![e] = "headers"]
Ended(e) == [phase EXCEPT ![e] = "settled"]
Report(e, how) == outcome' = [outcome EXCEPT ![e] = how]
Post(e) == wire' = [wire EXCEPT ![e] = "request"]

\* Broken variant: the id is cleared before it is read, so nothing is deleted.
CloseForgetsId(ph) ==
  /\ mcpSessionId' = FALSE
  /\ transport' = "closed"
  /\ closePromise' = "over"
  /\ phase' = ph
  /\ UNCHANGED wire

\* Broken variant: a second close() does not join the first.
CloseUnshared(ph) ==
  \/ /\ transport = "closed"
     /\ phase' = ph
     /\ UNCHANGED <<transport, closePromise, mcpSessionId, wire>>
  \/ /\ transport # "closed"
     /\ mcpSessionId' = FALSE
     /\ IF mcpSessionId
        THEN /\ transport' = "closing"
             /\ closePromise' = "pending"
             /\ phase' = [ph EXCEPT !["delete"] = "headers"]
             /\ Post("delete")
        ELSE /\ transport' = "closed"
             /\ closePromise' = "over"
             /\ phase' = ph
             /\ UNCHANGED wire

\* transport.close(), called where the callers' phases are ph.  A second call
\* joins the first; without a session there is nothing to await.
CloseTransport(ph) ==
  \/ /\ closePromise # "none" \/ transport = "closed"
     /\ phase' = ph
     /\ UNCHANGED <<transport, closePromise, mcpSessionId, wire>>
  \/ /\ closePromise = "none" /\ transport # "closed"
     /\ mcpSessionId' = FALSE
     /\ IF mcpSessionId
        THEN /\ transport' = "closing"
             /\ closePromise' = "pending"
             /\ phase' = [ph EXCEPT !["delete"] = "headers"]
             /\ Post("delete")
        ELSE /\ transport' = "closed"
             /\ closePromise' = "over"
             /\ phase' = ph
             /\ UNCHANGED wire

\* startFinanceMcpSession: start() and initialize(), up to its first await.
StartSession ==
  /\ transport = "idle"
  /\ transport' = "running"
  /\ life' = "INITIALIZING"
  /\ phase' = Sent("initialize")
  /\ Post("initialize")
  /\ UNCHANGED <<closePromise, mcpSessionId, outcome, server, faults>>

\* A call that is refused (not READY, or a transport that does not run)
\* leaves no trace and is not a step.
Call(c) ==
  /\ life = "READY"
  /\ transport = "running"
  /\ mcpSessionId
  /\ phase[c] = "unused"
  /\ phase' = Sent(c)
  /\ Post(c)
  /\ UNCHANGED <<transport, closePromise, mcpSessionId, life, outcome, server, faults>>

\* close(): its callers have the client once initialize() has returned.
Close ==
  /\ life = "READY"
  /\ life' = "CLOSED"
  /\ CloseTransport(phase)
  /\ UNCHANGED <<outcome, server, faults>>

-----------------------------------------------------------------------------
(* The client: how each kind of exchange ends.                             *)

\* The catch of initialize().  The lifecycle is closed, then the transport.
InitializeFails(e, how) ==
  /\ life' = "CLOSED"
  /\ CloseTransport(Ended(e))
  /\ Report(e, how)

\* Broken variant: READY without waiting for the notification's 202.
InitializeEagerly ==
  /\ mcpSessionId' = TRUE
  /\ life' = "READY"
  /\ phase' = [Ended("initialize") EXCEPT !["initialized"] = "headers"]
  /\ Post("initialized")
  /\ Report("initialize", "ok")
  /\ UNCHANGED <<transport, closePromise>>

\* initialize() continues with the notification.
InitializeSucceeds ==
  /\ mcpSessionId' = TRUE
  /\ phase' = [Ended("initialize") EXCEPT !["initialized"] = "headers"]
  /\ Post("initialized")
  /\ Report("initialize", "ok")
  /\ UNCHANGED <<transport, closePromise, life>>

\* A result that is not an initialize result: the id is kept, then deleted.
InitializeInvalid ==
  /\ life' = "CLOSED"
  /\ mcpSessionId' = FALSE
  /\ transport' = "closing"
  /\ closePromise' = "pending"
  /\ phase' = [Ended("initialize") EXCEPT !["delete"] = "headers"]
  /\ Post("delete")
  /\ Report("initialize", "PROTOCOL_ERROR")

\* No JSON-RPC answer to this request: the transport fails, and is closed.
\* No session was stored, so that close() has nothing to delete.
InitializeGarbled ==
  /\ life' = "CLOSED"
  /\ transport' = "closed"
  /\ closePromise' = "over"
  /\ phase' = Ended("initialize")
  /\ Report("initialize", "PROTOCOL_ERROR")
  /\ UNCHANGED <<mcpSessionId, wire>>

InitializeEnds(reply) ==
  \/ reply = "ok" /\ InitializeSucceeds
  \/ reply = "badResult" /\ InitializeInvalid
  \/ reply = "garbled" /\ InitializeGarbled
  \/ reply = "remoteError" /\ InitializeFails("initialize", "remoteError")

\* A malformed result closes the client, whatever else is in flight on it;
\* its caller waits for the transport to close.
DropResult(c) ==
  /\ life' = "CLOSED"
  /\ CloseTransport(IF closePromise = "over" THEN Ended(c)
                    ELSE [phase EXCEPT ![c] = "dropping"])
  /\ Report(c, "PROTOCOL_ERROR")

\* An answer that is none fails the transport, in any state (line 146); the
\* lifecycle client is not told.
FailTransport(c) ==
  /\ transport' = "failed"
  /\ phase' = Ended(c)
  /\ Report(c, "PROTOCOL_ERROR")
  /\ UNCHANGED <<closePromise, mcpSessionId, life, wire>>

CallEnds(c, reply) ==
  \/ /\ reply \in {"ok", "remoteError"}
     /\ phase' = Ended(c)
     /\ Report(c, reply)
     /\ UNCHANGED <<transport, closePromise, mcpSessionId, life, wire>>
  \/ reply = "badResult" /\ DropResult(c)
  \/ reply = "garbled" /\ FailTransport(c)

\* Broken variant: without the finally of closeSession.
CloseEndsOnSuccess(how) ==
  /\ transport' = IF how = "ok" THEN "closed" ELSE transport
  /\ closePromise' = IF how = "ok" THEN "over" ELSE closePromise
  /\ phase' = [e \in Exchanges |->
                 IF e = "delete" \/ phase[e] = "dropping" THEN "settled" ELSE phase[e]]
  /\ Report("delete", how)
  /\ UNCHANGED <<mcpSessionId, life, wire>>

\* The finally of closeSession; whoever awaited close() resumes.
CloseEnds(how) ==
  /\ transport' = "closed"
  /\ closePromise' = "over"
  /\ phase' = [e \in Exchanges |->
                 IF e = "delete" \/ phase[e] = "dropping" THEN "settled" ELSE phase[e]]
  /\ Report("delete", how)
  /\ UNCHANGED <<mcpSessionId, life, wire>>

\* The exchange ends without an answer, whatever it was.
ExchangeFails(e, how) ==
  \/ e \in {"initialize", "initialized"} /\ InitializeFails(e, how)
  \/ e = "delete" /\ CloseEnds(how)
  \/ /\ e \in Calls
     /\ phase' = Ended(e)
     /\ Report(e, how)
     /\ UNCHANGED <<transport, closePromise, mcpSessionId, life, wire>>

-----------------------------------------------------------------------------
(* The client: fetch and its timeout, which is cleared with the headers;   *)
(* after them only the body's own failure ends a request.                  *)

\* Broken variant: no timeout, so only what the network loses is given up.
FetchFailsOnLoss(e) ==
  /\ phase[e] = "headers"
  /\ wire[e] = "lost"
  /\ ExchangeFails(e, "NETWORK_ERROR_OR_TIMEOUT")
  /\ UNCHANGED <<server, faults>>

\* The network failed, or the timer did; the server may still get to it.
FetchFails(e) ==
  /\ phase[e] = "headers"
  /\ ExchangeFails(e, "NETWORK_ERROR_OR_TIMEOUT")
  /\ UNCHANGED <<server, faults>>

\* 200 for a request, whose body is awaited next; 202 for the notification
\* and 204 for the DELETE, which have none.
HeadersArrive(e) ==
  /\ phase[e] = "headers"
  /\ wire[e] \in Replies
  /\ \/ wire[e] = "refused" /\ ExchangeFails(e, "HTTP_ERROR")
     \/ /\ wire[e] # "refused" /\ e \notin {"initialized", "delete"}
        /\ phase' = [phase EXCEPT ![e] = "body"]
        /\ UNCHANGED <<transport, closePromise, mcpSessionId, life, outcome, wire>>
     \/ /\ wire[e] # "refused" /\ e = "initialized"
        /\ life' = "READY"
        /\ phase' = Ended(e)
        /\ Report(e, "ok")
        /\ UNCHANGED <<transport, closePromise, mcpSessionId, wire>>
     \/ wire[e] # "refused" /\ e = "delete" /\ CloseEnds("ok")
  /\ UNCHANGED <<server, faults>>

BodyArrives(e) ==
  /\ phase[e] = "body"
  /\ \/ e = "initialize" /\ InitializeEnds(wire[e])
     \/ e \in Calls /\ CallEnds(e, wire[e])
  /\ UNCHANGED <<server, faults>>

BodyFails(e) ==
  /\ phase[e] = "body"
  /\ ExchangeFails(e, "NETWORK_ERROR_OR_TIMEOUT")
  /\ UNCHANGED <<server, faults>>

-----------------------------------------------------------------------------
(* The server.  It never learns that a client stopped waiting.             *)

Reply(e, r) == wire' = [wire EXCEPT ![e] = r]

ReceiveInitialize ==
  /\ wire["initialize"] = "request"
  /\ lifecycle' = "AWAITING_INITIALIZED"
  /\ sessions' = TRUE
  /\ Reply("initialize", "ok")
  /\ UNCHANGED <<client, handled, faults>>

ReceiveInitialized ==
  /\ wire["initialized"] = "request"
  /\ lifecycle' = IF sessions THEN "READY" ELSE lifecycle
  /\ Reply("initialized", IF sessions THEN "ok" ELSE "refused")
  /\ UNCHANGED <<client, sessions, handled, faults>>

\* Broken variant: an unknown session gets a handler of its own.
ReceiveCallAnyway(c) ==
  /\ wire[c] = "request"
  /\ Reply(c, IF sessions /\ lifecycle = "READY" THEN "executing" ELSE "remoteError")
  /\ UNCHANGED <<client, server, faults>>

\* The body is read, then the session is looked up and its handler called.
ReceiveCall(c) ==
  /\ wire[c] = "request"
  /\ Reply(c, IF ~sessions THEN "refused"
              ELSE IF lifecycle = "READY" THEN "executing" ELSE "remoteError")
  /\ UNCHANGED <<client, server, faults>>

\* The handler keeps running when its session is deleted.
ExecuteCall(c) ==
  /\ wire[c] = "executing"
  /\ handled' = handled \cup {c}
  /\ UNCHANGED <<client, wire, sessions, lifecycle, faults>>

AnswerCall(c) ==
  /\ wire[c] = "executing"
  /\ c \in handled
  /\ \E r \in {"ok", "remoteError"} : Reply(c, r)
  /\ UNCHANGED <<client, server, faults>>

ReceiveDelete ==
  /\ wire["delete"] = "request"
  /\ sessions' = FALSE
  /\ Reply("delete", IF sessions THEN "ok" ELSE "refused")
  /\ UNCHANGED <<client, lifecycle, handled, faults>>

\* The process ends and is started again: its sessions were in memory, and so
\* were the calls it was executing.
Restart ==
  /\ sessions
  /\ sessions' = FALSE
  /\ wire' = [e \in Exchanges |-> IF wire[e] = "executing" THEN "lost" ELSE wire[e]]
  /\ UNCHANGED <<client, lifecycle, handled, faults>>

\* What arrives is no answer to the request, or not a result of its method.
Corrupt(e) ==
  /\ faults < MaxFaults
  /\ wire[e] = "ok" /\ phase[e] = "headers"
  /\ e \in Calls \cup {"initialize"}
  /\ faults' = faults + 1
  /\ \E r \in Malformed : Reply(e, r)
  /\ UNCHANGED <<client, server>>

-----------------------------------------------------------------------------
Next ==
  \/ StartSession \/ Close
  \/ ReceiveInitialize \/ ReceiveInitialized \/ ReceiveDelete \/ Restart
  \/ \E c \in Calls : Call(c) \/ ReceiveCall(c) \/ ExecuteCall(c) \/ AnswerCall(c)
  \/ \E e \in Exchanges :
       FetchFails(e) \/ HeadersArrive(e) \/ BodyArrives(e) \/ BodyFails(e) \/ Corrupt(e)

Spec == Init /\ [][Next]_vars

(* The timer ends a fetch until its headers are there.  After that, nothing *)
(* does: neither the server nor the network owes the body or its failure.  *)
FairSpec ==
  /\ Spec
  /\ \A e \in Exchanges : WF_vars(FetchFails(e))

-----------------------------------------------------------------------------
(* Properties.                                                             *)

TypeOK ==
  /\ transport \in {"idle", "running", "closing", "closed", "failed"}
  /\ closePromise \in {"none", "pending", "over"}
  /\ mcpSessionId \in BOOLEAN
  /\ life \in {"DISCONNECTED", "INITIALIZING", "READY", "CLOSED"}
  /\ phase \in [Exchanges -> Phases]
  /\ outcome \in [Exchanges -> Outcomes]
  /\ wire \in [Exchanges -> Wires]
  /\ sessions \in BOOLEAN
  /\ lifecycle \in {"AWAITING_INITIALIZE", "AWAITING_INITIALIZED", "READY"}
  /\ handled \subseteq Calls
  /\ faults \in 0 .. MaxFaults

\* When the client takes itself for ready, the server's side of the session is
\* ready too, or the session is lost: no call of a ready client is ever told
\* that the handshake is not over (lifecycle.ts:62).
BothSidesReady ==
  /\ life = "READY" => (sessions => lifecycle = "READY")
  /\ \A c \in Calls : wire[c] \in {"request", "executing"} /\ sessions => lifecycle = "READY"

\* A closed client leaves its session in the server's map only if it never got
\* the session's id, because the answer to initialize was late, lost or no
\* answer at all, or if the DELETE failed.
CloseRemovesSession ==
  /\ closePromise = "over"
  /\ sessions
  => \/ outcome["initialize"] # "ok" /\ phase["delete"] = "unused"
     \/ outcome["delete"] \in Failures

\* The two ends agree on their session from the first message to the last.
BothEndsAgree == BothSidesReady /\ CloseRemovesSession

\* Nobody waits for nothing: a handshake in progress and a close that is not
\* over each wait for an exchange of their own that is under way, and a call
\* with a malformed result waits for such a close, also when another call, or
\* the user, started it (mcp-lifecycle-client.ts:104).
WaitsAreOwed ==
  /\ life = "INITIALIZING" =>
       \E e \in {"initialize", "initialized"} : phase[e] \in {"headers", "body"}
  /\ closePromise = "pending" => phase["delete"] = "headers"
  /\ \A c \in Calls : phase[c] = "dropping" => closePromise = "pending"

\* Request-response over the network, for the calls: a caller is told of an
\* answer only when the server executed that call; a call may be executed
\* after its caller was told that it failed.
Told(c) ==
  CASE phase[c] = "unused" -> [st |-> "unused", of |-> 0]
    [] phase[c] \in {"headers", "body"} -> [st |-> "waiting", of |-> 0]
    [] phase[c] = "settled" /\ outcome[c] \in {"ok", "remoteError"} -> [st |-> "answered", of |-> c]
    [] OTHER -> [st |-> "failed", of |-> 0]

RR == INSTANCE RequestResponse WITH Requests <- Calls, reply <- [c \in Calls |-> Told(c)]
CallsKept == RR!Spec

\* A close() returns, and with it every call that waits for it after a
\* malformed result: a DELETE is over with its headers.
CloseReturns == closePromise = "pending" ~> closePromise = "over"

\* The server owes nothing, and a body that has begun need never end, because
\* the timer is cleared when the headers arrive (streamable-http-jsonrpc-client
\* .ts:204), before text() is awaited (:121): its caller may wait for ever, but
\* nobody else does.  A call, the handshake and close() each end, or have come
\* to a body of their own, whatever bodies the others are waiting for.
OnlyABodyHangs ==
  /\ \A c \in Calls : phase[c] \in {"headers", "dropping"} ~> phase[c] \in {"body", "settled"}
  /\ life = "INITIALIZING" ~> life # "INITIALIZING" \/ phase["initialize"] = "body"
  /\ CloseReturns
=============================================================================
