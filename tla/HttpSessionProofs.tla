------------------------- MODULE HttpSessionProofs --------------------------
(***************************************************************************)
(* Theorems about HttpSession for any set of calls and any number of       *)
(* malformed answers: types, a handshake both ends agree on, what a close  *)
(* leaves behind, the implementation of RequestResponse, and that nobody   *)
(* waits for nothing.                                                      *)
(***************************************************************************)
EXTENDS HttpSession, TLAPS

(* An exchange has a caller exactly if it was sent; what is no call has    *)
(* no body to wait for and is not executed.                                *)
Exchanged ==
  /\ \A e \in Exchanges : wire[e] = "none" <=> phase[e] = "unused"
  /\ \A e \in {"initialized", "delete"} :
       /\ phase[e] \in {"unused", "headers", "settled"}
       /\ wire[e] \in {"none", "request", "ok", "refused"}
  /\ phase["initialize"] # "dropping"

(* The client's side of the handshake: its steps are taken in order, and   *)
(* each leaves behind what the next one needs.                             *)
Handshake ==
  /\ transport = "idle" <=> phase["initialize"] = "unused"
  /\ transport = "idle" =>
       /\ life = "DISCONNECTED"
       /\ \A e \in Exchanges : phase[e] = "unused"
  /\ phase["initialize"] \in {"headers", "body"} =>
       /\ life = "INITIALIZING" /\ transport = "running" /\ ~mcpSessionId
       /\ \A e \in Exchanges \ {"initialize"} : phase[e] = "unused"
  /\ phase["initialize"] # "settled" => outcome["initialize"] = "none"
  /\ phase["initialize"] = "body" => wire["initialize"] # "request"
  /\ outcome["initialize"] = "ok" <=> phase["initialized"] # "unused"
  /\ outcome["initialize"] = "ok" => wire["initialize"] \notin {"none", "request"}
  /\ phase["initialized"] = "headers" =>
       life = "INITIALIZING" /\ transport = "running" /\ mcpSessionId
  /\ phase["initialized"] = "settled" => life \in {"READY", "CLOSED"}
  /\ life = "READY" =>
       /\ mcpSessionId /\ transport # "closed"
       /\ wire["initialized"] = "ok" /\ phase["initialized"] = "settled"
  /\ mcpSessionId => outcome["initialize"] = "ok"

(* The close: it happens once, it sends the DELETE if there is a session,  *)
(* and it is over when the DELETE is.                                      *)
Closing ==
  /\ life = "CLOSED" <=> closePromise # "none"
  /\ closePromise = "none" => transport # "closed" /\ phase["delete"] = "unused"
  /\ closePromise = "pending" <=> phase["delete"] = "headers"
  /\ mcpSessionId => closePromise = "none"
  /\ phase["delete"] # "unused" => wire["initialize"] \notin {"none", "request"}
  /\ closePromise = "over" /\ phase["delete"] = "unused" =>
       outcome["initialize"] # "ok" /\ phase["initialize"] = "settled"
  /\ phase["delete"] = "settled" =>
       outcome["delete"] \in Failures \/ (outcome["delete"] = "ok" /\ ~sessions)

(* The server: once it has answered a step of the handshake or the DELETE, *)
(* its state is what it answered, for as long as it has the session.       *)
Served ==
  /\ wire["initialized"] = "ok" /\ sessions => lifecycle = "READY"
  /\ wire["delete"] = "ok" => ~sessions

(* Calls are sent by ready clients only, and answered when executed.       *)
Answered ==
  \A c \in Calls :
    /\ phase[c] # "unused" => wire["initialized"] = "ok" /\ phase["initialized"] = "settled"
    /\ wire[c] \in {"ok", "remoteError"} \cup Malformed => c \in handled
    /\ outcome[c] \in {"ok", "remoteError"} => phase[c] = "settled" /\ c \in handled

IInv == TypeOK /\ Exchanged /\ Handshake /\ Closing /\ Served /\ Answered

LEMMA Names ==
  /\ Exchanges = Calls \cup {"initialize", "initialized", "delete"}
  /\ "initialize" \notin Calls /\ "initialized" \notin Calls /\ "delete" \notin Calls
BY CallsAssumption DEF Exchanges, Control

LEMMA InitEstablishes == Init => IInv
<1>1. SUFFICES ASSUME Init
               PROVE  IInv
  OBVIOUS
<1>2. TypeOK
  <2>1. /\ phase \in [Exchanges -> Phases]
        /\ outcome \in [Exchanges -> Outcomes]
        /\ wire \in [Exchanges -> Wires]
    BY <1>1 DEF Init, Phases, Outcomes, Wires
  <2>2. mcpSessionId \in BOOLEAN /\ sessions \in BOOLEAN
    BY <1>1 DEF Init
  <2>3. QED
    BY <1>1, <2>1, <2>2, MaxFaultsAssumption DEF Init, TypeOK
<1>3. Exchanged /\ Handshake
  BY <1>1, Names DEF Init, Exchanged, Handshake
<1>4. Closing /\ Served /\ Answered
  BY <1>1, Names DEF Init, Closing, Served, Answered, Malformed
<1>5. QED
  BY <1>2, <1>3, <1>4 DEF IInv

-----------------------------------------------------------------------------
(* The server and the network.                                             *)

LEMMA ReceiveInitializeKept ==
  ASSUME IInv, ReceiveInitialize
  PROVE  IInv'
<1> USE Names DEF ReceiveInitialize, Reply, client
<1>1. TypeOK'
  BY DEF IInv, TypeOK, Phases, Outcomes, Wires, Replies, Malformed, Failures
<1>2. Exchanged'
  BY DEF IInv, TypeOK, Exchanged, Handshake, Closing
<1>3. Handshake'
  BY DEF IInv, TypeOK, Exchanged, Handshake, Closing
<1>4. Closing'
  BY DEF IInv, TypeOK, Exchanged, Handshake, Closing, Served, Failures
<1>5. Served'
  BY DEF IInv, TypeOK, Exchanged, Handshake, Closing, Served
<1>6. Answered'
  BY DEF IInv, TypeOK, Exchanged, Handshake, Closing, Served, Answered, Malformed
<1>7. QED
  BY <1>1, <1>2, <1>3, <1>4, <1>5, <1>6 DEF IInv

LEMMA ReceiveInitializedKept ==
  ASSUME IInv, ReceiveInitialized
  PROVE  IInv'
<1> USE Names DEF ReceiveInitialized, Reply, client
<1>1. TypeOK'
  BY DEF IInv, TypeOK, Phases, Outcomes, Wires, Replies, Malformed, Failures
<1>2. Exchanged'
  BY DEF IInv, TypeOK, Exchanged, Handshake, Closing
<1>3. Handshake'
  BY DEF IInv, TypeOK, Exchanged, Handshake, Closing
<1>4. Closing'
  BY DEF IInv, TypeOK, Exchanged, Handshake, Closing, Served, Failures
<1>5. Served'
  BY DEF IInv, TypeOK, Exchanged, Handshake, Closing, Served
<1>6. Answered'
  BY DEF IInv, TypeOK, Exchanged, Handshake, Closing, Served, Answered, Malformed
<1>7. QED
  BY <1>1, <1>2, <1>3, <1>4, <1>5, <1>6 DEF IInv

LEMMA ReceiveCallKept ==
  ASSUME IInv, NEW c \in Calls, ReceiveCall(c)
  PROVE  IInv'
<1> USE Names DEF ReceiveCall, Reply, client, server
<1>1. TypeOK'
  BY DEF IInv, TypeOK, Phases, Outcomes, Wires, Replies, Malformed, Failures
<1>2. Exchanged'
  BY DEF IInv, TypeOK, Exchanged, Handshake, Closing
<1>3. Handshake'
  BY DEF IInv, TypeOK, Exchanged, Handshake, Closing
<1>4. Closing'
  BY DEF IInv, TypeOK, Exchanged, Handshake, Closing, Served, Failures
<1>5. Served'
  BY DEF IInv, TypeOK, Exchanged, Handshake, Closing, Served
<1>6. Answered'
  BY DEF IInv, TypeOK, Exchanged, Handshake, Closing, Served, Answered, Malformed
<1>7. QED
  BY <1>1, <1>2, <1>3, <1>4, <1>5, <1>6 DEF IInv

LEMMA ExecuteCallKept ==
  ASSUME IInv, NEW c \in Calls, ExecuteCall(c)
  PROVE  IInv'
<1> USE Names DEF ExecuteCall, client
<1>1. TypeOK'
  BY DEF IInv, TypeOK, Phases, Outcomes, Wires, Replies, Malformed, Failures
<1>2. Exchanged'
  BY DEF IInv, TypeOK, Exchanged, Handshake, Closing
<1>3. Handshake'
  BY DEF IInv, TypeOK, Exchanged, Handshake, Closing
<1>4. Closing'
  BY DEF IInv, TypeOK, Exchanged, Handshake, Closing, Served, Failures
<1>5. Served'
  BY DEF IInv, TypeOK, Exchanged, Handshake, Closing, Served
<1>6. Answered'
  BY DEF IInv, TypeOK, Exchanged, Handshake, Closing, Served, Answered, Malformed
<1>7. QED
  BY <1>1, <1>2, <1>3, <1>4, <1>5, <1>6 DEF IInv

LEMMA AnswerCallKept ==
  ASSUME IInv, NEW c \in Calls, AnswerCall(c)
  PROVE  IInv'
<1> USE Names DEF AnswerCall, Reply, client, server
<1>1. TypeOK'
  BY DEF IInv, TypeOK, Phases, Outcomes, Wires, Replies, Malformed, Failures
<1>2. Exchanged'
  BY DEF IInv, TypeOK, Exchanged, Handshake, Closing
<1>3. Handshake'
  BY DEF IInv, TypeOK, Exchanged, Handshake, Closing
<1>4. Closing'
  BY DEF IInv, TypeOK, Exchanged, Handshake, Closing, Served, Failures
<1>5. Served'
  BY DEF IInv, TypeOK, Exchanged, Handshake, Closing, Served
<1>6. Answered'
  BY DEF IInv, TypeOK, Exchanged, Handshake, Closing, Served, Answered, Malformed
<1>7. QED
  BY <1>1, <1>2, <1>3, <1>4, <1>5, <1>6 DEF IInv

LEMMA ReceiveDeleteKept ==
  ASSUME IInv, ReceiveDelete
  PROVE  IInv'
<1> USE Names DEF ReceiveDelete, Reply, client
<1>1. TypeOK'
  BY DEF IInv, TypeOK, Phases, Outcomes, Wires, Replies, Malformed, Failures
<1>2. Exchanged'
  BY DEF IInv, TypeOK, Exchanged, Handshake, Closing
<1>3. Handshake'
  BY DEF IInv, TypeOK, Exchanged, Handshake, Closing
<1>4. Closing'
  BY DEF IInv, TypeOK, Exchanged, Handshake, Closing, Served, Failures
<1>5. Served'
  BY DEF IInv, TypeOK, Exchanged, Handshake, Closing, Served
<1>6. Answered'
  BY DEF IInv, TypeOK, Exchanged, Handshake, Closing, Served, Answered, Malformed
<1>7. QED
  BY <1>1, <1>2, <1>3, <1>4, <1>5, <1>6 DEF IInv

LEMMA RestartKept ==
  ASSUME IInv, Restart
  PROVE  IInv'
<1> USE Names DEF Restart, client
<1>1. TypeOK'
  BY DEF IInv, TypeOK, Phases, Outcomes, Wires, Replies, Malformed, Failures
<1>2. Exchanged'
  BY DEF IInv, TypeOK, Exchanged, Handshake, Closing
<1>3. Handshake'
  BY DEF IInv, TypeOK, Exchanged, Handshake, Closing
<1>4. Closing'
  BY DEF IInv, TypeOK, Exchanged, Handshake, Closing, Served, Failures
<1>5. Served'
  BY DEF IInv, TypeOK, Exchanged, Handshake, Closing, Served
<1>6. Answered'
  BY DEF IInv, TypeOK, Exchanged, Handshake, Closing, Served, Answered, Malformed
<1>7. QED
  BY <1>1, <1>2, <1>3, <1>4, <1>5, <1>6 DEF IInv

LEMMA CorruptKept ==
  ASSUME IInv, NEW e \in Exchanges, Corrupt(e)
  PROVE  IInv'
<1> USE Names DEF client, server
<1>a. PICK r \in Malformed : wire' = [wire EXCEPT ![e] = r]
  BY DEF Corrupt, Reply
<1>b. /\ wire[e] = "ok" /\ e \in Calls \cup {"initialize"}
      /\ faults' = faults + 1 /\ faults < MaxFaults
      /\ UNCHANGED <<client, server>>
  BY DEF Corrupt
<1>c. r \in {"garbled", "badResult"} /\ MaxFaults \in Nat
  BY MaxFaultsAssumption DEF Malformed
<1>1. TypeOK'
  BY <1>a, <1>b, <1>c DEF IInv, TypeOK, Phases, Outcomes, Wires, Replies, Malformed, Failures
<1>2. Exchanged'
  BY <1>a, <1>b, <1>c DEF IInv, TypeOK, Exchanged, Handshake, Closing
<1>3. Handshake'
  BY <1>a, <1>b, <1>c DEF IInv, TypeOK, Exchanged, Handshake, Closing
<1>4. Closing'
  BY <1>a, <1>b, <1>c DEF IInv, TypeOK, Exchanged, Handshake, Closing, Served, Failures
<1>5. Served'
  BY <1>a, <1>b, <1>c DEF IInv, TypeOK, Exchanged, Handshake, Closing, Served
<1>6. Answered'
  BY <1>a, <1>b, <1>c DEF IInv, TypeOK, Exchanged, Handshake, Closing, Served, Answered, Malformed
<1>7. QED
  BY <1>1, <1>2, <1>3, <1>4, <1>5, <1>6 DEF IInv

-----------------------------------------------------------------------------
(* The client sends.                                                       *)

LEMMA StartSessionKept ==
  ASSUME IInv, StartSession
  PROVE  IInv'
<1> USE Names DEF StartSession, Sent, Post, server
<1>1. TypeOK'
  BY DEF IInv, TypeOK, Phases, Outcomes, Wires, Replies, Malformed, Failures
<1>2. Exchanged'
  BY DEF IInv, TypeOK, Exchanged, Handshake, Closing
<1>3. Handshake'
  BY DEF IInv, TypeOK, Exchanged, Handshake, Closing
<1>4. Closing'
  BY DEF IInv, TypeOK, Exchanged, Handshake, Closing, Served, Failures
<1>5. Served'
  BY DEF IInv, TypeOK, Exchanged, Handshake, Closing, Served
<1>6. Answered'
  BY DEF IInv, TypeOK, Exchanged, Handshake, Closing, Served, Answered, Malformed
<1>7. QED
  BY <1>1, <1>2, <1>3, <1>4, <1>5, <1>6 DEF IInv

LEMMA CallKept ==
  ASSUME IInv, NEW c \in Calls, Call(c)
  PROVE  IInv'
<1> USE Names DEF Call, Sent, Post, server
<1>1. TypeOK'
  BY DEF IInv, TypeOK, Phases, Outcomes, Wires, Replies, Malformed, Failures
<1>2. Exchanged'
  BY DEF IInv, TypeOK, Exchanged, Handshake, Closing
<1>3. Handshake'
  BY DEF IInv, TypeOK, Exchanged, Handshake, Closing
<1>4. Closing'
  BY DEF IInv, TypeOK, Exchanged, Handshake, Closing, Served, Failures
<1>5. Served'
  BY DEF IInv, TypeOK, Exchanged, Handshake, Closing, Served
<1>6. Answered'
  BY DEF IInv, TypeOK, Exchanged, Handshake, Closing, Served, Answered, Malformed
<1>7. QED
  BY <1>1, <1>2, <1>3, <1>4, <1>5, <1>6 DEF IInv

(* close() sends the DELETE once, or nothing if there is no session.       *)
LEMMA ClosesOnce ==
  ASSUME IInv, NEW ph, CloseTransport(ph)
  PROVE  \/ /\ closePromise # "none"
            /\ phase' = ph
            /\ UNCHANGED <<transport, closePromise, mcpSessionId, wire>>
         \/ /\ closePromise = "none" /\ mcpSessionId
            /\ mcpSessionId' = FALSE /\ transport' = "closing" /\ closePromise' = "pending"
            /\ phase' = [ph EXCEPT !["delete"] = "headers"]
            /\ wire' = [wire EXCEPT !["delete"] = "request"]
         \/ /\ closePromise = "none" /\ ~mcpSessionId
            /\ mcpSessionId' = FALSE /\ transport' = "closed" /\ closePromise' = "over"
            /\ phase' = ph
            /\ UNCHANGED wire
BY DEF IInv, Closing, CloseTransport, Post

LEMMA CloseKept ==
  ASSUME IInv, Close
  PROVE  IInv'
<1> USE Names DEF server
<1>a. life = "READY" /\ life' = "CLOSED" /\ UNCHANGED <<outcome, server, faults>>
  BY DEF Close
<1>b. closePromise = "none" /\ mcpSessionId
  BY <1>a DEF IInv, Closing, Handshake
<1>c. /\ mcpSessionId' = FALSE /\ transport' = "closing" /\ closePromise' = "pending"
      /\ phase' = [phase EXCEPT !["delete"] = "headers"]
      /\ wire' = [wire EXCEPT !["delete"] = "request"]
  BY <1>b, ClosesOnce DEF Close
<1>1. TypeOK'
  BY <1>a, <1>b, <1>c DEF IInv, TypeOK, Phases, Outcomes, Wires, Replies, Malformed, Failures
<1>2. Exchanged'
  BY <1>a, <1>b, <1>c DEF IInv, TypeOK, Exchanged, Handshake, Closing
<1>3. Handshake'
  BY <1>a, <1>b, <1>c DEF IInv, TypeOK, Exchanged, Handshake, Closing
<1>4. Closing'
  BY <1>a, <1>b, <1>c DEF IInv, TypeOK, Exchanged, Handshake, Closing, Served, Failures
<1>5. Served'
  BY <1>a, <1>b, <1>c DEF IInv, TypeOK, Exchanged, Handshake, Closing, Served
<1>6. Answered'
  BY <1>a, <1>b, <1>c DEF IInv, TypeOK, Exchanged, Handshake, Closing, Served, Answered, Malformed
<1>7. QED
  BY <1>1, <1>2, <1>3, <1>4, <1>5, <1>6 DEF IInv

-----------------------------------------------------------------------------
(* An exchange of the client ends.                                         *)

LEMMA InitializeSucceedsKept ==
  ASSUME IInv, phase["initialize"] = "body", wire["initialize"] = "ok",
         InitializeSucceeds, UNCHANGED <<server, faults>>
  PROVE  IInv'
<1> USE Names DEF InitializeSucceeds, Ended, Post, Report, server
<1>1. TypeOK'
  BY DEF IInv, TypeOK, Phases, Outcomes, Wires, Replies, Malformed, Failures
<1>2. Exchanged'
  BY DEF IInv, TypeOK, Exchanged, Handshake, Closing
<1>3. Handshake'
  BY DEF IInv, TypeOK, Exchanged, Handshake, Closing
<1>4. Closing'
  BY DEF IInv, TypeOK, Exchanged, Handshake, Closing, Served, Failures
<1>5. Served'
  BY DEF IInv, TypeOK, Exchanged, Handshake, Closing, Served
<1>6. Answered'
  BY DEF IInv, TypeOK, Exchanged, Handshake, Closing, Served, Answered, Malformed
<1>7. QED
  BY <1>1, <1>2, <1>3, <1>4, <1>5, <1>6 DEF IInv

LEMMA InitializeInvalidKept ==
  ASSUME IInv, phase["initialize"] = "body", wire["initialize"] = "badResult",
         InitializeInvalid, UNCHANGED <<server, faults>>
  PROVE  IInv'
<1> USE Names DEF InitializeInvalid, Ended, Post, Report, server
<1>1. TypeOK'
  BY DEF IInv, TypeOK, Phases, Outcomes, Wires, Replies, Malformed, Failures
<1>2. Exchanged'
  BY DEF IInv, TypeOK, Exchanged, Handshake, Closing
<1>3. Handshake'
  BY DEF IInv, TypeOK, Exchanged, Handshake, Closing
<1>4. Closing'
  BY DEF IInv, TypeOK, Exchanged, Handshake, Closing, Served, Failures
<1>5. Served'
  BY DEF IInv, TypeOK, Exchanged, Handshake, Closing, Served
<1>6. Answered'
  BY DEF IInv, TypeOK, Exchanged, Handshake, Closing, Served, Answered, Malformed
<1>7. QED
  BY <1>1, <1>2, <1>3, <1>4, <1>5, <1>6 DEF IInv

LEMMA InitializeGarbledKept ==
  ASSUME IInv, phase["initialize"] = "body", wire["initialize"] = "garbled",
         InitializeGarbled, UNCHANGED <<server, faults>>
  PROVE  IInv'
<1> USE Names DEF InitializeGarbled, Ended, Report, server
<1>1. TypeOK'
  BY DEF IInv, TypeOK, Phases, Outcomes, Wires, Replies, Malformed, Failures
<1>2. Exchanged'
  BY DEF IInv, TypeOK, Exchanged, Handshake, Closing
<1>3. Handshake'
  BY DEF IInv, TypeOK, Exchanged, Handshake, Closing
<1>4. Closing'
  BY DEF IInv, TypeOK, Exchanged, Handshake, Closing, Served, Failures
<1>5. Served'
  BY DEF IInv, TypeOK, Exchanged, Handshake, Closing, Served
<1>6. Answered'
  BY DEF IInv, TypeOK, Exchanged, Handshake, Closing, Served, Answered, Malformed
<1>7. QED
  BY <1>1, <1>2, <1>3, <1>4, <1>5, <1>6 DEF IInv

LEMMA InitializeFailsKept ==
  ASSUME IInv, NEW e \in {"initialize", "initialized"}, NEW how \in Failures \cup {"remoteError"},
         phase[e] \in {"headers", "body"}, InitializeFails(e, how), UNCHANGED <<server, faults>>
  PROVE  IInv'
<1> USE Names DEF server
<1>a. /\ how \in Outcomes /\ how # "ok"
      /\ life' = "CLOSED" /\ outcome' = [outcome EXCEPT ![e] = how]
  BY DEF InitializeFails, Report, Failures, Outcomes
<1>b. closePromise = "none" /\ (mcpSessionId <=> e = "initialized")
  BY DEF IInv, Closing, Handshake, Exchanged
<1>c. /\ e = "initialize" =>
           /\ mcpSessionId' = FALSE /\ transport' = "closed" /\ closePromise' = "over"
           /\ phase' = [phase EXCEPT ![e] = "settled"] /\ UNCHANGED wire
      /\ e = "initialized" =>
           /\ mcpSessionId' = FALSE /\ transport' = "closing" /\ closePromise' = "pending"
           /\ phase' = [phase EXCEPT ![e] = "settled", !["delete"] = "headers"]
           /\ wire' = [wire EXCEPT !["delete"] = "request"]
  BY <1>b, ClosesOnce DEF InitializeFails, Ended
<1>d. phase' \in [Exchanges -> Phases] /\ wire' \in [Exchanges -> Wires]
  BY <1>c DEF IInv, TypeOK, Phases, Wires
<1>1. TypeOK'
  BY <1>a, <1>b, <1>c, <1>d DEF IInv, TypeOK, Phases, Outcomes, Wires, Replies, Malformed, Failures
<1>2. Exchanged'
  BY <1>a, <1>b, <1>c, <1>d DEF IInv, TypeOK, Exchanged, Handshake, Closing
<1>3. Handshake'
  BY <1>a, <1>b, <1>c, <1>d DEF IInv, TypeOK, Exchanged, Handshake, Closing
<1>4. Closing'
  BY <1>a, <1>b, <1>c, <1>d DEF IInv, TypeOK, Exchanged, Handshake, Closing, Served, Failures
<1>5. Served'
  BY <1>a, <1>b, <1>c, <1>d DEF IInv, TypeOK, Exchanged, Handshake, Closing, Served
<1>6. Answered'
  BY <1>a, <1>b, <1>c, <1>d DEF IInv, TypeOK, Exchanged, Handshake, Closing, Served, Answered, Malformed
<1>7. QED
  BY <1>1, <1>2, <1>3, <1>4, <1>5, <1>6 DEF IInv

LEMMA CloseEndsKept ==
  ASSUME IInv, NEW how \in Failures \cup {"ok"}, phase["delete"] = "headers", how = "ok" => wire["delete"] = "ok",
         CloseEnds(how), UNCHANGED <<server, faults>>
  PROVE  IInv'
<1> USE Names DEF CloseEnds, Report, server
<1>1. TypeOK'
  BY DEF IInv, TypeOK, Phases, Outcomes, Wires, Replies, Malformed, Failures
<1>2. Exchanged'
  BY DEF IInv, TypeOK, Exchanged, Handshake, Closing
<1>3. Handshake'
  BY DEF IInv, TypeOK, Exchanged, Handshake, Closing
<1>4. Closing'
  BY DEF IInv, TypeOK, Exchanged, Handshake, Closing, Served, Failures
<1>5. Served'
  BY DEF IInv, TypeOK, Exchanged, Handshake, Closing, Served
<1>6. Answered'
  BY DEF IInv, TypeOK, Exchanged, Handshake, Closing, Served, Answered, Malformed
<1>7. QED
  BY <1>1, <1>2, <1>3, <1>4, <1>5, <1>6 DEF IInv

LEMMA CallSettlesKept ==
  ASSUME IInv, NEW c \in Calls, NEW how \in Failures \cup {"ok", "remoteError"},
         phase[c] \in {"headers", "body"},
         how \in {"ok", "remoteError"} => wire[c] = how,
         phase' = Ended(c), Report(c, how),
         transport' \in {transport, "failed"},
         UNCHANGED <<closePromise, mcpSessionId, life, wire, server, faults>>
  PROVE  IInv'
<1> USE Names DEF Ended, Report, server
<1>1. TypeOK'
  BY DEF IInv, TypeOK, Phases, Outcomes, Wires, Replies, Malformed, Failures
<1>2. Exchanged'
  BY DEF IInv, TypeOK, Exchanged, Handshake, Closing
<1>3. Handshake'
  BY DEF IInv, TypeOK, Exchanged, Handshake, Closing, Answered
<1>4. Closing'
  BY DEF IInv, TypeOK, Exchanged, Handshake, Closing, Served, Failures
<1>5. Served'
  BY DEF IInv, TypeOK, Exchanged, Handshake, Closing, Served
<1>6. Answered'
  BY DEF IInv, TypeOK, Exchanged, Handshake, Closing, Served, Answered, Malformed
<1>7. QED
  BY <1>1, <1>2, <1>3, <1>4, <1>5, <1>6 DEF IInv

LEMMA DropResultKept ==
  ASSUME IInv, NEW c \in Calls, phase[c] = "body", DropResult(c), UNCHANGED <<server, faults>>
  PROVE  IInv'
<1> USE Names DEF server
<1>a. life' = "CLOSED" /\ outcome' = [outcome EXCEPT ![c] = "PROTOCOL_ERROR"]
  BY DEF DropResult, Report
<1>b. PICK st \in {"settled", "dropping"} : CloseTransport([phase EXCEPT ![c] = st])
  BY DEF DropResult, Ended
<1>c. closePromise = "none" => mcpSessionId
  BY DEF IInv, Answered, Handshake, Closing
<1>d. \/ /\ closePromise # "none"
         /\ phase' = [phase EXCEPT ![c] = st]
         /\ UNCHANGED <<transport, closePromise, mcpSessionId, wire>>
      \/ /\ closePromise = "none" /\ mcpSessionId
         /\ mcpSessionId' = FALSE /\ transport' = "closing" /\ closePromise' = "pending"
         /\ phase' = [phase EXCEPT ![c] = st, !["delete"] = "headers"]
         /\ wire' = [wire EXCEPT !["delete"] = "request"]
  BY <1>b, <1>c, ClosesOnce
<1>e. mcpSessionId' \in BOOLEAN
  BY <1>d DEF IInv, TypeOK
<1>1. TypeOK'
  BY <1>a, <1>d, <1>e DEF IInv, TypeOK, Phases, Outcomes, Wires, Replies, Malformed, Failures
<1>2. Exchanged'
  BY <1>a, <1>d, <1>e DEF IInv, TypeOK, Exchanged, Handshake, Closing
<1>3. Handshake'
  BY <1>a, <1>d, <1>e DEF IInv, TypeOK, Exchanged, Handshake, Closing, Answered
<1>4. Closing'
  BY <1>a, <1>d, <1>e DEF IInv, TypeOK, Exchanged, Handshake, Closing, Served, Failures
<1>5. Served'
  BY <1>a, <1>d, <1>e DEF IInv, TypeOK, Exchanged, Handshake, Closing, Served
<1>6. Answered'
  BY <1>a, <1>d, <1>e DEF IInv, TypeOK, Exchanged, Handshake, Closing, Served, Answered, Malformed
<1>7. QED
  BY <1>1, <1>2, <1>3, <1>4, <1>5, <1>6 DEF IInv

LEMMA AwaitBodyKept ==
  ASSUME IInv, NEW e \in Calls \cup {"initialize"}, phase[e] = "headers", wire[e] \in Replies,
         phase' = [phase EXCEPT ![e] = "body"],
         UNCHANGED <<transport, closePromise, mcpSessionId, life, outcome, wire, server, faults>>
  PROVE  IInv'
<1> USE Names DEF server
<1>a. wire[e] # "request" /\ wire[e] # "none"
  BY DEF Replies, Malformed
<1>1. TypeOK'
  BY <1>a DEF IInv, TypeOK, Phases, Outcomes, Wires, Replies, Malformed, Failures
<1>2. Exchanged'
  BY <1>a DEF IInv, TypeOK, Exchanged, Handshake, Closing
<1>3. Handshake'
  BY <1>a DEF IInv, TypeOK, Exchanged, Handshake, Closing
<1>4. Closing'
  BY <1>a DEF IInv, TypeOK, Exchanged, Handshake, Closing, Served, Failures
<1>5. Served'
  BY <1>a DEF IInv, TypeOK, Exchanged, Handshake, Closing, Served
<1>6. Answered'
  BY <1>a DEF IInv, TypeOK, Exchanged, Handshake, Closing, Served, Answered, Malformed
<1>7. QED
  BY <1>1, <1>2, <1>3, <1>4, <1>5, <1>6 DEF IInv

LEMMA ReadyKept ==
  ASSUME IInv, phase["initialized"] = "headers", wire["initialized"] = "ok",
         life' = "READY", phase' = Ended("initialized"), Report("initialized", "ok"),
         UNCHANGED <<transport, closePromise, mcpSessionId, wire, server, faults>>
  PROVE  IInv'
<1> USE Names DEF Ended, Report, server
<1>1. TypeOK'
  BY DEF IInv, TypeOK, Phases, Outcomes, Wires, Replies, Malformed, Failures
<1>2. Exchanged'
  BY DEF IInv, TypeOK, Exchanged, Handshake, Closing
<1>3. Handshake'
  BY DEF IInv, TypeOK, Exchanged, Handshake, Closing
<1>4. Closing'
  BY DEF IInv, TypeOK, Exchanged, Handshake, Closing, Served, Failures
<1>5. Served'
  BY DEF IInv, TypeOK, Exchanged, Handshake, Closing, Served
<1>6. Answered'
  BY DEF IInv, TypeOK, Exchanged, Handshake, Closing, Served, Answered, Malformed
<1>7. QED
  BY <1>1, <1>2, <1>3, <1>4, <1>5, <1>6 DEF IInv

LEMMA ExchangeFailsKept ==
  ASSUME IInv, NEW e \in Exchanges, NEW how \in Failures,
         phase[e] \in {"headers", "body"}, ExchangeFails(e, how), UNCHANGED <<server, faults>>
  PROVE  IInv'
<1>1. CASE e \in {"initialize", "initialized"} /\ InitializeFails(e, how)
  BY <1>1, InitializeFailsKept
<1>2. CASE e = "delete" /\ CloseEnds(how)
  <2>1. phase["delete"] = "headers" /\ how # "ok"
    BY <1>2 DEF IInv, Exchanged, Failures
  <2>2. QED
    BY <1>2, <2>1, CloseEndsKept
<1>3. CASE e \in Calls /\ ~(e \in {"initialize", "initialized"} \/ e = "delete")
  <2>1. how \notin {"ok", "remoteError"}
    BY DEF Failures
  <2>2. QED
    BY <1>3, <2>1, CallSettlesKept DEF ExchangeFails
<1>4. QED
  BY <1>1, <1>2, <1>3, Names DEF ExchangeFails

LEMMA FetchFailsKept ==
  ASSUME IInv, NEW e \in Exchanges, FetchFails(e) \/ BodyFails(e)
  PROVE  IInv'
BY ExchangeFailsKept DEF FetchFails, BodyFails, Failures

LEMMA HeadersArriveKept ==
  ASSUME IInv, NEW e \in Exchanges, HeadersArrive(e)
  PROVE  IInv'
<1>1. phase[e] = "headers" /\ wire[e] \in Replies /\ UNCHANGED <<server, faults>>
  BY DEF HeadersArrive
<1>2. CASE wire[e] = "refused" /\ ExchangeFails(e, "HTTP_ERROR")
  BY <1>1, <1>2, ExchangeFailsKept DEF Failures
<1>3. CASE /\ e \notin {"initialized", "delete"}
           /\ phase' = [phase EXCEPT ![e] = "body"]
           /\ UNCHANGED <<transport, closePromise, mcpSessionId, life, outcome, wire>>
  <2>1. e \in Calls \cup {"initialize"}
    BY <1>3, Names
  <2>2. QED
    BY <1>1, <1>3, <2>1, AwaitBodyKept
<1>4. e \in {"initialized", "delete"} => wire[e] \in {"ok", "refused"}
  BY <1>1 DEF IInv, Exchanged, Replies, Malformed
<1>5. CASE /\ wire[e] # "refused" /\ e = "initialized"
           /\ life' = "READY" /\ phase' = Ended(e) /\ Report(e, "ok")
           /\ UNCHANGED <<transport, closePromise, mcpSessionId, wire>>
  BY <1>1, <1>4, <1>5, ReadyKept
<1>6. CASE wire[e] # "refused" /\ e = "delete" /\ CloseEnds("ok")
  BY <1>1, <1>4, <1>6, CloseEndsKept
<1>7. QED
  BY <1>2, <1>3, <1>5, <1>6 DEF HeadersArrive

LEMMA BodyArrivesKept ==
  ASSUME IInv, NEW e \in Exchanges, BodyArrives(e)
  PROVE  IInv'
<1>1. phase[e] = "body" /\ UNCHANGED <<server, faults>>
  BY DEF BodyArrives
<1>2. CASE e = "initialize" /\ InitializeEnds(wire[e])
  BY <1>1, <1>2, InitializeSucceedsKept, InitializeInvalidKept, InitializeGarbledKept,
     InitializeFailsKept
  DEF InitializeEnds
<1>3. CASE e \in Calls /\ CallEnds(e, wire[e])
  <2>1. CASE wire[e] = "badResult" /\ DropResult(e)
    BY <1>1, <1>3, <2>1, DropResultKept
  <2>2. CASE FailTransport(e)
    BY <1>1, <1>3, <2>2, CallSettlesKept DEF FailTransport, Failures
  <2>3. CASE /\ wire[e] \in {"ok", "remoteError"}
             /\ phase' = Ended(e)
             /\ Report(e, wire[e])
             /\ UNCHANGED <<transport, closePromise, mcpSessionId, life, wire>>
    BY <1>1, <1>3, <2>3, CallSettlesKept
  <2>4. QED
    BY <1>3, <2>1, <2>2, <2>3 DEF CallEnds
<1>4. QED
  BY <1>2, <1>3 DEF BodyArrives

-----------------------------------------------------------------------------
(* The invariant.                                                          *)

LEMMA NextPreserves == IInv /\ [Next]_vars => IInv'
<1>1. SUFFICES ASSUME IInv, [Next]_vars
               PROVE  IInv'
  OBVIOUS
<1>2. CASE UNCHANGED vars
  <2>1. (TypeOK /\ Exchanged /\ Handshake)'
    BY <1>1, <1>2 DEF IInv, vars, client, server, TypeOK, Exchanged, Handshake
  <2>2. (Closing /\ Served /\ Answered)'
    BY <1>1, <1>2 DEF IInv, vars, client, server, Closing, Served, Answered
  <2>3. QED
    BY <2>1, <2>2 DEF IInv
<1>3. CASE StartSession \/ Close
  BY <1>1, <1>3, StartSessionKept, CloseKept
<1>4. CASE ReceiveInitialize \/ ReceiveInitialized \/ ReceiveDelete \/ Restart
  BY <1>1, <1>4, ReceiveInitializeKept, ReceiveInitializedKept, ReceiveDeleteKept, RestartKept
<1>5. ASSUME NEW c \in Calls, Call(c) \/ ReceiveCall(c) \/ ExecuteCall(c) \/ AnswerCall(c)
      PROVE  IInv'
  BY <1>1, <1>5, CallKept, ReceiveCallKept, ExecuteCallKept, AnswerCallKept
<1>6. ASSUME NEW e \in Exchanges,
             FetchFails(e) \/ HeadersArrive(e) \/ BodyArrives(e) \/ BodyFails(e) \/ Corrupt(e)
      PROVE  IInv'
  BY <1>1, <1>6, FetchFailsKept, HeadersArriveKept, BodyArrivesKept, CorruptKept
<1>7. QED
  BY <1>1, <1>2, <1>3, <1>4, <1>5, <1>6 DEF Next

LEMMA Invariance == Spec => []IInv
BY InitEstablishes, NextPreserves, PTL DEF Spec

-----------------------------------------------------------------------------
(* Every step is one of RequestResponse, or none.                          *)

Stutters == handled' = handled /\ \A c \in Calls : Told(c)' = Told(c)

LEMMA AbstractStutter ==
  ASSUME Stutters
  PROVE  [RR!Next]_(RR!vars)
BY DEF Stutters, RR!vars

(* A call that goes on waiting, or that failed and is released by close(). *)
LEMMA SameToCaller ==
  ASSUME IInv, NEW c \in Calls, outcome'[c] = outcome[c],
         \/ phase'[c] = phase[c]
         \/ phase[c] \in {"headers", "body"} /\ phase'[c] \in {"headers", "body"}
         \/ phase[c] = "dropping" /\ phase'[c] = "settled"
  PROVE  Told(c)' = Told(c)
BY DEF IInv, Answered, Told

LEMMA QuietStep ==
  ASSUME IInv,
         \/ StartSession \/ Close \/ ReceiveInitialize \/ ReceiveInitialized \/ ReceiveDelete
         \/ Restart \/ (\E c \in Calls : ReceiveCall(c) \/ AnswerCall(c))
         \/ (\E e \in Exchanges : Corrupt(e)) \/ UNCHANGED vars
  PROVE  Stutters
<1>1. CASE UNCHANGED <<phase, outcome, handled>>
  BY <1>1, SameToCaller DEF Stutters
<1>2. CASE StartSession
  BY <1>2, SameToCaller, Names DEF StartSession, Sent, server, Stutters, IInv, TypeOK
<1>3. CASE Close
  <2>1. UNCHANGED <<outcome, handled>>
    BY <1>3 DEF Close, server
  <2>2. \A c \in Calls : phase'[c] = phase[c]
    BY <1>3, ClosesOnce, Names DEF Close, IInv, TypeOK
  <2>3. QED
    BY <2>1, <2>2, SameToCaller DEF Stutters
<1>4. QED
  BY <1>1, <1>2, <1>3
     DEF ReceiveInitialize, ReceiveInitialized, ReceiveDelete, Restart, ReceiveCall,
         AnswerCall, Corrupt, client, server, vars

(* One call fails: the only one that is told something new.                *)
LEMMA CallFails ==
  ASSUME IInv, NEW c \in Calls, phase[c] \in {"headers", "body"},
         phase'[c] \in {"settled", "dropping"}, outcome'[c] \in Failures,
         handled' = handled,
         \A d \in Calls \ {c} : outcome'[d] = outcome[d] /\ phase'[d] = phase[d]
  PROVE  RR!Next
<1>1. Told(c) = RR!Waiting /\ Told(c)' = RR!Failed
  <2>1. Told(c) = RR!Waiting
    BY DEF Told, RR!Waiting
  <2>2. Told(c)' = RR!Failed
    BY DEF Failures, Told, RR!Failed
  <2>3. QED
    BY <2>1, <2>2
<1>2. \A d \in Calls \ {c} : Told(d)' = Told(d)
  BY SameToCaller
<1>3. [d \in Calls |-> Told(d)]' =
        [d \in Calls |-> IF d \in {c} THEN RR!Failed ELSE [q \in Calls |-> Told(q)][d]]
  BY <1>1, <1>2
<1>4. RR!Fail({c})
  BY <1>1, <1>3 DEF RR!Fail
<1>5. QED
  BY <1>4 DEF RR!Next

(* The end of a step of the handshake or of the DELETE.                    *)
LEMMA ControlEnds ==
  ASSUME IInv, handled' = handled,
         \/ \E e \in {"initialize", "initialized"}, how \in Outcomes : InitializeFails(e, how)
         \/ \E how \in Outcomes : CloseEnds(how)
         \/ InitializeSucceeds \/ InitializeInvalid \/ InitializeGarbled
  PROVE  Stutters
<1>1. \A c \in Calls : outcome'[c] = outcome[c]
  BY Names DEF IInv, TypeOK, InitializeFails, CloseEnds, InitializeSucceeds,
     InitializeInvalid, InitializeGarbled, Report
<1>2. \A c \in Calls : phase'[c] = phase[c] \/ (phase[c] = "dropping" /\ phase'[c] = "settled")
  <2>1. CASE \E how \in Outcomes : CloseEnds(how)
    BY <2>1, Names DEF CloseEnds
  <2>2. CASE InitializeSucceeds \/ InitializeInvalid \/ InitializeGarbled
    BY <2>2, Names DEF IInv, TypeOK, InitializeSucceeds, InitializeInvalid,
       InitializeGarbled, Ended
  <2>3. ASSUME NEW e \in {"initialize", "initialized"}, NEW how \in Outcomes,
               InitializeFails(e, how)
        PROVE  \A c \in Calls : phase'[c] = phase[c]
    <3>1. phase' = Ended(e) \/ phase' = [Ended(e) EXCEPT !["delete"] = "headers"]
      BY <2>3, ClosesOnce DEF InitializeFails
    <3>2. QED
      BY <3>1, Names DEF Ended, IInv, TypeOK
  <2>4. QED
    BY <2>1, <2>2, <2>3
<1>3. QED
  BY <1>1, <1>2, SameToCaller DEF Stutters

LEMMA ExchangeFailsRefines ==
  ASSUME IInv, NEW e \in Exchanges, NEW how \in Failures,
         phase[e] \in {"headers", "body"}, ExchangeFails(e, how), handled' = handled
  PROVE  RR!Next \/ Stutters
<1>1. how \in Outcomes
  BY DEF Outcomes
<1>2. CASE e \notin Calls
  BY <1>1, <1>2, ControlEnds DEF ExchangeFails
<1>3. CASE e \in Calls
  <2>1. phase' = Ended(e) /\ Report(e, how)
    BY <1>3, Names DEF ExchangeFails
  <2>2. QED
    BY <1>3, <2>1, CallFails DEF Ended, Report, IInv, TypeOK
<1>4. QED
  BY <1>2, <1>3

LEMMA ClientStepRefines ==
  ASSUME IInv, NEW e \in Exchanges,
         FetchFails(e) \/ HeadersArrive(e) \/ BodyArrives(e) \/ BodyFails(e)
  PROVE  RR!Next \/ Stutters
<1>1. handled' = handled
  BY DEF FetchFails, HeadersArrive, BodyArrives, BodyFails, server
<1>2. CASE FetchFails(e) \/ BodyFails(e)
  BY <1>1, <1>2, ExchangeFailsRefines DEF FetchFails, BodyFails, Failures
<1>3. CASE HeadersArrive(e)
  <2>1. CASE ExchangeFails(e, "HTTP_ERROR")
    BY <1>1, <1>3, <2>1, ExchangeFailsRefines DEF HeadersArrive, Failures
  <2>2. CASE phase' = [phase EXCEPT ![e] = "body"] /\ UNCHANGED outcome
    BY <1>1, <1>3, <2>2, SameToCaller DEF HeadersArrive, IInv, TypeOK, Stutters
  <2>3. CASE e = "initialized" /\ phase' = Ended(e) /\ Report(e, "ok")
    BY <1>1, <2>3, SameToCaller, Names DEF Ended, Report, IInv, TypeOK, Stutters
  <2>4. CASE CloseEnds("ok")
    BY <1>1, <2>4, ControlEnds DEF Outcomes
  <2>5. QED
    BY <1>3, <2>1, <2>2, <2>3, <2>4 DEF HeadersArrive
<1>4. CASE BodyArrives(e) /\ e \notin Calls
  BY <1>1, <1>4, ControlEnds DEF BodyArrives, InitializeEnds, Outcomes
<1>5. CASE BodyArrives(e) /\ e \in Calls
  <2>1. phase[e] = "body" /\ CallEnds(e, wire[e])
    BY <1>5, Names DEF BodyArrives
  <2>2. CASE DropResult(e)
    <3>1. PICK st \in {"settled", "dropping"} : CloseTransport([phase EXCEPT ![e] = st])
      BY <2>2 DEF DropResult, Ended
    <3>2. phase' = [phase EXCEPT ![e] = st]
            \/ phase' = [phase EXCEPT ![e] = st, !["delete"] = "headers"]
      BY <3>1, ClosesOnce
    <3>3. outcome' = [outcome EXCEPT ![e] = "PROTOCOL_ERROR"]
      BY <2>2 DEF DropResult, Report
    <3>4. QED
      BY <1>1, <1>5, <2>1, <3>2, <3>3, CallFails, Names DEF IInv, TypeOK, Failures
  <2>3. CASE FailTransport(e)
    BY <1>1, <1>5, <2>1, <2>3, CallFails
       DEF FailTransport, Ended, Report, IInv, TypeOK, Failures
  <2>4. CASE wire[e] \in {"ok", "remoteError"} /\ phase' = Ended(e) /\ Report(e, wire[e])
    <3>1. e \in handled
      BY <1>5, <2>4 DEF IInv, Answered
    <3>2. Told(e) = RR!Waiting /\ Told(e)' = RR!AnswerTo(e)
      <4>1. Told(e) = RR!Waiting
        BY <2>1 DEF Told, RR!Waiting
      <4>2. phase'[e] = "settled" /\ outcome'[e] \in {"ok", "remoteError"}
        BY <1>5, <2>4 DEF Ended, Report, IInv, TypeOK
      <4>3. Told(e)' = RR!AnswerTo(e)
        BY <4>2 DEF Told, RR!AnswerTo
      <4>4. QED
        BY <4>1, <4>3
    <3>3. \A d \in Calls \ {e} : Told(d)' = Told(d)
      BY <1>5, <2>4, SameToCaller DEF Ended, Report, IInv, TypeOK
    <3>4. [d \in Calls |-> Told(d)]' = [[d \in Calls |-> Told(d)] EXCEPT ![e] = RR!AnswerTo(e)]
      BY <1>5, <3>2, <3>3
    <3>5. RR!Answer(e)
      BY <1>1, <1>5, <3>1, <3>2, <3>4 DEF RR!Answer
    <3>6. QED
      BY <1>5, <3>5 DEF RR!Next
  <2>5. QED
    BY <2>1, <2>2, <2>3, <2>4 DEF CallEnds
<1>6. QED
  BY <1>2, <1>3, <1>4, <1>5

LEMMA NextRefines == IInv /\ [Next]_vars => [RR!Next]_(RR!vars)
<1>1. SUFFICES ASSUME IInv, [Next]_vars
               PROVE  RR!Next \/ Stutters
  BY AbstractStutter
<1>2. ASSUME NEW c \in Calls, Call(c)
      PROVE  RR!Next
  <2>1. Told(c) = RR!Unused /\ Told(c)' = RR!Waiting
    <3>1. Told(c) = RR!Unused
      BY <1>2 DEF Call, Told, RR!Unused
    <3>2. phase'[c] = "headers"
      BY <1>1, <1>2 DEF Call, Sent, IInv, TypeOK, Exchanges
    <3>3. Told(c)' = RR!Waiting
      BY <3>2 DEF Told, RR!Waiting
    <3>4. QED
      BY <3>1, <3>3
  <2>2. \A d \in Calls \ {c} : Told(d)' = Told(d)
    BY <1>1, <1>2, SameToCaller DEF Call, Sent, IInv, TypeOK
  <2>3. [d \in Calls |-> Told(d)]' = [[d \in Calls |-> Told(d)] EXCEPT ![c] = RR!Waiting]
    BY <2>1, <2>2
  <2>4. RR!Ask(c)
    BY <1>2, <2>1, <2>3 DEF RR!Ask, Call, server
  <2>5. QED
    BY <2>4 DEF RR!Next
<1>3. ASSUME NEW c \in Calls, ExecuteCall(c)
      PROVE  RR!Next
  <2>1. phase[c] # "unused"
    BY <1>1, <1>3, Names DEF ExecuteCall, IInv, Exchanged
  <2>2. Told(c) # RR!Unused
    BY <2>1 DEF Told, RR!Unused
  <2>3. [d \in Calls |-> Told(d)]' = [d \in Calls |-> Told(d)]
    BY <1>3 DEF ExecuteCall, client, Told
  <2>4. RR!Handle(c)
    BY <1>3, <2>2, <2>3 DEF RR!Handle, ExecuteCall
  <2>5. QED
    BY <2>4 DEF RR!Next
<1>4. QED
  BY <1>1, <1>2, <1>3, QuietStep, ClientStepRefines DEF Next

-----------------------------------------------------------------------------
(* The theorems.                                                           *)

(* Every variable of both ends keeps its type.                             *)
THEOREM SessionTypesCorrect == Spec => []TypeOK
<1>1. IInv => TypeOK
  BY DEF IInv
<1>2. QED
  BY <1>1, Invariance, PTL

(* A client that takes itself for ready has a server that is, or none; so  *)
(* no call is ever told that the handshake is not over.                    *)
THEOREM HandshakesAgree == Spec => []BothSidesReady
<1>1. IInv => BothSidesReady
  BY Names DEF IInv, BothSidesReady, Handshake, Served, Answered, Exchanged
<1>2. QED
  BY <1>1, Invariance, PTL

(* A close leaves a session on the server only if the client never got its *)
(* id, because the answer to initialize was late, lost or no answer at     *)
(* all, or if the DELETE failed.                                           *)
THEOREM SessionsAreRemoved == Spec => []CloseRemovesSession
<1>1. IInv => CloseRemovesSession
  BY DEF IInv, CloseRemovesSession, Closing, Exchanged
<1>2. QED
  BY <1>1, Invariance, PTL

(* The two ends of a session agree from its handshake to its end.          *)
THEOREM EndsAlwaysAgree == Spec => []BothEndsAgree
BY HandshakesAgree, SessionsAreRemoved, PTL DEF BothEndsAgree

(* The calls implement RequestResponse: an answer is the answer to a call  *)
(* that was executed, and each call is told one thing.                     *)
THEOREM HttpKeepsCalls == Spec => CallsKept
<1>1. Init => RR!Init
  BY DEF Init, RR!Init, RR!Unused, Told, Exchanges
<1>2. Spec => RR!Init /\ [][RR!Next]_(RR!vars)
  BY <1>1, NextRefines, Invariance, PTL DEF Spec
<1>3. QED
  BY <1>2 DEF CallsKept, RR!Spec
-----------------------------------------------------------------------------
(* What whoever waits is owed: the handshake its answer, and a call with a *)
(* malformed result the close, whoever started it and however it ends.     *)

HandshakeWaits ==
  life = "INITIALIZING" =>
    phase["initialize"] \in {"headers", "body"} \/ phase["initialized"] = "headers"

DropsWait == \A c \in Calls : phase[c] = "dropping" => closePromise = "pending"

Owed == HandshakeWaits /\ DropsWait

LEMMA OwedFollows == IInv /\ Owed => WaitsAreOwed
BY DEF IInv, Closing, Owed, HandshakeWaits, DropsWait, WaitsAreOwed

LEMMA NobodyMovesOwed ==
  ASSUME Owed, UNCHANGED <<life, phase, closePromise>>
  PROVE  Owed'
BY DEF Owed, HandshakeWaits, DropsWait

\* A call moves, but for one that begins to wait for a close.
LEMMA CallMovesOwed ==
  ASSUME IInv, Owed, NEW c \in Calls, NEW st \in Phases \ {"dropping"},
         phase' = [phase EXCEPT ![c] = st], UNCHANGED <<life, closePromise>>
  PROVE  Owed'
BY Names DEF IInv, TypeOK, Owed, HandshakeWaits, DropsWait

LEMMA InitializeFailsOwed ==
  ASSUME IInv, Owed, NEW e \in {"initialize", "initialized"}, NEW how,
         phase[e] \in {"headers", "body"}, InitializeFails(e, how)
  PROVE  Owed'
<1>1. life' = "CLOSED" /\ closePromise = "none"
  BY DEF InitializeFails, IInv, Closing, Handshake, Exchanged
<1>2. \A c \in Calls : phase'[c] = phase[c]
  <2>1. phase' = Ended(e) \/ phase' = [Ended(e) EXCEPT !["delete"] = "headers"]
    BY ClosesOnce DEF InitializeFails
  <2>2. QED
    BY <2>1, Names DEF Ended, IInv, TypeOK
<1>3. \A c \in Calls : phase[c] # "dropping"
  BY <1>1 DEF Owed, DropsWait
<1>4. QED
  BY <1>1, <1>2, <1>3 DEF Owed, HandshakeWaits, DropsWait

LEMMA CloseEndsOwed ==
  ASSUME IInv, Owed, NEW how, CloseEnds(how)
  PROVE  Owed'
<1>1. phase'["initialize"] = phase["initialize"] /\ phase'["initialized"] = phase["initialized"]
  BY Names DEF CloseEnds, IInv, Exchanged
<1>2. \A c \in Calls : phase'[c] # "dropping"
  BY Names DEF CloseEnds
<1>3. QED
  BY <1>1, <1>2 DEF CloseEnds, Owed, HandshakeWaits, DropsWait

LEMMA ExchangeFailsOwed ==
  ASSUME IInv, Owed, NEW e \in Exchanges, NEW how,
         phase[e] \in {"headers", "body"}, ExchangeFails(e, how)
  PROVE  Owed'
<1>1. CASE e \in {"initialize", "initialized"} /\ InitializeFails(e, how)
  BY <1>1, InitializeFailsOwed
<1>2. CASE e = "delete" /\ CloseEnds(how)
  BY <1>2, CloseEndsOwed
<1>3. CASE e \in Calls /\ phase' = Ended(e) /\ UNCHANGED <<life, closePromise>>
  BY <1>3, CallMovesOwed DEF Ended, Phases
<1>4. QED
  BY <1>1, <1>2, <1>3 DEF ExchangeFails

LEMMA HeadersArriveOwed ==
  ASSUME IInv, Owed, NEW e \in Exchanges, HeadersArrive(e)
  PROVE  Owed'
<1>1. phase[e] = "headers"
  BY DEF HeadersArrive
<1>2. CASE ExchangeFails(e, "HTTP_ERROR")
  BY <1>1, <1>2, ExchangeFailsOwed
<1>3. CASE /\ e \notin {"initialized", "delete"}
           /\ phase' = [phase EXCEPT ![e] = "body"] /\ UNCHANGED <<life, closePromise>>
  <2>1. CASE e \in Calls
    BY <1>3, <2>1, CallMovesOwed DEF Phases
  <2>2. CASE e = "initialize"
    BY <1>3, <2>2, Names DEF IInv, TypeOK, Owed, HandshakeWaits, DropsWait
  <2>3. QED
    BY <1>3, <2>1, <2>2, Names
<1>4. CASE e = "initialized" /\ life' = "READY" /\ phase' = Ended(e) /\ UNCHANGED closePromise
  BY <1>4, Names DEF Ended, IInv, TypeOK, Owed, HandshakeWaits, DropsWait
<1>5. CASE CloseEnds("ok")
  BY <1>5, CloseEndsOwed
<1>6. QED
  BY <1>2, <1>3, <1>4, <1>5 DEF HeadersArrive

\* A call that drops its result joins a close that is pending, or starts one,
\* or finds it over and settles at once.
LEMMA DropResultOwed ==
  ASSUME IInv, Owed, NEW c \in Calls, phase[c] = "body", DropResult(c)
  PROVE  Owed'
<1>1. life' = "CLOSED"
  BY DEF DropResult
<1>2. closePromise = "none" => mcpSessionId
  BY DEF IInv, Answered, Handshake, Closing
<1>3. CASE closePromise = "over"
  <2>1. phase' = Ended(c) /\ UNCHANGED closePromise
    BY <1>3, ClosesOnce DEF DropResult
  <2>2. QED
    BY <1>1, <2>1, Names DEF Ended, IInv, TypeOK, Owed, HandshakeWaits, DropsWait
<1>4. CASE closePromise # "over"
  <2>1. closePromise' = "pending"
    BY <1>2, <1>4, ClosesOnce DEF DropResult, IInv, TypeOK
  <2>2. QED
    BY <1>1, <2>1 DEF Owed, HandshakeWaits, DropsWait
<1>5. QED
  BY <1>3, <1>4

LEMMA InitializeEndsOwed ==
  ASSUME IInv, Owed, phase["initialize"] = "body", NEW reply, InitializeEnds(reply)
  PROVE  Owed'
<1>1. \A c \in Calls : phase[c] = "unused"
  BY Names DEF IInv, Handshake
<1>2. CASE InitializeSucceeds
  BY <1>1, <1>2, Names
  DEF InitializeSucceeds, Ended, IInv, TypeOK, Owed, HandshakeWaits, DropsWait
<1>3. CASE InitializeInvalid
  BY <1>1, <1>3, Names
  DEF InitializeInvalid, Ended, IInv, TypeOK, Owed, HandshakeWaits, DropsWait
<1>4. CASE InitializeGarbled
  BY <1>1, <1>4, Names
  DEF InitializeGarbled, Ended, IInv, TypeOK, Owed, HandshakeWaits, DropsWait
<1>5. CASE InitializeFails("initialize", "remoteError")
  BY <1>5, InitializeFailsOwed
<1>6. QED
  BY <1>2, <1>3, <1>4, <1>5 DEF InitializeEnds

LEMMA BodyArrivesOwed ==
  ASSUME IInv, Owed, NEW e \in Exchanges, BodyArrives(e)
  PROVE  Owed'
<1>1. CASE e = "initialize" /\ InitializeEnds(wire[e])
  BY <1>1, InitializeEndsOwed DEF BodyArrives
<1>2. CASE e \in Calls /\ CallEnds(e, wire[e])
  <2>1. CASE DropResult(e)
    BY <1>2, <2>1, DropResultOwed DEF BodyArrives
  <2>2. CASE phase' = Ended(e) /\ UNCHANGED <<life, closePromise>>
    BY <1>2, <2>2, CallMovesOwed DEF Ended, Phases
  <2>3. QED
    BY <1>2, <2>1, <2>2 DEF CallEnds, FailTransport
<1>3. QED
  BY <1>1, <1>2 DEF BodyArrives

LEMMA ClientStartsOwed ==
  ASSUME IInv, Owed, StartSession \/ Close
  PROVE  Owed'
<1>1. CASE StartSession
  BY <1>1, Names
  DEF StartSession, Sent, IInv, TypeOK, Owed, HandshakeWaits, DropsWait
<1>2. CASE Close
  <2>1. life' = "CLOSED" /\ closePromise = "none" /\ mcpSessionId
    BY <1>2 DEF Close, IInv, Closing, Handshake
  <2>2. closePromise' = "pending"
    BY <1>2, <2>1, ClosesOnce DEF Close
  <2>3. QED
    BY <2>1, <2>2 DEF Owed, HandshakeWaits, DropsWait
<1>3. QED
  BY <1>1, <1>2

LEMMA OwedStep == IInv /\ Owed /\ [Next]_vars => Owed'
<1> SUFFICES ASSUME IInv, Owed, [Next]_vars PROVE Owed'
  OBVIOUS
<1>1. CASE UNCHANGED vars
  BY <1>1, NobodyMovesOwed DEF vars, client
<1>2. CASE ReceiveInitialize \/ ReceiveInitialized \/ ReceiveDelete \/ Restart
  BY <1>2, NobodyMovesOwed
  DEF ReceiveInitialize, ReceiveInitialized, ReceiveDelete, Restart, client
<1>3. ASSUME NEW c \in Calls, Call(c) \/ ReceiveCall(c) \/ ExecuteCall(c) \/ AnswerCall(c)
      PROVE  Owed'
  <2>1. CASE Call(c)
    BY <2>1, CallMovesOwed DEF Call, Sent, Phases
  <2>2. CASE ReceiveCall(c) \/ ExecuteCall(c) \/ AnswerCall(c)
    BY <2>2, NobodyMovesOwed DEF ReceiveCall, ExecuteCall, AnswerCall, client
  <2>3. QED
    BY <1>3, <2>1, <2>2
<1>4. ASSUME NEW e \in Exchanges, FetchFails(e) \/ BodyFails(e)
      PROVE  Owed'
  BY <1>4, ExchangeFailsOwed DEF FetchFails, BodyFails
<1>5. ASSUME NEW e \in Exchanges, Corrupt(e)
      PROVE  Owed'
  BY <1>5, NobodyMovesOwed DEF Corrupt, client
<1>6. CASE Next
  BY <1>2, <1>3, <1>4, <1>5, <1>6, ClientStartsOwed, HeadersArriveOwed, BodyArrivesOwed DEF Next
<1>7. QED
  BY <1>1, <1>6

(* Nobody waits for nothing, for any set of calls and any malformed        *)
(* answers: the handshake and the close wait for an exchange of their own, *)
(* and a call with a malformed result for a close that is not over.        *)
THEOREM NobodyWaitsForNothing == Spec => []WaitsAreOwed
<1>1. Init => Owed
  BY Names DEF Init, Owed, HandshakeWaits, DropsWait
<1>2. QED
  BY <1>1, OwedStep, OwedFollows, Invariance, PTL DEF Spec
=============================================================================
