-------------------------- MODULE StdioTransport ---------------------------
(***************************************************************************)
(* StdioJsonRpcClient: the Host's JSON-RPC client of one MCP server, which *)
(* it runs as a child process and talks to over the child's stdin and      *)
(* stdout.  Several requests may be in flight.  The Host is single         *)
(* threaded, so a method or an event handler is one action; between two of *)
(* them the child, its pipes and the operating system move on their own:   *)
(* an answer may arrive after the client was closed, a process is dead     *)
(* before the Host sees 'exit', and the output it left in the pipe is read *)
(* after that and before 'close'.                                          *)
(*                                                                         *)
(* Callers await start() before anything else (finance-mcp-local.ts:44-60, *)
(* and its Git and Filesystem twins), so no other call overlaps it.        *)
(***************************************************************************)
EXTENDS Naturals, Sequences

CONSTANTS
  MaxRequests,  \* requests the client will send (bounds its id generator)
  MaxJunk       \* lines on stdout that answer no pending request

ASSUME MaxRequestsAssumption == MaxRequests \in Nat
ASSUME MaxJunkAssumption == MaxJunk \in Nat

Ids == 1 .. MaxRequests

VARIABLES
  state,     \* the client's state
  nextId,    \* its id generator
  pending,   \* the ids with an entry in its pending map
  outcome,   \* [Ids -> Outcomes]: what each request's promise has come to
  log,       \* [Ids -> Seq(Statuses)]: the log entries of each request
  stopping,  \* close()'s stopChild: none, in its grace second, past it, over
  killed,    \* child.killed: a SIGTERM was sent
  child,     \* the process: "dead" before 'exit' is emitted, then "exited",
             \* then "closed" when 'close' is
  endedBy,   \* how it died: an exit code or a signal
  stdin,     \* requests written and not read by the child
  taken,     \* requests the child has read and not answered
  handled,   \* requests the child has handled: the effect is done
  stdout,    \* lines the child has written and the Host has not read
  junk       \* how many of them answered no request

client == <<state, nextId, pending, outcome, log, stopping>>
server == <<taken, handled, junk>>
vars == <<state, nextId, pending, outcome, log, stopping, killed,
          child, endedBy, stdin, taken, handled, stdout, junk>>

States == {"idle", "running", "closing", "closed", "failed"}
ErrorCodes == {"PROCESS_ERROR", "PROCESS_EXIT", "PROTOCOL_ERROR", "WRITE_ERROR", "CLOSED"}
Answers == {"result", "error"}
Statuses == {"SENT", "SUCCEEDED", "REMOTE_ERROR", "PROTOCOL_ERROR", "TRANSPORT_ERROR"}

\* A line of stdout: an answer to request id, or no answer to any (id = 0).
LineOf(id, kind) == [id |-> id, kind |-> kind]
Junk == LineOf(0, "junk")
Lines == [id : Ids, kind : Answers] \cup {Junk}

\* "of" is the request the server answered with what the caller is given.
Outcome(st, of) == [st |-> st, of |-> of]
Outcomes ==
  [st : {"unused", "waiting"} \cup ErrorCodes, of : {0}] \cup [st : Answers, of : Ids]

Running == {"alive", "dead"}    \* for all the Host has seen

\* child.exitCode !== null: Node sets it with 'exit', and never for a signal.
ExitCodeSet == child \in {"exited", "closed"} /\ endedBy = "code"

Init ==
  /\ state = "idle"
  /\ nextId = 1
  /\ pending = {}
  /\ outcome = [r \in Ids |-> Outcome("unused", 0)]
  /\ log = [r \in Ids |-> <<>>]
  /\ stopping = "none"
  /\ killed = FALSE
  /\ child = "none"
  /\ endedBy = "none"
  /\ stdin = <<>>
  /\ taken = {}
  /\ handled = {}
  /\ stdout = <<>>
  /\ junk = 0

-----------------------------------------------------------------------------
(* Rejections, and the failure of the whole transport.                     *)

LoggedAs(code) == IF code = "PROTOCOL_ERROR" THEN code ELSE "TRANSPORT_ERROR"

Reject(R, code) ==
  /\ pending' = pending \ R
  /\ outcome' = [r \in Ids |-> IF r \in R THEN Outcome(code, 0) ELSE outcome[r]]
  /\ log' = [r \in Ids |-> IF r \in R THEN Append(log[r], LoggedAs(code)) ELSE log[r]]

\* Broken variant: the map is cleared and nobody is told.
ClearPending(code) == pending' = {} /\ UNCHANGED <<outcome, log>>

RejectPending(code) == Reject(pending, code)

\* kill() succeeds until the Host has seen the process exit.
KillChild == killed' = (killed \/ child \in Running)

\* Broken variant: the server of a failed transport is left running.
FailWithoutKill(code, kill) ==
  \/ /\ state \in {"closed", "failed"}
     /\ UNCHANGED <<state, pending, outcome, log, killed>>
  \/ /\ state \notin {"closed", "failed"}
     /\ state' = "failed"
     /\ RejectPending(code)
     /\ UNCHANGED killed

\* With kill: only while the process may still be there.
FailTransport(code, kill) ==
  \/ /\ state \in {"closed", "failed"}
     /\ UNCHANGED <<state, pending, outcome, log, killed>>
  \/ /\ state \notin {"closed", "failed"}
     /\ state' = "failed"
     /\ RejectPending(code)
     /\ IF kill /\ ~ExitCodeSet THEN KillChild ELSE UNCHANGED killed

-----------------------------------------------------------------------------
(* start()                                                                 *)

Start ==
  /\ state = "idle"
  /\ child = "none"
  /\ child' = "starting"
  /\ UNCHANGED <<client, killed, endedBy, stdin, server, stdout>>

Spawned ==
  /\ child = "starting"
  /\ child' = "alive"
  /\ state' = "running"
  /\ UNCHANGED <<nextId, pending, outcome, log, stopping, killed, endedBy,
                 stdin, server, stdout>>

\* 'error' instead of 'spawn': Node gives the child a (negative) exit code.
SpawnFails ==
  /\ child = "starting"
  /\ child' = "closed"
  /\ endedBy' = "code"
  /\ FailTransport("PROCESS_ERROR", FALSE)
  /\ UNCHANGED <<nextId, stopping, stdin, server, stdout>>

-----------------------------------------------------------------------------
(* request(): refused without a trace unless the client is running.        *)

Request ==
  /\ state = "running"
  /\ nextId <= MaxRequests
  /\ nextId' = nextId + 1
  /\ pending' = pending \cup {nextId}
  /\ outcome' = [outcome EXCEPT ![nextId] = Outcome("waiting", 0)]
  /\ log' = [log EXCEPT ![nextId] = Append(@, "SENT")]
  /\ stdin' = Append(stdin, nextId)
  /\ UNCHANGED <<state, stopping, killed, child, endedBy, server, stdout>>

\* Broken variant: rejects a request that has settled in the meantime.
RejectWhateverSettled ==
  /\ stdin # <<>>
  /\ child \in {"dead", "exited", "closed"}
  /\ stdin' = Tail(stdin)
  /\ Reject({Head(stdin)}, "WRITE_ERROR")
  /\ UNCHANGED <<state, nextId, stopping, killed, child, endedBy, server, stdout>>

\* The write's callback, once the reader is gone.
WriteFails ==
  /\ stdin # <<>>
  /\ child \in {"dead", "exited", "closed"}
  /\ stdin' = Tail(stdin)
  /\ Reject({Head(stdin)} \cap pending, "WRITE_ERROR")
  /\ UNCHANGED <<state, nextId, stopping, killed, child, endedBy, server, stdout>>

\* Broken variant: answers are taken in the order of the requests.
Oldest == {r \in pending : \A q \in pending : r <= q}
CorrelateInOrder(id) == IF id = 0 THEN {} ELSE Oldest
\* The entry whose promise an answer with this id settles.
Correlate(id) == {id} \cap pending

AnswerStatus(kind) == IF kind = "result" THEN "SUCCEEDED" ELSE "REMOTE_ERROR"

Resolve(line, R) ==
  /\ pending' = pending \ R
  /\ outcome' = [r \in Ids |->
                   IF r \in R THEN Outcome(line.kind, line.id) ELSE outcome[r]]
  /\ log' = [r \in Ids |->
               IF r \in R THEN Append(log[r], AnswerStatus(line.kind)) ELSE log[r]]
  /\ UNCHANGED <<state, killed>>

\* handleStdoutLine: whatever the state, and also after 'exit'.
HandleStdoutLine ==
  /\ stdout # <<>>
  /\ stdout' = Tail(stdout)
  /\ LET R == Correlate(Head(stdout).id)
     IN \/ R # {} /\ Resolve(Head(stdout), R)
        \/ R = {} /\ FailTransport("PROTOCOL_ERROR", TRUE)
  /\ UNCHANGED <<nextId, stopping, child, endedBy, stdin, server>>

-----------------------------------------------------------------------------
(* The end of the process, as the Host sees it.                            *)

\* Broken variant: 'exit' fails nothing.
ExitUnnoticed ==
  /\ child = "dead"
  /\ child' = "exited"
  /\ UNCHANGED <<client, killed, endedBy, stdin, server, stdout>>

ExitEvent ==
  /\ child = "dead"
  /\ child' = "exited"
  /\ \/ /\ state \in {"closing", "closed"}
        /\ UNCHANGED <<state, pending, outcome, log, killed>>
     \/ /\ state \notin {"closing", "closed"}
        /\ FailTransport("PROCESS_EXIT", FALSE)
  /\ UNCHANGED <<nextId, stopping, endedBy, stdin, server, stdout>>

\* 'close' follows once stdout is drained; a stopChild that waits for it ends.
CloseEvent ==
  /\ child = "exited"
  /\ stdout = <<>>
  /\ child' = "closed"
  /\ state' = IF state = "closing" \/ stopping # "none" THEN "closed" ELSE state
  /\ stopping' = IF stopping # "none" THEN "over" ELSE stopping
  /\ UNCHANGED <<nextId, pending, outcome, log, killed, endedBy, stdin, server, stdout>>

-----------------------------------------------------------------------------
(* close(): a second call returns at once or joins the first.              *)

CloseBeforeStart ==
  /\ state = "idle"
  /\ child = "none"
  /\ state' = "closed"
  /\ UNCHANGED <<nextId, pending, outcome, log, stopping, killed, child, endedBy,
                 stdin, server, stdout>>

\* Registers for 'close', ends stdin, and gives the child a second.
StopChild ==
  /\ stopping' = "grace"
  /\ UNCHANGED <<child, killed>>

Close ==
  /\ state \in {"running", "failed"}
  /\ stopping = "none"
  /\ RejectPending("CLOSED")
  /\ \/ /\ ExitCodeSet
        /\ state' = "closed"
        /\ UNCHANGED <<child, killed, stopping>>
     \/ /\ ~ExitCodeSet
        /\ state' = "closing"
        /\ StopChild
  /\ UNCHANGED <<nextId, endedBy, stdin, server, stdout>>

\* Broken variants: the child is killed and not awaited, or not killed.
GraceEndsClosed ==
  /\ stopping = "grace"
  /\ stopping' = "over"
  /\ state' = "closed"
  /\ IF ~ExitCodeSet /\ ~killed THEN KillChild ELSE UNCHANGED killed
  /\ UNCHANGED <<nextId, pending, outcome, log, child, endedBy, stdin, server, stdout>>

GraceEndsWaiting ==
  /\ stopping = "grace"
  /\ stopping' = "awaiting"
  /\ UNCHANGED <<state, nextId, pending, outcome, log, killed, child, endedBy, stdin,
                 server, stdout>>

GraceEnds ==
  /\ stopping = "grace"
  /\ stopping' = "awaiting"
  /\ IF ~ExitCodeSet /\ ~killed THEN KillChild ELSE UNCHANGED killed
  /\ UNCHANGED <<state, nextId, pending, outcome, log, child, endedBy, stdin,
                 server, stdout>>

-----------------------------------------------------------------------------
(* The child: any MCP server, of which Finance handles one line at a time. *)

TakeLine ==
  /\ child = "alive"
  /\ stdin # <<>>
  /\ stdin' = Tail(stdin)
  /\ taken' = taken \cup {Head(stdin)}
  /\ UNCHANGED <<client, killed, child, endedBy, handled, stdout, junk>>

HandleRequest(r) ==
  /\ child = "alive"
  /\ r \in taken \ handled
  /\ handled' = handled \cup {r}
  /\ UNCHANGED <<client, killed, child, endedBy, stdin, taken, stdout, junk>>

WriteAnswer(r) ==
  /\ child = "alive"
  /\ r \in taken \cap handled
  /\ taken' = taken \ {r}
  /\ \E kind \in Answers : stdout' = Append(stdout, LineOf(r, kind))
  /\ UNCHANGED <<client, killed, child, endedBy, stdin, handled, junk>>

\* Not JSON-RPC, an id the client never sent, or no id.
WriteJunk ==
  /\ child = "alive"
  /\ junk < MaxJunk
  /\ junk' = junk + 1
  /\ stdout' = Append(stdout, Junk)
  /\ UNCHANGED <<client, killed, child, endedBy, stdin, taken, handled>>

Dies ==
  /\ child = "alive"
  /\ child' = "dead"
  /\ endedBy' \in {"code", "signal"}
  /\ UNCHANGED <<client, killed, stdin, server, stdout>>

-----------------------------------------------------------------------------
Next ==
  \/ Start \/ Spawned \/ SpawnFails
  \/ Request \/ WriteFails \/ HandleStdoutLine
  \/ ExitEvent \/ CloseEvent
  \/ CloseBeforeStart \/ Close \/ GraceEnds
  \/ TakeLine \/ WriteJunk \/ Dies
  \/ \E r \in Ids : HandleRequest(r) \/ WriteAnswer(r)

Spec == Init /\ [][Next]_vars

(* The event loop delivers every event and timer, SIGTERM ends the child,  *)
(* and a child that lives reads, handles and answers what it is sent       *)
(* (stdio-server.ts:85-98 answers on every path).  Nothing makes a child   *)
(* exit by itself, and no caller has to call.                              *)
FairSpec ==
  /\ Spec
  /\ WF_vars(HandleStdoutLine)
  /\ WF_vars(ExitEvent)
  /\ WF_vars(CloseEvent)
  /\ WF_vars(GraceEnds)
  /\ WF_vars(killed /\ Dies)
  /\ WF_vars(TakeLine)
  /\ \A r \in Ids : WF_vars(HandleRequest(r)) /\ WF_vars(WriteAnswer(r))

-----------------------------------------------------------------------------
(* Properties.                                                             *)

TypeOK ==
  /\ state \in States
  /\ nextId \in 1 .. MaxRequests + 1
  /\ pending \subseteq Ids
  /\ outcome \in [Ids -> Outcomes]
  /\ log \in [Ids -> Seq(Statuses)]
  /\ stopping \in {"none", "grace", "awaiting", "over"}
  /\ killed \in BOOLEAN
  /\ child \in {"none", "starting", "exited", "closed"} \cup Running
  /\ endedBy \in {"none", "code", "signal"}
  /\ stdin \in Seq(Ids)
  /\ taken \subseteq Ids
  /\ handled \subseteq Ids
  /\ stdout \in Seq(Lines)
  /\ junk \in 0 .. MaxJunk

\* No request is left waiting by a client that can no longer hear its answer:
\* the promises that wait are those of the pending map, and it is empty unless
\* the client runs (every way out of "running" rejects what is pending).
NoStrandedRequest ==
  /\ \A r \in Ids : outcome[r].st = "waiting" <=> r \in pending
  /\ state # "running" => pending = {}

\* A client that says it is closed has left no server process behind: the
\* child's exit has been seen by the Host, or it was never started.
NoOrphanChild ==
  state = "closed" => child \in {"none", "exited", "closed"}

\* The log of a request is SENT, then exactly one entry that agrees with what
\* its caller was told, however the answer, the write's failure, the exit and
\* the close raced.
LogAgrees ==
  \A r \in Ids :
    LET o == outcome[r].st
    IN log[r] = CASE o = "unused" -> <<>>
                  [] o = "waiting" -> <<"SENT">>
                  [] o \in Answers -> <<"SENT", AnswerStatus(o)>>
                  [] OTHER -> <<"SENT", LoggedAs(o)>>

\* The promise of request-response: a request settles once, with the server's
\* answer to itself or with a failure (stdio-transport.test.ts:287).
Reply(r) ==
  LET o == outcome[r]
  IN CASE o.st \in {"unused", "waiting"} -> o
       [] o.st \in Answers -> [st |-> "answered", of |-> o.of]
       [] OTHER -> [st |-> "failed", of |-> 0]

RR == INSTANCE RequestResponse WITH Requests <- Ids, reply <- [r \in Ids |-> Reply(r)]
RequestsKept == RR!Spec

\* Nobody waits for nothing.  No caller waits unnoticed; a pending request is on
\* its way, in stdin, with the server or as an unread answer, or the Host is
\* about to see the process exit; and a server that a failed transport or a close() past its grace second
\* still waits for was sent a SIGTERM (stdio-jsonrpc-client.ts:394, 458).
OnItsWay(r) ==
  \/ r \in taken
  \/ \E i \in DOMAIN stdin : stdin[i] = r
  \/ \E i \in DOMAIN stdout : stdout[i].id = r

WaitsAreOwed ==
  /\ NoStrandedRequest
  /\ \A r \in pending : child = "dead" \/ (child = "alive" /\ OnItsWay(r))
  /\ state = "failed" \/ stopping = "awaiting" =>
       child # "starting" /\ (child = "alive" => killed)

\* Every accepted request settles: answered, or failed with its server or client.
RequestsSettle == \A r \in Ids : outcome[r].st = "waiting" ~> outcome[r].st # "waiting"

\* A transport that failed does not keep its server running.
FailedChildDies == state = "failed" ~> child \notin {"starting", "alive"}

\* A close() that was waiting before the child's 'close' event returns.
Waits == stopping \in {"grace", "awaiting"}
CloseReturns == Waits /\ child # "closed" ~> ~Waits

\* Nobody waits for ever and no failed server lives on, whichever of an answer,
\* a stray line, the server's death and close() comes first; but for a close()
\* that starts after the child's 'close' event (CloseAlwaysReturns).
AwaitsEnd == RequestsSettle /\ FailedChildDies /\ CloseReturns

\* close() always returns: stdio-transport.test.ts:88-90 closes, after each
\* test, clients that failed on a protocol error as well.
CloseAlwaysReturns == Waits ~> ~Waits
=============================================================================
