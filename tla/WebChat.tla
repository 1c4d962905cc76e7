------------------------------ MODULE WebChat -------------------------------
(***************************************************************************)
(* The browser's chat, the network, and the chat API over the Host's       *)
(* runtime (WebRuntime).  A turn and a confirmed write are what the session*)
(* service makes of them (ChatSession); here they end in any way it        *)
(* allows.  What is at stake is what the card on the screen says of the    *)
(* operation, when answers are lost and requests overtake each other.      *)
(*                                                                         *)
(* One browser tab: a session id never leaves the tab it was given to.     *)
(***************************************************************************)
EXTENDS WebRuntime

CONSTANTS
  MaxRequests,  \* posts of the tab
  Proposals,    \* writes the model proposes
  NoProposal,
  MaxSessions   \* sessions the API creates

ASSUME NoProposalAssumption == NoProposal \notin Proposals
ASSUME MaxRequestsAssumption == MaxRequests \in Nat
ASSUME MaxSessionsAssumption == MaxSessions \in Nat

Requests == 1 .. MaxRequests
Sessions == 1 .. MaxSessions

VARIABLES
  sessionId,  \* the tab's session, 0 for none
  inFlight,   \* the request it waits for, 0 for none
  posted,     \* requests it has sent so far
  card,       \* [Proposals -> CardStates]: the card that shows an operation
  req,        \* [Requests -> RequestRecords]
  home,       \* [Sessions -> 0 .. MaxStarts]: the runtime whose store has a session
  pending,    \* [Sessions -> Proposals \cup {NoProposal}]: its pending operation
  busy,       \* sessions with a message in progress
  op,         \* [Proposals -> OpRecords]: what became of an operation, and by what
  clicked,    \* history: operations whose card the user told to confirm
  stray       \* history: kinds of requests that took effect after the tab gave them up

browser == <<sessionId, inFlight, posted, card, clicked>>
sessions == <<home, pending, busy>>
vars == <<runtimeVars, browser, req, sessions, op, stray>>

Active == {"pending", "confirming", "cancelling"}
CardStates == {"none", "confirmed", "rejected", "unknown", "cancelled", "error"} \cup Active

\* What the API understands: a decision, or a message as the confirmation
\* policy classifies it.
Decisions == {"confirm", "cancel"}
Messages == {"yes", "no", "other"}

Outcomes == {"succeeded", "rejected", "unknown"}
Errors == {"SESSION_NOT_FOUND", "CONFIRMATION_NOT_FOUND", "OTHER_ERROR"}
Answers == {"none", "completed", "required", "cancelled"} \cup Outcomes \cup Errors

RequestRecords ==
  [says : {"none"} \cup Decisions \cup Messages,
   about : Proposals \cup {NoProposal},   \* a decision's card, or what is answered
   sid : 0 .. MaxSessions,
   via : 0 .. MaxStarts,                  \* the start its getHost() returned
   at : {"none", "network", "runtime", "turn", "write", "answered"},
   answer : Answers]

OpRecords ==
  [st : {"unused", "pending", "running", "cancelled"} \cup Outcomes, by : {"none", "click", "text"}]

NoRequest == [says |-> "none", about |-> NoProposal, sid |-> 0, via |-> 0,
              at |-> "none", answer |-> "none"]

Init ==
  /\ RuntimeInit
  /\ sessionId = 0
  /\ inFlight = 0
  /\ posted = 0
  /\ card = [p \in Proposals |-> "none"]
  /\ req = [i \in Requests |-> NoRequest]
  /\ home = [s \in Sessions |-> 0]
  /\ pending = [s \in Sessions |-> NoProposal]
  /\ busy = {}
  /\ op = [p \in Proposals |-> [st |-> "unused", by |-> "none"]]
  /\ clicked = {}
  /\ stray = {}

-----------------------------------------------------------------------------
(* The browser sends.                                                      *)

\* Broken variant: a card blocks the composer only while it is being decided.
BlockedWhileDeciding == \E p \in Proposals : card[p] \in {"confirming", "cancelling"}

ComposerBlocked == \E p \in Proposals : card[p] \in Active

Post(says, p) ==
  /\ inFlight = 0
  /\ posted < MaxRequests
  /\ posted' = posted + 1
  /\ inFlight' = posted + 1
  /\ req' = [req EXCEPT ![posted + 1] =
               [NoRequest EXCEPT !.says = says, !.about = p,
                                 !.sid = sessionId, !.at = "network"]]
  /\ UNCHANGED <<runtimeVars, sessionId, sessions, op, stray>>

Submit(text) ==
  /\ ~ComposerBlocked
  /\ Post(text, NoProposal)
  /\ UNCHANGED <<card, clicked>>

Decide(p, decision) ==
  /\ sessionId # 0
  /\ card[p] = "pending"
  /\ Post(decision, p)
  /\ card' = [card EXCEPT ![p] = IF decision = "confirm" THEN "confirming" ELSE "cancelling"]
  /\ clicked' = IF decision = "confirm" THEN clicked \cup {p} ELSE clicked

-----------------------------------------------------------------------------
(* The API: the runtime first, then the session, then its service.         *)

AskRuntime(i) ==
  /\ req[i].at = "network"
  /\ \E p \in Starts : GetHost(p) /\ req' = [req EXCEPT ![i].at = "runtime", ![i].via = p]
  /\ UNCHANGED <<browser, sessions, op, stray>>

\* The request is answered with a, about p and session s, if anybody waits.
Answer(i, a, p, s) ==
  req' = [req EXCEPT ![i] =
            IF inFlight # i THEN NoRequest
            ELSE [@ EXCEPT !.at = "answered", !.answer = a, !.sid = s,
                           !.about = IF p = NoProposal THEN req[i].about ELSE p]]

RuntimeUnavailable(i) ==
  /\ req[i].at = "runtime"
  /\ start[req[i].via].phase = "failed"
  /\ Answer(i, "OTHER_ERROR", NoProposal, req[i].sid)
  /\ UNCHANGED <<runtimeVars, browser, sessions, op, stray>>

\* The handler resumes with its runtime, and runs up to the next await.
TakesUp(i) ==
  /\ req[i].at = "runtime"
  /\ start[req[i].via].phase = "up"
  /\ stray' = stray \cup (IF inFlight # i /\ req[i].says \in Decisions THEN {"decision"} ELSE {})
  /\ UNCHANGED <<runtimeVars, browser>>

Known(i) == req[i].sid # 0 /\ home[req[i].sid] = req[i].via
Pending(i) == pending[req[i].sid]

SessionNotFound(i) ==
  /\ TakesUp(i)
  /\ req[i].sid # 0 /\ ~Known(i)
  /\ Answer(i, "SESSION_NOT_FOUND", NoProposal, req[i].sid)
  /\ UNCHANGED <<sessions, op>>

NothingToDecide(i) ==
  /\ TakesUp(i)
  /\ Known(i) /\ req[i].says \in Decisions
  /\ Pending(i) = NoProposal
  /\ Answer(i, "CONFIRMATION_NOT_FOUND", NoProposal, req[i].sid)
  /\ UNCHANGED <<sessions, op>>

Busy(i) ==
  /\ TakesUp(i)
  /\ Known(i) /\ req[i].says \in Messages
  /\ req[i].sid \in busy
  /\ Answer(i, "OTHER_ERROR", NoProposal, req[i].sid)
  /\ UNCHANGED <<sessions, op>>

\* Broken variant: the operation stays pending while it is executed.
ConfirmKeepsPending(i) ==
  /\ TakesUp(i)
  /\ Known(i) /\ Pending(i) # NoProposal
  /\ req[i].says \in {"confirm", "yes"}
  /\ busy' = busy \cup {req[i].sid}
  /\ op' = [op EXCEPT ![Pending(i)] =
              [st |-> "running", by |-> IF req[i].says = "yes" THEN "text" ELSE "click"]]
  /\ req' = [req EXCEPT ![i].at = "write", ![i].about = Pending(i)]
  /\ UNCHANGED <<home, pending>>

\* The stored operation is executed, whatever the client meant.
Confirm(i) ==
  /\ TakesUp(i)
  /\ Known(i) /\ Pending(i) # NoProposal
  /\ req[i].says \in {"confirm", "yes"}
  /\ pending' = [pending EXCEPT ![req[i].sid] = NoProposal]
  /\ busy' = busy \cup {req[i].sid}
  /\ op' = [op EXCEPT ![Pending(i)] =
              [st |-> "running", by |-> IF req[i].says = "yes" THEN "text" ELSE "click"]]
  /\ req' = [req EXCEPT ![i].at = "write", ![i].about = Pending(i)]
  /\ UNCHANGED home

\* Broken variant: the operation is told to be cancelled and stays pending.
CancelKeepsPending(i) ==
  /\ TakesUp(i)
  /\ Known(i) /\ Pending(i) # NoProposal
  /\ req[i].says \in {"cancel", "no"}
  /\ Answer(i, "cancelled", Pending(i), req[i].sid)
  /\ UNCHANGED <<sessions, op>>

Cancel(i) ==
  /\ TakesUp(i)
  /\ Known(i) /\ Pending(i) # NoProposal
  /\ req[i].says \in {"cancel", "no"}
  /\ pending' = [pending EXCEPT ![req[i].sid] = NoProposal]
  /\ op' = [op EXCEPT ![Pending(i)].st = "cancelled"]
  /\ Answer(i, "cancelled", Pending(i), req[i].sid)
  /\ UNCHANGED <<home, busy>>

Remind(i) ==
  /\ TakesUp(i)
  /\ Known(i) /\ Pending(i) # NoProposal
  /\ req[i].says = "other"
  /\ Answer(i, "required", Pending(i), req[i].sid)
  /\ UNCHANGED <<sessions, op>>

\* A message without a session gets a new one.
BeginTurn(i) ==
  /\ TakesUp(i)
  /\ req[i].says \in Messages
  /\ \E s \in Sessions :
       /\ \/ req[i].sid = 0 /\ home[s] = 0 /\ \A t \in 1 .. s - 1 : home[t] # 0
          \/ req[i].sid = s /\ Known(i) /\ Pending(i) = NoProposal /\ s \notin busy
       /\ home' = [home EXCEPT ![s] = req[i].via]
       /\ busy' = busy \cup {s}
       /\ req' = [req EXCEPT ![i].at = "turn", ![i].sid = s]
  /\ UNCHANGED <<pending, op>>

\* The turn is answered, refused, or proposes a write.
EndTurn(i) ==
  /\ req[i].at = "turn"
  /\ busy' = busy \ {req[i].sid}
  /\ \/ \E a \in {"completed", "OTHER_ERROR"} :
          Answer(i, a, NoProposal, req[i].sid) /\ UNCHANGED <<pending, op, stray>>
     \/ \E p \in Proposals :
          /\ op[p].st = "unused"
          /\ op' = [op EXCEPT ![p].st = "pending"]
          /\ pending' = [pending EXCEPT ![req[i].sid] = p]
          /\ Answer(i, "required", p, req[i].sid)
          /\ stray' = stray \cup (IF inFlight # i THEN {"proposal"} ELSE {})
  /\ UNCHANGED <<runtimeVars, browser, home>>

\* The write's outcome, or an error after it: the explanation was invalid.
EndWrite(i) ==
  /\ req[i].at = "write"
  /\ busy' = busy \ {req[i].sid}
  /\ \E o \in Outcomes :
       /\ op' = [op EXCEPT ![req[i].about].st = o]
       /\ \E a \in {o, "OTHER_ERROR"} : Answer(i, a, req[i].about, req[i].sid)
  /\ UNCHANGED <<runtimeVars, browser, home, pending, stray>>

-----------------------------------------------------------------------------
(* The browser receives; the answer of a request it gave up is dropped.    *)

\* A request that is answered is over.
Done(i) ==
  /\ inFlight' = 0
  /\ req' = [req EXCEPT ![i] = IF req[i].at = "answered" THEN NoRequest ELSE @]
  /\ UNCHANGED <<runtimeVars, posted, clicked, sessions, op, stray>>

\* parseResponse and what submit and decide do before they look at the status.
TakeSession(i) ==
  sessionId' = IF req[i].answer = "SESSION_NOT_FOUND" THEN 0
               ELSE IF req[i].answer \in Errors THEN sessionId ELSE req[i].sid

ShowTurn(i) ==
  /\ inFlight = i
  /\ req[i].at = "answered" /\ req[i].says \in Messages
  /\ TakeSession(i)
  /\ card' = IF req[i].answer = "required"
             THEN [card EXCEPT ![req[i].about] = "pending"] ELSE card
  /\ Done(i)

CardOf(answer) ==
  CASE answer = "succeeded" -> "confirmed"
    [] answer \in {"rejected", "unknown", "cancelled"} -> answer
    [] answer \in {"SESSION_NOT_FOUND", "CONFIRMATION_NOT_FOUND"} -> "error"
    [] OTHER -> "pending"

\* The card whose button was pressed is the one in confirming or cancelling.
Deciding == {p \in Proposals : card[p] \in {"confirming", "cancelling"}}

ShowDecision(i) ==
  /\ inFlight = i
  /\ req[i].at = "answered" /\ req[i].says \in Decisions
  /\ TakeSession(i)
  /\ card' = [p \in Proposals |-> IF p \in Deciding THEN CardOf(req[i].answer) ELSE card[p]]
  /\ Done(i)

\* Broken variant: a decision that gets no answer leaves its card deciding.
FetchFailsSilently(i) ==
  /\ inFlight = i
  /\ UNCHANGED <<sessionId, card>>
  /\ Done(i)

\* The fetch fails: the tab cannot tell how far the request came.
FetchFails(i) ==
  /\ inFlight = i
  /\ card' = [p \in Proposals |-> IF p \in Deciding THEN "pending" ELSE card[p]]
  /\ UNCHANGED sessionId
  /\ Done(i)

-----------------------------------------------------------------------------
ApiStep(i) ==
  \/ AskRuntime(i) \/ RuntimeUnavailable(i)
  \/ SessionNotFound(i) \/ NothingToDecide(i) \/ Busy(i)
  \/ Confirm(i) \/ Cancel(i) \/ Remind(i) \/ BeginTurn(i)
  \/ EndTurn(i) \/ EndWrite(i)

Next ==
  \/ RuntimeNext /\ UNCHANGED <<browser, req, sessions, op, stray>>
  \/ \E text \in Messages : Submit(text)
  \/ \E p \in Proposals, d \in Decisions : Decide(p, d)
  \/ \E i \in Requests : ApiStep(i) \/ ShowTurn(i) \/ ShowDecision(i) \/ FetchFails(i)

Spec == Init /\ [][Next]_vars

-----------------------------------------------------------------------------
(* Properties.                                                             *)

TypeOK ==
  /\ RuntimeTypes
  /\ sessionId \in 0 .. MaxSessions
  /\ inFlight \in 0 .. posted
  /\ posted \in 0 .. MaxRequests
  /\ card \in [Proposals -> CardStates]
  /\ req \in [Requests -> RequestRecords]
  /\ home \in [Sessions -> 0 .. MaxStarts]
  /\ pending \in [Sessions -> Proposals \cup {NoProposal}]
  /\ busy \subseteq Sessions
  /\ op \in [Proposals -> OpRecords]
  /\ clicked \subseteq Proposals
  /\ stray \subseteq {"decision", "proposal"}

\* The buttons of a card that can be pressed always work, so that the composer
\* it blocks can be freed: the tab knows the session, and a card that is being
\* decided waits for its decision.
PendingCardCanBeDecided ==
  \A p \in Proposals :
    /\ card[p] \in Active => sessionId # 0
    /\ card[p] \in {"confirming", "cancelling"} => inFlight # 0 /\ req[inFlight].says \in Decisions

\* A card that says what became of its operation is right: executed once, not
\* executed, or started with an outcome the Host does not know; and nothing
\* typed or pressed later starts an operation whose card is not pending.  The
\* answer to a decision does not say which operation it is about, so a write
\* proposed in answer to a message the tab has given up may be told as that of
\* an older card.
CardsTellTheOutcome ==
  "proposal" \notin stray =>
    \A p \in Proposals :
      /\ card[p] = "confirmed" => op[p].st = "succeeded"
      /\ card[p] \in {"rejected", "unknown", "cancelled"} => op[p].st = card[p]
      /\ card[p] = "error" => \A s \in Sessions : pending[s] = p => s # sessionId

\* Cards can be relied upon, whatever answer is lost: those that are decided and
\* those that can still be.
CardsAreRight == PendingCardCanBeDecided /\ CardsTellTheOutcome

\* Every execution that a decision started is of the operation whose card the
\* user told to confirm, provided that no decision, and no message that is
\* answered with a proposal, takes effect after its tab has given it up.
ClickRunsItsCard ==
  stray = {} => \A p \in Proposals : op[p].by = "click" => p \in clicked

\* An operation is started at most once, whatever is pressed, typed, repeated
\* or delayed, and never after it was cancelled.
StartedAtMostOnce ==
  [][\A p \in Proposals : op'[p].st = "running" => op[p].st \in {"pending", "running"}]_vars
=============================================================================
