---------------------------- MODULE ChatSession ----------------------------
(***************************************************************************)
(* The Host's conversation core: the in-memory session store, the session  *)
(* chat service with its busy set and confirmation branch, and the chat    *)
(* orchestrator with its bounded tool rounds, as one state machine.        *)
(*                                                                         *)
(* A request is one call of SessionChatService.sendMessage.  Node runs a   *)
(* handler without interruption up to its next await, so every action is   *)
(* the code between two awaits; req[r].pc says which await request r is    *)
(* in.  DeepSeek and the MCP servers are the environment: a model call may *)
(* answer anything or fail, and a tools/call may be executed, refused or   *)
(* lost, also after the Host stopped waiting for it.                       *)
(***************************************************************************)
EXTENDS Integers, Sequences, FiniteSets, SequencesExt

CONSTANTS
  Sessions,       \* session ids; crypto.randomUUID never repeats one
  Requests,       \* concurrent handlers of the web server
  Proposals,      \* identities of proposed writes (history only; bounds them)
  SaleArgs,       \* canonical record_sale arguments
  Replies,        \* tool-call lists the model may answer with; <<>> is a text
  RecentCount,    \* RECENT_CONVERSATION_MESSAGE_COUNT, 8 in the code
  MaxMessages,    \* bound: a session this long receives no new turn
  None            \* null

WriteTools == {"record_sale", "record_transaction", "record_batch", "other_write"}

\* Their handlers end with the database transaction; the others may still
\* read the balance after it and answer that read's failure.
AtomicTools == {"record_sale", "record_batch"}

Call(tool, args) == [tool |-> tool, args |-> args]
Calls == { Call("read", None), Call("quote_sale", None), Call("other_write", None),
           Call("record_transaction", None) }
         \cup { Call("record_sale", a) : a \in SaleArgs }

\* record_transactions_batch or record_mixed_transactions_batch, with its rows.
BatchCall(rows) == Call("record_batch", rows)
Operations == Calls \cup [tool : {"record_batch"}, args : Seq(Calls)]

ASSUME ReplyAssumption == Replies \subseteq Seq(Calls)
ASSUME RecentAssumption == RecentCount \in Nat
ASSUME BoundAssumption == MaxMessages \in Nat
ASSUME NoneAssumption ==
  /\ None \notin Sessions
  /\ None \notin Proposals
  /\ SaleArgs \cap {None, "ok", "error"} = {}

-----------------------------------------------------------------------------
(* Messages.  Ids of tool calls are unique within one assistant message    *)
(* (prepareToolCalls), so a call's position stands for its id.             *)

Results == SaleArgs \cup {"ok", "error"}    \* a quote's recordArguments, or not

UserMessage == [role |-> "user"]
AssistantMessage(calls) == [role |-> "assistant", calls |-> calls]
ToolMessage(id, result) == [role |-> "tool", id |-> id, result |-> result]
FinalText == AssistantMessage(<<>>)

Messages == {UserMessage}
            \cup [role : {"assistant"}, calls : Seq(Operations)]
            \cup [role : {"tool"}, id : Nat, result : Results]

IsWrite(call) == call.tool \in WriteTools

(* normalizeTransactionWriteBatch: related transaction writes become one   *)
(* stored operation.                                                       *)
Batchable(calls) ==
  Len(calls) >= 2 /\ \A i \in DOMAIN calls : calls[i].tool = "record_transaction"

\* A single write, or a batch that can be normalised into one.
Proposable(calls) == \/ Len(calls) = 1 /\ IsWrite(calls[1])
                     \/ Batchable(calls)

ProposedCall(calls) == IF Batchable(calls) THEN BatchCall(calls) ELSE calls[1]

(* hasMatchingSaleQuote, as a fold over the messages: a write call or a    *)
(* new quote call forgets the quote, the result of the last quote call     *)
(* sets it.                                                                *)
QuoteStep(acc, m) ==
  CASE m.role = "assistant" /\ \E i \in DOMAIN m.calls : m.calls[i].tool # "read" ->
         LET last == CHOOSE i \in DOMAIN m.calls :
                       /\ m.calls[i].tool # "read"
                       /\ \A j \in DOMAIN m.calls : j > i => m.calls[j].tool = "read"
         IN  [open |-> IF m.calls[last].tool = "quote_sale" THEN last ELSE 0,
              args |-> None]
    [] m.role = "tool" /\ acc.open = m.id ->
         [open |-> 0, args |-> IF m.result \in SaleArgs THEN m.result ELSE acc.args]
    [] OTHER -> acc

UsableQuote(msgs) == FoldLeft(QuoteStep, [open |-> 0, args |-> None], msgs).args

\* Broken variant: any quote prices any sale.
HasSomeSaleQuote(msgs, args) == UsableQuote(msgs) # None

HasMatchingSaleQuote(msgs, args) == UsableQuote(msgs) # None /\ UsableQuote(msgs) = args

\* Broken variant: the window may start in the middle of a turn.
LastMessages(msgs) ==
  IF Len(msgs) <= RecentCount THEN msgs
  ELSE SubSeq(msgs, Len(msgs) - RecentCount + 1, Len(msgs))

(* selectRecentConversationMessages: the last RecentCount messages, moved  *)
(* back to the start of their turn.                                        *)
RecentMessages(msgs) ==
  IF Len(msgs) <= RecentCount
    THEN msgs
    ELSE LET start == Len(msgs) - RecentCount + 1
             turns == {i \in 1..start : i = 1 \/ msgs[i].role = "user"}
         IN  SubSeq(msgs, CHOOSE i \in turns : \A j \in turns : j <= i, Len(msgs))

-----------------------------------------------------------------------------
VARIABLES
  status,     \* [Sessions -> {"new", "open", "closed"}]: the store's Map
  messages,   \* [Sessions -> Seq(Messages)]: completed turns
  pending,    \* [Sessions -> PendingConfirmations or None]
  busy,       \* busySessionIds
  req,        \* [Requests -> RequestStates]
  wire,       \* [Proposals -> Nat]: tools/call messages the server has not handled
  applied,    \* [Proposals -> Nat]: how often the server executed the write
  answer,     \* [Proposals -> {"none", "ok", "error"}]: the server's result
  write,      \* [Proposals -> Operations or None]: the operation proposed
  fate        \* [Proposals -> Fates]: history of the user's and the Host's view

store == <<status, messages, pending>>
server == <<wire, applied, answer, write>>
vars == <<status, messages, pending, busy, req, wire, applied, answer, write,
          fate>>

PendingConfirmations == [operation : Operations, turn : Seq(Messages), id : Proposals]

Awaits == {"compacting", "model", "reading", "describing", "writing", "explaining"}

RequestStates ==
  [pc : Awaits \cup {"idle"}, session : Sessions \cup {None}, context : Seq(Messages),
   turn : Seq(Messages), round : 0..2, operation : Operations \cup {None},
   id : Proposals \cup {None}]

IdleRequest ==
  [pc |-> "idle", session |-> None, context |-> <<>>, turn |-> <<>>, round |-> 0,
   operation |-> None, id |-> None]

\* "failed": the confirmed write's request threw and its turn was not kept.
Reported == {"succeeded", "rejected", "unknown", "failed"}
Fates == {"unused", "drafted", "pending", "dropped", "confirmed"} \cup Reported

Init ==
  /\ status = [s \in Sessions |-> "new"]
  /\ messages = [s \in Sessions |-> <<>>]
  /\ pending = [s \in Sessions |-> None]
  /\ busy = {}
  /\ req = [r \in Requests |-> IdleRequest]
  /\ wire = [p \in Proposals |-> 0]
  /\ applied = [p \in Proposals |-> 0]
  /\ answer = [p \in Proposals |-> "none"]
  /\ write = [p \in Proposals |-> None]
  /\ fate = [p \in Proposals |-> "unused"]

-----------------------------------------------------------------------------
(* What the user says, and how the Host reads it.                          *)

Texts == {"yes", "no", "other"}

\* Broken variant: whatever is not a refusal counts as a confirmation.
ClassifyLoosely(text) == IF text = "no" THEN "cancel" ELSE "confirm"

ClassifyConfirmationInput(text) ==
  CASE text = "yes" -> "confirm"
    [] text = "no"  -> "cancel"
    [] OTHER        -> "other"

\* History: what the user decided about the proposal shown to them.
Decided(p, text) ==
  CASE text = "yes" -> [fate EXCEPT ![p] = "confirmed"]
    [] text = "no"  -> [fate EXCEPT ![p] = "dropped"]
    [] OTHER        -> fate

-----------------------------------------------------------------------------
(* Sessions.                                                               *)

CreateSession(s) ==
  /\ status[s] = "new"
  /\ status' = [status EXCEPT ![s] = "open"]
  /\ UNCHANGED <<messages, pending, busy, req, server, fate>>

\* closeSession refuses a busy session; the store forgets everything else.
CloseSession(s) ==
  /\ status[s] = "open" /\ s \notin busy
  /\ status' = [status EXCEPT ![s] = "closed"]
  /\ messages' = [messages EXCEPT ![s] = <<>>]
  /\ pending' = [pending EXCEPT ![s] = None]
  /\ fate' = IF pending[s] = None THEN fate
             ELSE [fate EXCEPT ![pending[s].id] = "dropped"]
  /\ UNCHANGED <<busy, req, server>>

\* Broken variant: a second handler may enter a busy session.
AcceptsWhileBusy(r, s) == req[r].pc = "idle" /\ status[s] = "open"

(* The synchronous head of sendMessage.  A missing session, a busy one, a  *)
(* blank message and a reminder (any other text while a write is pending)  *)
(* return without changing anything and are not steps of the model.        *)
Accepts(r, s) ==
  /\ req[r].pc = "idle"
  /\ status[s] = "open"
  /\ s \notin busy

\* Broken variant: the user is told of a cancellation that is not stored.
CancelWithoutClearing(r, s, text) ==
  /\ Accepts(r, s)
  /\ pending[s] # None
  /\ ClassifyConfirmationInput(text) = "cancel"
  /\ fate' = Decided(pending[s].id, text)
  /\ UNCHANGED <<store, busy, req, server>>

CancelPending(r, s, text) ==
  /\ Accepts(r, s)
  /\ pending[s] # None
  /\ ClassifyConfirmationInput(text) = "cancel"
  /\ pending' = [pending EXCEPT ![s] = None]
  /\ fate' = Decided(pending[s].id, text)
  /\ UNCHANGED <<status, messages, busy, req, server>>

\* Broken variant: the operation stays stored while it is sent.
ConfirmWithoutClearing(r, s, text) ==
  /\ Accepts(r, s)
  /\ pending[s] # None
  /\ ClassifyConfirmationInput(text) = "confirm"
  /\ LET p == pending[s].id IN
       /\ fate' = Decided(p, text)
       /\ wire' = [wire EXCEPT ![p] = @ + 1]
       /\ req' = [req EXCEPT ![r] =
                    [pc |-> "writing", session |-> s, context |-> messages[s],
                     turn |-> pending[s].turn, round |-> 0,
                     operation |-> pending[s].operation, id |-> p]]
  /\ busy' = busy \cup {s}
  /\ UNCHANGED <<store, applied, answer, write>>

\* The stored operation is cleared before it is sent, then toolsCall is awaited.
ConfirmPending(r, s, text) ==
  /\ Accepts(r, s)
  /\ pending[s] # None
  /\ ClassifyConfirmationInput(text) = "confirm"
  /\ LET p == pending[s].id IN
       /\ fate' = Decided(p, text)
       /\ wire' = [wire EXCEPT ![p] = @ + 1]
       /\ req' = [req EXCEPT ![r] =
                    [pc |-> "writing", session |-> s, context |-> messages[s],
                     turn |-> pending[s].turn, round |-> 0,
                     operation |-> pending[s].operation, id |-> p]]
  /\ pending' = [pending EXCEPT ![s] = None]
  /\ busy' = busy \cup {s}
  /\ UNCHANGED <<status, messages, applied, answer, write>>

\* Without a pending write any text, "yes" and "no" included, opens a turn.
BeginTurn(r, s) ==
  /\ Accepts(r, s)
  /\ pending[s] = None
  /\ Len(messages[s]) < MaxMessages
  /\ busy' = busy \cup {s}
  /\ \E pc \in {"compacting", "model"} :
       /\ pc = "compacting" => Len(RecentMessages(messages[s])) < Len(messages[s])
       /\ req' = [req EXCEPT ![r] =
                    [pc |-> pc, session |-> s, context |-> messages[s],
                     turn |-> <<UserMessage>>, round |-> 0, operation |-> None,
                     id |-> None]]
  /\ UNCHANGED <<store, server, fate>>

-----------------------------------------------------------------------------
(* Ends of sendMessage.  The finally block always releases the session.    *)

Release(r) ==
  /\ busy' = busy \ {req[r].session}
  /\ req' = [req EXCEPT ![r] = IdleRequest]

AppendCompletedTurn(s, turn) ==
  messages' = [messages EXCEPT ![s] = @ \o turn]

\* The store only accepts valid messages that are a proper tail of its own.
ApplyCompaction(s, retained) ==
  /\ retained \in Seq(Messages)
  /\ Len(retained) < Len(messages[s]) /\ IsSuffix(retained, messages[s])
  /\ messages' = [messages EXCEPT ![s] = retained]

(* Compaction: the summary request succeeds and the store keeps the recent *)
(* turns, or it fails and the full context is used.                        *)
Compact(r) ==
  LET recent == RecentMessages(req[r].context)
  IN  /\ req[r].pc = "compacting"
      /\ ApplyCompaction(req[r].session, recent)
      /\ req' = [req EXCEPT ![r].pc = "model", ![r].context = recent]
      /\ UNCHANGED <<status, pending, busy, server, fate>>

CompactionFails(r) ==
  /\ req[r].pc = "compacting"
  /\ req' = [req EXCEPT ![r].pc = "model"]
  /\ UNCHANGED <<store, busy, server, fate>>

(* ChatOrchestrator.run.                                                   *)
AnswerText(r) ==
  /\ req[r].pc = "model"
  /\ AppendCompletedTurn(req[r].session, Append(req[r].turn, FinalText))
  /\ Release(r)
  /\ UNCHANGED <<status, pending, server, fate>>

\* Broken variant: the rounds are not counted against their limit.
RequestReadsForEver(r, calls) ==
  /\ req[r].pc = "model"
  /\ calls # <<>> /\ \A i \in DOMAIN calls : ~IsWrite(calls[i])
  /\ req' = [req EXCEPT ![r].pc = "reading",
                        ![r].turn = Append(@, AssistantMessage(calls))]
  /\ UNCHANGED <<store, busy, server, fate>>

RequestReads(r, calls) ==
  /\ req[r].pc = "model" /\ req[r].round < 2
  /\ calls # <<>> /\ \A i \in DOMAIN calls : ~IsWrite(calls[i])
  /\ req' = [req EXCEPT ![r].pc = "reading",
                        ![r].turn = Append(@, AssistantMessage(calls))]
  /\ UNCHANGED <<store, busy, server, fate>>

\* Reads run one after another; a failed one becomes an error result.
ReadResult(call, result) ==
  result \in IF call.tool = "quote_sale" THEN SaleArgs \cup {"error"} ELSE {"ok", "error"}

CompleteReads(r) ==
  LET calls == Last(req[r].turn).calls IN
  /\ req[r].pc = "reading"
  /\ \E results \in [DOMAIN calls -> Results] :
       /\ \A i \in DOMAIN calls : ReadResult(calls[i], results[i])
       /\ req' = [req EXCEPT ![r].pc = "model", ![r].round = @ + 1,
                    ![r].turn = @ \o [i \in DOMAIN calls |-> ToolMessage(i, results[i])]]
  /\ UNCHANGED <<store, busy, server, fate>>

\* Broken variant: the turn keeps the calls the model sent, not the stored one.
ProposeWithoutNormalizing(r, calls, p) ==
  LET call == ProposedCall(calls) IN
  /\ req[r].pc = "model" /\ req[r].round < 2
  /\ Proposable(calls)
  /\ call.tool = "record_sale"
       => HasMatchingSaleQuote(req[r].context \o req[r].turn, call.args)
  /\ fate[p] = "unused"
  /\ fate' = [fate EXCEPT ![p] = "drafted"]
  /\ write' = [write EXCEPT ![p] = call]
  /\ req' = [req EXCEPT ![r].pc = "describing", ![r].operation = call, ![r].id = p,
                        ![r].turn = Append(@, AssistantMessage(calls))]
  /\ UNCHANGED <<store, busy, wire, applied, answer>>

\* run returns confirmation_required; the service awaits the describer.
ProposeWrite(r, calls, p) ==
  LET call == ProposedCall(calls) IN
  /\ req[r].pc = "model" /\ req[r].round < 2
  /\ Proposable(calls)
  /\ call.tool = "record_sale"
       => HasMatchingSaleQuote(req[r].context \o req[r].turn, call.args)
  /\ fate[p] = "unused"
  /\ fate' = [fate EXCEPT ![p] = "drafted"]
  /\ write' = [write EXCEPT ![p] = call]
  /\ req' = [req EXCEPT ![r].pc = "describing", ![r].operation = call, ![r].id = p,
                        ![r].turn = Append(@, AssistantMessage(<<call>>))]
  /\ UNCHANGED <<store, busy, wire, applied, answer>>

SetPendingConfirmation(r) ==
  LET s == req[r].session IN
  /\ req[r].pc = "describing"
  /\ pending[s] = None
  /\ pending' = [pending EXCEPT ![s] =
                   [operation |-> req[r].operation, turn |-> req[r].turn, id |-> req[r].id]]
  /\ fate' = [fate EXCEPT ![req[r].id] = "pending"]
  /\ Release(r)
  /\ UNCHANGED <<status, messages, server>>

\* Broken variant: the session is released on the successful paths only.
AbortWithoutRelease(r) ==
  /\ req[r].pc = "model"
  /\ req' = [req EXCEPT ![r] = IdleRequest]
  /\ UNCHANGED <<store, busy, server, fate>>

(* sendChat rejects (a timeout, a network or HTTP error, a body it cannot  *)
(* read), or answers something run refuses (no text, a third tool round,   *)
(* an unknown tool, arguments that are no object, writes that are no       *)
(* batch, an unquoted sale): nothing of the turn is kept.                  *)
AbortTurn(r) ==
  /\ req[r].pc = "model"
  /\ Release(r)
  /\ UNCHANGED <<store, server, fate>>

(* The describer refuses the arguments, or cannot look up the names of     *)
(* what they refer to: the proposal is lost with its turn.                 *)
DescriberFails(r) ==
  /\ req[r].pc = "describing"
  /\ fate' = [fate EXCEPT ![req[r].id] = "dropped"]
  /\ Release(r)
  /\ UNCHANGED <<store, server>>

-----------------------------------------------------------------------------
(* ChatOrchestrator.completeConfirmedWrite.                                *)

\* One result of awaiting toolsCall: the turn is stored and the user told.
EndWrite(r, turn, outcome) ==
  /\ AppendCompletedTurn(req[r].session, turn)
  /\ fate' = [fate EXCEPT ![req[r].id] = outcome]
  /\ Release(r)
  /\ UNCHANGED <<status, pending, server>>

\* Broken variant: a lost answer is reported as a rejection.
LostAnswerIsRejection(r) ==
  /\ req[r].pc = "writing"
  /\ EndWrite(r, Append(req[r].turn, FinalText), "rejected")

\* toolsCall rejects: timeout, transport failure or protocol error.
WriteOutcomeUnknown(r) ==
  /\ req[r].pc = "writing"
  /\ EndWrite(r, Append(req[r].turn, FinalText), "unknown")

WriteRejected(r) ==
  /\ req[r].pc = "writing" /\ answer[req[r].id] = "error"
  /\ EndWrite(r, req[r].turn \o <<ToolMessage(1, "error"), FinalText>>, "rejected")

WriteSucceeds(r) ==
  /\ req[r].pc = "writing" /\ answer[req[r].id] = "ok"
  /\ req' = [req EXCEPT ![r].pc = "explaining", ![r].turn = Append(@, ToolMessage(1, "ok"))]
  /\ UNCHANGED <<store, busy, server, fate>>

\* The model explains the result; if the call fails the Host's text does.
ExplainWrite(r) ==
  /\ req[r].pc = "explaining"
  /\ EndWrite(r, Append(req[r].turn, FinalText), "succeeded")

\* ensureFinalContent throws outside the try: the executed turn is dropped.
ExplanationInvalid(r) ==
  /\ req[r].pc = "explaining"
  /\ fate' = [fate EXCEPT ![req[r].id] = "failed"]
  /\ Release(r)
  /\ UNCHANGED <<store, server>>

-----------------------------------------------------------------------------
(* The MCP server that owns the tool.                                      *)

McpHandles(p, result) ==
  /\ wire[p] > 0
  /\ wire' = [wire EXCEPT ![p] = @ - 1]
  /\ answer' = [answer EXCEPT ![p] = result]
  /\ UNCHANGED <<store, busy, req, write, fate>>

Execute(p) == applied' = [applied EXCEPT ![p] = @ + 1]

McpApplies(p) == McpHandles(p, "ok") /\ Execute(p)
McpRefuses(p) == McpHandles(p, "error") /\ UNCHANGED applied

\* The row is persisted, then getCurrentBalance fails and isError is answered.
McpAppliesThenFails(p) ==
  /\ McpHandles(p, "error") /\ Execute(p)
  /\ write[p].tool \notin AtomicTools

-----------------------------------------------------------------------------
ResumeRun(r) ==
  \/ Compact(r) \/ CompactionFails(r)
  \/ AnswerText(r) \/ CompleteReads(r) \/ SetPendingConfirmation(r)
  \/ AbortTurn(r) \/ DescriberFails(r)
  \/ \E calls \in Replies :
       RequestReads(r, calls) \/ \E p \in Proposals : ProposeWrite(r, calls, p)

ResumeWrite(r) ==
  \/ WriteOutcomeUnknown(r) \/ WriteRejected(r) \/ WriteSucceeds(r)
  \/ ExplainWrite(r) \/ ExplanationInvalid(r)

Resume(r) == ResumeRun(r) \/ ResumeWrite(r)

SendMessage(r, s) ==
  \/ BeginTurn(r, s)
  \/ \E text \in Texts : CancelPending(r, s, text) \/ ConfirmPending(r, s, text)

Next ==
  \/ \E s \in Sessions : CreateSession(s) \/ CloseSession(s)
  \/ \E r \in Requests, s \in Sessions : SendMessage(r, s)
  \/ \E r \in Requests : Resume(r)
  \/ \E p \in Proposals : McpApplies(p) \/ McpRefuses(p) \/ McpAppliesThenFails(p)

Spec == Init /\ [][Next]_vars

(* Every await ends.  A DeepSeek call carries a timeout that covers its     *)
(* body (deepseek-client.ts:315, 360).  That toolsCall settles is assumed  *)
(* of the servers: a STDIO request has no timeout, so its server answers   *)
(* or its transport fails.  Users owe nothing.                             *)
FairSpec == Spec /\ \A r \in Requests : WF_vars(Resume(r))

-----------------------------------------------------------------------------
(* Properties.                                                             *)

\* Every variable keeps the shape the store, the service and the server give it.
TypeOK ==
  /\ status \in [Sessions -> {"new", "open", "closed"}]
  /\ messages \in [Sessions -> Seq(Messages)]
  /\ pending \in [Sessions -> PendingConfirmations \cup {None}]
  /\ busy \subseteq Sessions
  /\ req \in [Requests -> RequestStates]
  /\ wire \in [Proposals -> Nat]
  /\ applied \in [Proposals -> Nat]
  /\ answer \in [Proposals -> {"none", "ok", "error"}]
  /\ write \in [Proposals -> Operations \cup {None}]
  /\ fate \in [Proposals -> Fates]

ConfirmedByUser(p) == fate[p] \in {"confirmed"} \cup Reported

(* No mutation before explicit confirmation: a tools/call for a write is   *)
(* on the wire, executed or answered only if the user said yes to it.      *)
OnlyConfirmedWritesAreSent ==
  \A p \in Proposals :
    wire[p] > 0 \/ applied[p] > 0 \/ answer[p] # "none" => ConfirmedByUser(p)

(* A confirmed operation is sent, and so executed, at most once, whatever  *)
(* answers are lost and however often the user confirms again.             *)
WritesAtMostOnce == \A p \in Proposals : wire[p] + applied[p] <= 1

(* What the user is promised of a write: not before the yes, and not       *)
(* twice after it.                                                         *)
ConfirmedThenOnce == OnlyConfirmedWritesAreSent /\ WritesAtMostOnce

(* What the Host tells the user about a write is true for good: a write    *)
(* reported as done was executed, and a sale or a batch reported as        *)
(* rejected never will be.                                                 *)
HonestReport ==
  \A p \in Proposals :
    /\ fate[p] = "succeeded" => applied[p] = 1
    /\ fate[p] = "rejected" /\ write[p].tool \in AtomicTools =>
         applied[p] = 0 /\ wire[p] = 0

Active(r) == req[r].pc # "idle"

(* The busy set serialises the turns of a session: a handler in progress   *)
(* is alone, and the context it read before its awaits is still the        *)
(* session's history when it uses it (no lost turn, no stale context).     *)
ContextIsCurrent ==
  \A r \in Requests : Active(r) =>
    /\ req[r].session \in busy
    /\ req[r].context = messages[req[r].session]
    /\ \A q \in Requests \ {r} : Active(q) => req[q].session # req[r].session

(* The messages price a sale at args: the last quote_sale or write call in *)
(* them is a quote, and its result carried exactly these arguments.        *)
PricedAt(msgs, args) ==
  \E j \in DOMAIN msgs :
    /\ msgs[j].role = "assistant"
    /\ \E k \in DOMAIN msgs[j].calls :
         /\ msgs[j].calls[k].tool = "quote_sale"
         /\ j + k <= Len(msgs) /\ msgs[j + k] = ToolMessage(k, args)
         /\ \A i \in DOMAIN msgs[j].calls : i > k => msgs[j].calls[i].tool = "read"
    /\ \A l \in (j + 1)..Len(msgs) : msgs[l].role = "assistant" =>
         \A i \in DOMAIN msgs[l].calls : msgs[l].calls[i].tool = "read"

QuotedSale(history, turn, operation) ==
  operation.tool = "record_sale" => PricedAt(history \o Front(turn), operation.args)

(* A sale waiting for a decision, or being executed, is still the one the  *)
(* latest quote of the session priced, although the check ran before the   *)
(* describer and the user took their time.                                 *)
SaleMatchesItsQuote ==
  /\ \A s \in Sessions : pending[s] # None =>
       QuotedSale(messages[s], pending[s].turn, pending[s].operation)
  /\ \A r \in Requests : req[r].pc \in {"describing", "writing"} =>
       QuotedSale(req[r].context, req[r].turn, req[r].operation)

(* The stored operation is the only call of the last message of its turn,  *)
(* so validatePendingWrite never refuses what the user confirmed           *)
(* (PENDING_OPERATION_MISMATCH), normalised batches included.              *)
PendingMatchesItsTurn ==
  \A s \in Sessions : pending[s] # None =>
    Last(pending[s].turn) = AssistantMessage(<<pending[s].operation>>)

(* What waits for the user's decision stays what was checked when it was   *)
(* proposed: the call its turn ends with and the sale its quote priced.    *)
PendingStaysRight == PendingMatchesItsTurn /\ SaleMatchesItsQuote

IsFinalText(m) == m.role = "assistant" /\ m.calls = <<>>

\* A tool result follows, within its turn, the message that asked for it.
AnswersACall(msgs, i) ==
  \E j \in 1..(i - 1) :
    /\ msgs[j].role = "assistant" /\ msgs[i].id \in DOMAIN msgs[j].calls
    /\ \A k \in (j + 1)..(i - 1) : msgs[k].role = "tool"

(* The stored history is always a sequence of whole turns, each from its   *)
(* user message to its final text, with no orphaned tool result: neither a *)
(* failed turn, a compaction nor a confirmation leaves a fragment.  A call *)
(* may lack its result: that of a write whose outcome is unknown does      *)
(* (chat-orchestrator.ts:415-421).                                         *)
HistoryIsWholeTurns ==
  \A s \in Sessions : LET msgs == messages[s] IN
    msgs # <<>> =>
      /\ msgs[1].role = "user" /\ IsFinalText(Last(msgs))
      /\ \A i \in 2..Len(msgs) :
           /\ msgs[i].role = "user" <=> IsFinalText(msgs[i - 1])
           /\ msgs[i].role = "tool" => AnswersACall(msgs, i)

(* A busy session is busy with something: one of its requests is in an     *)
(* await, from which it will resume.  Whatever ends a request, a rejected  *)
(* model call or an answer that is refused included, ends the session's    *)
(* being busy (the finally block, session-chat-service.ts:143).            *)
BusyIsOwned == \A s \in busy : \E r \in Requests : Active(r) /\ req[r].session = s

(* A session is busy exactly while one request, and no other, is working   *)
(* on its current history.                                                 *)
BusyWithOneTurn == ContextIsCurrent /\ BusyIsOwned

\* The awaits that are left to a request, the one it is in included.
AwaitsLeft(q) ==
  CASE q.pc = "compacting"                 -> 7
    [] q.pc = "model"                      -> 6 - 2 * q.round
    [] q.pc = "reading"                    -> 5 - 2 * q.round
    [] q.pc = "writing"                    -> 2
    [] q.pc \in {"describing", "explaining"} -> 1
    [] OTHER                               -> 0

(* A message costs a bounded number of model calls and rounds of reads:    *)
(* whatever the model asks for (chat-orchestrator.ts:342), a request that  *)
(* moves has fewer awaits left, and it stays with its session to the end.  *)
TurnsRunOut ==
  [][\A r \in Requests : Active(r) /\ req'[r] # req[r] =>
       /\ AwaitsLeft(req'[r]) \in 0..(AwaitsLeft(req[r]) - 1)
       /\ req'[r].pc # "idle" => req'[r].session = req[r].session]_vars

(* A busy session is released: no path through sendMessage, failing model  *)
(* calls and lost answers included, keeps a session busy for ever.         *)
SessionsAreReleased == \A s \in Sessions : s \in busy ~> s \notin busy

(* The confirmation flow seen from outside, one state per proposal.        *)
ProposalState(p) ==
  CASE applied[p] > 0                                     -> "applied"
    [] applied[p] = 0 /\ answer[p] = "error"              -> "refused"
    [] ConfirmedByUser(p) /\ applied[p] = 0 /\ answer[p] # "error" -> "confirmed"
    [] fate[p] = "dropped"                                -> "dropped"
    [] fate[p] = "pending"                                -> "pending"
    [] OTHER                                              -> "new"

FlowState == [p \in Proposals |-> ProposalState(p)]

Flow == INSTANCE WriteConfirmation WITH state <- FlowState

(* The Host implements the promised confirmation flow: nothing before the  *)
(* confirmation, nothing after a cancellation, one execution at most.      *)
ImplementsConfirmationFlow == Flow!Spec

(* chat-orchestrator.ts:434 answers an isError result with "La operacion   *)
(* fue rechazada por Finance MCP. No se completo el cambio solicitado":    *)
(* for every write, a reported rejection means that nothing was done.      *)
RejectedMeansNotDone == \A p \in Proposals : fate[p] = "rejected" => applied[p] = 0

(* docs/PROJECT_SPEC.md: the session context stores "required tool         *)
(* call/result messages"; so a write the server executed and answered is   *)
(* in the history once its request is over.                                *)
ExecutedWritesAreRemembered ==
  \A p \in Proposals : ~(answer[p] = "ok" /\ fate[p] = "failed")
=============================================================================
