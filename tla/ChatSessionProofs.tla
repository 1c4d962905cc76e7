------------------------- MODULE ChatSessionProofs -------------------------
(***************************************************************************)
(* Theorems about ChatSession for any number of sessions, requests and     *)
(* proposals, any model replies and any compaction window: its types, the  *)
(* serialisation of turns, the confirmation flow it implements, histories  *)
(* of whole turns, sales that agree with the quote before them, and turns  *)
(* that own their session and run out.                                     *)
(***************************************************************************)
EXTENDS ChatSession, FoldTheorems, TLAPS

HoldsWrite(q) == q.pc \in {"describing", "writing", "explaining"}

\* What the type of a request's fields owes to its await.
GoodRequest(q) ==
  /\ q \in RequestStates
  /\ q.pc # "idle" => q.session \in Sessions
  /\ HoldsWrite(q) => q.id \in Proposals /\ q.operation \in Operations
  /\ q.pc = "reading" =>
       /\ q.round < 2
       /\ \E calls \in Seq(Operations) : Last(q.turn) = AssistantMessage(calls)

StoreTypes ==
  /\ status \in [Sessions -> {"new", "open", "closed"}]
  /\ messages \in [Sessions -> Seq(Messages)]
  /\ pending \in [Sessions -> PendingConfirmations \cup {None}]
  /\ busy \subseteq Sessions

RequestTypes ==
  /\ req \in [Requests -> RequestStates]
  /\ \A r \in Requests : GoodRequest(req[r])

WriteTypes ==
  /\ wire \in [Proposals -> Nat]
  /\ applied \in [Proposals -> Nat]
  /\ answer \in [Proposals -> {"none", "ok", "error"}]
  /\ write \in [Proposals -> Operations \cup {None}]
  /\ fate \in [Proposals -> Fates]

TypeInv == StoreTypes /\ RequestTypes /\ WriteTypes

-----------------------------------------------------------------------------
(* Building blocks.                                                        *)

LEMMA MessageTypes ==
  /\ UserMessage \in Messages
  /\ FinalText \in Messages
  /\ ToolMessage(1, "ok") \in Messages /\ ToolMessage(1, "error") \in Messages
  /\ \A calls \in Seq(Operations) : AssistantMessage(calls) \in Messages
  /\ \A id \in Nat, result \in Results : ToolMessage(id, result) \in Messages
<1>1. \A calls \in Seq(Operations) : AssistantMessage(calls) \in Messages
  BY DEF Messages, AssistantMessage
<1>2. \A id \in Nat, result \in Results : ToolMessage(id, result) \in Messages
  BY DEF Messages, ToolMessage
<1>3. FinalText \in Messages
  <2>1. <<>> \in Seq(Operations)
    OBVIOUS
  <2>2. QED
    BY <1>1, <2>1 DEF FinalText
<1>4. {"ok", "error"} \subseteq Results
  BY DEF Results
<1>5. QED
  BY <1>1, <1>2, <1>3, <1>4 DEF Messages

LEMMA ProposedCallType ==
  ASSUME NEW calls \in Replies, Proposable(calls)
  PROVE  ProposedCall(calls) \in Operations
<1>1. calls \in Seq(Calls)
  BY ReplyAssumption
<1>2. CASE Batchable(calls)
  BY <1>1, <1>2 DEF ProposedCall, BatchCall, Call, Operations
<1>3. CASE ~Batchable(calls)
  BY <1>1, <1>3 DEF Proposable, ProposedCall, Operations
<1>4. QED
  BY <1>2, <1>3

LEMMA RepliesAreOperations == \A calls \in Replies : calls \in Seq(Operations)
BY ReplyAssumption DEF Operations

LEMMA IdleIsGood == GoodRequest(IdleRequest)
BY DEF IdleRequest, RequestStates, GoodRequest, HoldsWrite

\* A step of one request is judged by the state it leaves that request in.
LEMMA RequestStep ==
  ASSUME RequestTypes, NEW r \in Requests, NEW q, GoodRequest(q),
         req' = [req EXCEPT ![r] = q]
  PROVE  RequestTypes'
BY DEF RequestTypes, GoodRequest

LEMMA RequestsUnchanged == RequestTypes /\ req' = req => RequestTypes'
BY DEF RequestTypes

LEMMA AppendTurnTypes ==
  ASSUME StoreTypes, NEW s \in Sessions, NEW turn \in Seq(Messages),
         AppendCompletedTurn(s, turn)
  PROVE  messages' \in [Sessions -> Seq(Messages)]
BY DEF StoreTypes, AppendCompletedTurn

LEMMA FateTypes ==
  ASSUME WriteTypes, NEW p \in Proposals, NEW f \in Fates,
         fate' = [fate EXCEPT ![p] = f]
  PROVE  fate' \in [Proposals -> Fates]
BY DEF WriteTypes

LEMMA FateNames ==
  {"unused", "drafted", "pending", "dropped", "confirmed", "succeeded", "rejected",
   "unknown", "failed"} \subseteq Fates
BY DEF Fates, Reported

LEMMA PendingTypes ==
  ASSUME StoreTypes, NEW s \in Sessions, pending[s] # None
  PROVE  /\ pending[s].id \in Proposals /\ pending[s].operation \in Operations
         /\ pending[s].turn \in Seq(Messages)
BY DEF StoreTypes, PendingConfirmations

-----------------------------------------------------------------------------
(* Types.                                                                  *)

LEMMA InitTypes == Init => TypeInv
<1>1. Init => StoreTypes
  BY DEF Init, StoreTypes
<1>2. Init => RequestTypes
  BY IdleIsGood DEF Init, RequestTypes, GoodRequest
<1>3. Init => WriteTypes
  BY DEF Init, WriteTypes, Fates
<1>4. QED
  BY <1>1, <1>2, <1>3 DEF TypeInv

LEMMA SessionStepTypes ==
  ASSUME TypeInv, NEW s \in Sessions, CreateSession(s) \/ CloseSession(s)
  PROVE  TypeInv'
<1>1. CASE CreateSession(s)
  BY <1>1, RequestsUnchanged DEF TypeInv, StoreTypes, WriteTypes, CreateSession, server
<1>2. CASE CloseSession(s)
  <2>1. fate' \in [Proposals -> Fates]
    BY <1>2, PendingTypes, FateTypes, FateNames DEF CloseSession, TypeInv, WriteTypes
  <2>2. StoreTypes'
    BY <1>2 DEF CloseSession, TypeInv, StoreTypes
  <2>3. QED
    BY <1>2, <2>1, <2>2, RequestsUnchanged DEF TypeInv, WriteTypes, CloseSession, server
<1>3. QED
  BY <1>1, <1>2

LEMMA DecidedTypes ==
  ASSUME WriteTypes, NEW p \in Proposals, NEW text \in Texts, fate' = Decided(p, text)
  PROVE  fate' \in [Proposals -> Fates]
<1>1. CASE text = "yes"
  BY <1>1, FateTypes, FateNames DEF Decided
<1>2. CASE text = "no"
  BY <1>2, FateTypes, FateNames DEF Decided
<1>3. CASE text = "other"
  BY <1>3 DEF Decided, WriteTypes
<1>4. QED
  BY <1>1, <1>2, <1>3 DEF Texts

LEMMA SendStepTypes ==
  ASSUME TypeInv, NEW r \in Requests, NEW s \in Sessions, SendMessage(r, s)
  PROVE  TypeInv'
<1>1. CASE BeginTurn(r, s)
  <2>1. PICK pc \in {"compacting", "model"} :
          req' = [req EXCEPT ![r] =
                    [pc |-> pc, session |-> s, context |-> messages[s],
                     turn |-> <<UserMessage>>, round |-> 0, operation |-> None,
                     id |-> None]]
    BY <1>1 DEF BeginTurn
  <2>2. messages[s] \in Seq(Messages) /\ <<UserMessage>> \in Seq(Messages)
    BY MessageTypes DEF TypeInv, StoreTypes
  <2>3. GoodRequest([pc |-> pc, session |-> s, context |-> messages[s],
                     turn |-> <<UserMessage>>, round |-> 0, operation |-> None,
                     id |-> None])
    BY <2>2 DEF GoodRequest, HoldsWrite, RequestStates, Awaits
  <2>4. RequestTypes'
    BY <2>1, <2>3, RequestStep DEF TypeInv
  <2>5. QED
    BY <1>1, <2>4 DEF BeginTurn, TypeInv, StoreTypes, WriteTypes, store, server
<1>2. ASSUME NEW text \in Texts, CancelPending(r, s, text)
      PROVE  TypeInv'
  <2>1. fate' \in [Proposals -> Fates]
    BY <1>2, PendingTypes, DecidedTypes DEF CancelPending, TypeInv
  <2>2. StoreTypes'
    BY <1>2 DEF CancelPending, TypeInv, StoreTypes
  <2>3. QED
    BY <1>2, <2>1, <2>2, RequestsUnchanged DEF CancelPending, TypeInv, WriteTypes, server
<1>3. ASSUME NEW text \in Texts, ConfirmPending(r, s, text)
      PROVE  TypeInv'
  <2> DEFINE p == pending[s].id
             q == [pc |-> "writing", session |-> s, context |-> messages[s],
                   turn |-> pending[s].turn, round |-> 0,
                   operation |-> pending[s].operation, id |-> p]
  <2>1. p \in Proposals /\ pending[s].operation \in Operations
        /\ pending[s].turn \in Seq(Messages) /\ messages[s] \in Seq(Messages)
    BY <1>3, PendingTypes DEF ConfirmPending, TypeInv, StoreTypes
  <2>2. GoodRequest(q)
    BY <2>1 DEF GoodRequest, HoldsWrite, RequestStates, Awaits
  <2>3. req' = [req EXCEPT ![r] = q]
    BY <1>3 DEF ConfirmPending
  <2>4. RequestTypes'
    BY <2>2, <2>3, RequestStep DEF TypeInv
  <2>5. fate' = Decided(p, text) /\ wire' = [wire EXCEPT ![p] = @ + 1]
        /\ UNCHANGED <<applied, answer, write>>
    BY <1>3 DEF ConfirmPending
  <2>6. WriteTypes'
    BY <2>1, <2>5, DecidedTypes DEF TypeInv, WriteTypes
  <2>7. StoreTypes'
    BY <1>3 DEF ConfirmPending, TypeInv, StoreTypes
  <2>8. QED
    BY <2>4, <2>6, <2>7 DEF TypeInv
<1>4. QED
  BY <1>1, <1>2, <1>3 DEF SendMessage

\* The end of a request leaves the other requests alone.
LEMMA ReleaseTypes ==
  ASSUME TypeInv, NEW r \in Requests, Release(r)
  PROVE  busy' \subseteq Sessions /\ RequestTypes'
BY IdleIsGood, RequestStep DEF TypeInv, StoreTypes, Release

LEMMA RequestFields ==
  ASSUME TypeInv, NEW r \in Requests
  PROVE  /\ req[r] \in RequestStates /\ GoodRequest(req[r])
         /\ req[r].turn \in Seq(Messages) /\ req[r].context \in Seq(Messages)
         /\ req[r].round \in 0..2
         /\ req[r].pc # "idle" => req[r].session \in Sessions
         /\ HoldsWrite(req[r]) => req[r].id \in Proposals /\ req[r].operation \in Operations
BY DEF TypeInv, RequestTypes, GoodRequest, RequestStates

LEMMA CompactionTypes ==
  ASSUME TypeInv, NEW r \in Requests, Compact(r) \/ CompactionFails(r)
  PROVE  TypeInv'
<1>1. req[r].pc = "compacting" /\ req[r].session \in Sessions
  BY RequestFields DEF Compact, CompactionFails
<1>2. CASE Compact(r)
  <2> DEFINE recent == RecentMessages(req[r].context)
             q == [req[r] EXCEPT !.pc = "model", !.context = recent]
  <2>1. recent \in Seq(Messages) /\ messages' = [messages EXCEPT ![req[r].session] = recent]
    BY <1>2 DEF Compact, ApplyCompaction
  <2>2. req' = [req EXCEPT ![r] = q]
    BY <1>2 DEF Compact
  <2> HIDE DEF recent
  <2>3. GoodRequest(q)
    BY <1>1, <2>1, RequestFields DEF GoodRequest, HoldsWrite, RequestStates, Awaits
  <2> HIDE DEF q
  <2>4. RequestTypes'
    BY <2>2, <2>3, RequestStep DEF TypeInv
  <2>5. StoreTypes'
    BY <1>2, <2>1 DEF Compact, TypeInv, StoreTypes
  <2>6. QED
    BY <1>2, <2>4, <2>5 DEF Compact, TypeInv, WriteTypes, server
<1>3. CASE CompactionFails(r)
  <2> DEFINE q == [req[r] EXCEPT !.pc = "model"]
  <2>1. req' = [req EXCEPT ![r] = q]
    BY <1>3 DEF CompactionFails
  <2>2. GoodRequest(q)
    BY <1>1, RequestFields DEF GoodRequest, HoldsWrite, RequestStates, Awaits
  <2> HIDE DEF q
  <2>3. RequestTypes'
    BY <2>1, <2>2, RequestStep DEF TypeInv
  <2>4. QED
    BY <1>3, <2>3 DEF CompactionFails, TypeInv, StoreTypes, WriteTypes, store, server
<1>4. QED
  BY <1>2, <1>3

LEMMA ReadTypes ==
  ASSUME TypeInv, NEW r \in Requests,
         CompleteReads(r) \/ \E calls \in Replies : RequestReads(r, calls)
  PROVE  TypeInv'
<1>1. ASSUME NEW q, GoodRequest(q), req' = [req EXCEPT ![r] = q],
             UNCHANGED <<store, busy, server, fate>>
      PROVE  TypeInv'
  <2>1. RequestTypes'
    BY <1>1, RequestStep DEF TypeInv
  <2>2. QED
    BY <1>1, <2>1 DEF TypeInv, StoreTypes, WriteTypes, store, server
<1>2. CASE CompleteReads(r)
  <2>1. PICK calls \in Seq(Operations) : Last(req[r].turn) = AssistantMessage(calls)
    <3>1. GoodRequest(req[r]) /\ req[r].pc = "reading"
      BY ZenonT(40), <1>2, RequestFields DEF CompleteReads
    <3>2. QED
      BY <3>1 DEF GoodRequest
  <2>2. Last(req[r].turn).calls = calls
    BY <2>1 DEF AssistantMessage
  <2>3. PICK results \in [DOMAIN calls -> Results] :
          req' = [req EXCEPT ![r].pc = "model", ![r].round = @ + 1,
                    ![r].turn = @ \o [i \in DOMAIN calls |-> ToolMessage(i, results[i])]]
    BY <1>2, <2>2 DEF CompleteReads
  <2> DEFINE answers == [i \in DOMAIN calls |-> ToolMessage(i, results[i])]
             turn == req[r].turn \o answers
             q == [req[r] EXCEPT !.pc = "model", !.round = @ + 1, !.turn = turn]
  <2>4. answers \in Seq(Messages)
    <3>1. DOMAIN calls = 1..Len(calls) /\ Len(calls) \in Nat
      OBVIOUS
    <3>2. \A i \in 1..Len(calls) : ToolMessage(i, results[i]) \in Messages
      BY <3>1, MessageTypes
    <3>3. QED
      BY <3>1, <3>2
  <2>5. req' = [req EXCEPT ![r] = q]
    BY ZenonT(40), <2>3
  <2> HIDE DEF answers
  <2>6. turn \in Seq(Messages)
    BY <2>4, RequestFields
  <2>7. req[r].round + 1 \in 0..2 /\ req[r].pc = "reading"
    <3>1. GoodRequest(req[r]) /\ req[r].pc = "reading" /\ req[r].round \in 0..2
      BY ZenonT(40), <1>2, RequestFields DEF CompleteReads
    <3>2. QED
      BY <3>1 DEF GoodRequest
  <2> HIDE DEF turn
  <2>8. GoodRequest(q)
    BY ZenonT(40), <2>6, <2>7, RequestFields DEF GoodRequest, HoldsWrite, RequestStates, Awaits
  <2> HIDE DEF q
  <2>9. UNCHANGED <<store, busy, server, fate>>
    BY ZenonT(40), <1>2 DEF CompleteReads
  <2>10. QED
    BY <1>1, <2>5, <2>8, <2>9
<1>3. ASSUME NEW calls \in Replies, RequestReads(r, calls)
      PROVE  TypeInv'
  <2> DEFINE turn == Append(req[r].turn, AssistantMessage(calls))
             q == [req[r] EXCEPT !.pc = "reading", !.turn = turn]
  <2>1. calls \in Seq(Operations) /\ AssistantMessage(calls) \in Messages
    BY RepliesAreOperations, MessageTypes
  <2>2. turn \in Seq(Messages) /\ Last(turn) = AssistantMessage(calls)
    BY <2>1, RequestFields DEF Last
  <2>3. req' = [req EXCEPT ![r] = q] /\ req[r].round < 2 /\ req[r].pc = "model"
        /\ UNCHANGED <<store, busy, server, fate>>
    BY <1>3 DEF RequestReads
  <2> HIDE DEF turn
  <2>4. q \in RequestStates /\ q.pc = "reading" /\ q.turn = turn /\ q.round = req[r].round
        /\ q.session = req[r].session
    <3>1. req[r] \in RequestStates /\ "reading" \in Awaits
      BY RequestFields DEF Awaits
    <3>2. QED
      BY <2>2, <3>1 DEF RequestStates
  <2>5. GoodRequest(q)
    BY <2>1, <2>2, <2>3, <2>4, RequestFields DEF GoodRequest, HoldsWrite
  <2> HIDE DEF q
  <2>6. QED
    BY <1>1, <2>3, <2>5
<1>4. QED
  BY <1>2, <1>3

LEMMA ProposalTypes ==
  ASSUME TypeInv, NEW r \in Requests,
         NEW calls \in Replies, NEW p \in Proposals, ProposeWrite(r, calls, p)
  PROVE  TypeInv'
<1> DEFINE call == ProposedCall(calls)
           turn == Append(req[r].turn, AssistantMessage(<<call>>))
           q == [req[r] EXCEPT !.pc = "describing", !.operation = call, !.id = p,
                               !.turn = turn]
<1>1. call \in Operations
  BY ProposedCallType DEF ProposeWrite
<1>2. req' = [req EXCEPT ![r] = q] /\ req[r].pc = "model"
      /\ fate' = [fate EXCEPT ![p] = "drafted"] /\ write' = [write EXCEPT ![p] = call]
      /\ UNCHANGED <<store, busy, wire, applied, answer>>
  BY DEF ProposeWrite
<1> HIDE DEF call
<1>3. turn \in Seq(Messages)
  <2>1. <<call>> \in Seq(Operations)
    BY <1>1
  <2>2. AssistantMessage(<<call>>) \in Messages
    BY <2>1, MessageTypes
  <2>3. req[r].turn \in Seq(Messages)
    BY RequestFields
  <2>4. QED
    BY <2>2, <2>3
<1> HIDE DEF turn
<1>4. GoodRequest(q)
  BY <1>1, <1>2, <1>3, RequestFields DEF GoodRequest, HoldsWrite, RequestStates, Awaits
<1> HIDE DEF q
<1>5. RequestTypes'
  BY <1>2, <1>4, RequestStep DEF TypeInv
<1>6. QED
  BY <1>1, <1>2, <1>5, FateTypes, FateNames DEF TypeInv, StoreTypes, WriteTypes, store

\* The ends of a turn that leave no write running.
LEMMA EndTypes ==
  ASSUME TypeInv, NEW r \in Requests,
         AnswerText(r) \/ SetPendingConfirmation(r) \/ AbortTurn(r) \/ DescriberFails(r)
  PROVE  TypeInv'
<1>1. req[r].session \in Sessions
      /\ (req[r].pc = "describing" => req[r].id \in Proposals /\ req[r].operation \in Operations)
  BY RequestFields DEF AnswerText, SetPendingConfirmation, AbortTurn, DescriberFails, HoldsWrite
<1>2. CASE AnswerText(r)
  <2>1. Append(req[r].turn, FinalText) \in Seq(Messages)
    BY MessageTypes, RequestFields
  <2>2. messages' \in [Sessions -> Seq(Messages)]
    BY <1>1, <1>2, <2>1, AppendTurnTypes DEF AnswerText, TypeInv
  <2>3. QED
    BY <1>2, <2>2, ReleaseTypes DEF AnswerText, TypeInv, StoreTypes, WriteTypes, server
<1>3. CASE SetPendingConfirmation(r)
  <2> DEFINE new == [operation |-> req[r].operation, turn |-> req[r].turn, id |-> req[r].id]
  <2>1. new \in PendingConfirmations
    BY <1>1, <1>3, RequestFields DEF SetPendingConfirmation, PendingConfirmations
  <2>2. pending' = [pending EXCEPT ![req[r].session] = new]
    BY <1>3 DEF SetPendingConfirmation
  <2> HIDE DEF new
  <2>3. fate' \in [Proposals -> Fates]
    BY <1>1, <1>3, FateTypes, FateNames DEF SetPendingConfirmation, TypeInv
  <2>4. pending' \in [Sessions -> PendingConfirmations \cup {None}]
    BY <1>1, <2>1, <2>2 DEF TypeInv, StoreTypes
  <2>5. QED
    BY <1>3, <2>3, <2>4, ReleaseTypes
       DEF SetPendingConfirmation, TypeInv, StoreTypes, WriteTypes, server
<1>4. CASE AbortTurn(r)
  BY <1>1, <1>4, ReleaseTypes DEF AbortTurn, TypeInv, StoreTypes, WriteTypes, store, server
<1>5. CASE DescriberFails(r)
  <2>1. fate' \in [Proposals -> Fates]
    BY <1>1, <1>5, FateTypes, FateNames DEF DescriberFails, TypeInv, WriteTypes
  <2>2. QED
    BY <1>5, <2>1, ReleaseTypes
       DEF DescriberFails, TypeInv, StoreTypes, WriteTypes, store, server
<1>6. QED
  BY <1>2, <1>3, <1>4, <1>5

LEMMA ResumeWriteTypes ==
  ASSUME TypeInv, NEW r \in Requests, ResumeWrite(r)
  PROVE  TypeInv'
<1>1. /\ req[r].pc \in {"writing", "explaining"}
      /\ req[r].session \in Sessions /\ req[r].id \in Proposals
      /\ req[r].operation \in Operations /\ req[r].turn \in Seq(Messages)
  BY RequestFields DEF ResumeWrite, WriteOutcomeUnknown, WriteRejected, WriteSucceeds,
     ExplainWrite, ExplanationInvalid, HoldsWrite
<1>2. ASSUME NEW turn \in Seq(Messages), NEW outcome \in Fates, EndWrite(r, turn, outcome)
      PROVE  TypeInv'
  <2>1. messages' \in [Sessions -> Seq(Messages)]
    BY <1>1, <1>2, AppendTurnTypes DEF EndWrite, TypeInv
  <2>2. fate' \in [Proposals -> Fates]
    BY <1>1, <1>2, FateTypes DEF EndWrite, TypeInv
  <2>3. QED
    BY <1>2, <2>1, <2>2, ReleaseTypes DEF EndWrite, TypeInv, StoreTypes, WriteTypes, server
<1>3. Append(req[r].turn, FinalText) \in Seq(Messages)
  BY <1>1, MessageTypes
<1>4. CASE WriteOutcomeUnknown(r)
  BY <1>2, <1>3, <1>4, FateNames DEF WriteOutcomeUnknown
<1>5. CASE WriteRejected(r)
  <2>1. <<ToolMessage(1, "error"), FinalText>> \in Seq(Messages)
    BY MessageTypes
  <2>2. req[r].turn \o <<ToolMessage(1, "error"), FinalText>> \in Seq(Messages)
    BY <1>1, <2>1
  <2>3. QED
    BY <1>2, <1>5, <2>2, FateNames DEF WriteRejected
<1>6. CASE WriteSucceeds(r)
  <2> DEFINE turn == Append(req[r].turn, ToolMessage(1, "ok"))
             q == [req[r] EXCEPT !.pc = "explaining", !.turn = turn]
  <2>1. turn \in Seq(Messages)
    BY <1>1, MessageTypes
  <2>2. req' = [req EXCEPT ![r] = q] /\ UNCHANGED <<store, busy, server, fate>>
    BY <1>6 DEF WriteSucceeds
  <2> HIDE DEF turn
  <2>3. q \in RequestStates /\ q.pc = "explaining" /\ q.session = req[r].session
        /\ q.id = req[r].id /\ q.operation = req[r].operation
    <3>1. req[r] \in RequestStates /\ "explaining" \in Awaits
      BY RequestFields DEF Awaits
    <3>2. QED
      BY <2>1, <3>1 DEF RequestStates
  <2>4. GoodRequest(q)
    BY <1>1, <2>3 DEF GoodRequest, HoldsWrite
  <2> HIDE DEF q
  <2>5. RequestTypes'
    BY <2>2, <2>4, RequestStep DEF TypeInv
  <2>6. QED
    BY <2>2, <2>5 DEF TypeInv, StoreTypes, WriteTypes, store, server
<1>7. CASE ExplainWrite(r)
  BY <1>2, <1>3, <1>7, FateNames DEF ExplainWrite
<1>8. CASE ExplanationInvalid(r)
  <2>1. fate' \in [Proposals -> Fates]
    BY <1>1, <1>8, FateTypes, FateNames DEF ExplanationInvalid, TypeInv
  <2>2. QED
    BY <1>8, <2>1, ReleaseTypes
       DEF ExplanationInvalid, TypeInv, StoreTypes, WriteTypes, store, server
<1>9. QED
  BY <1>4, <1>5, <1>6, <1>7, <1>8 DEF ResumeWrite

LEMMA McpStepTypes ==
  ASSUME TypeInv, NEW p \in Proposals, McpApplies(p) \/ McpRefuses(p) \/ McpAppliesThenFails(p)
  PROVE  TypeInv'
<1>1. PICK result \in {"ok", "error"} : McpHandles(p, result)
  BY DEF McpApplies, McpRefuses, McpAppliesThenFails
<1>2. applied' \in [Proposals -> Nat]
  BY DEF McpApplies, McpRefuses, McpAppliesThenFails, Execute, TypeInv, WriteTypes
<1>3. wire' \in [Proposals -> Nat]
  <2>1. wire[p] - 1 \in Nat
    BY <1>1 DEF McpHandles, TypeInv, WriteTypes
  <2>2. QED
    BY <1>1, <2>1 DEF McpHandles, TypeInv, WriteTypes
<1>4. answer' \in [Proposals -> {"none", "ok", "error"}]
  BY <1>1 DEF McpHandles, TypeInv, WriteTypes
<1>5. QED
  BY <1>1, <1>2, <1>3, <1>4, RequestsUnchanged
     DEF McpHandles, TypeInv, StoreTypes, WriteTypes, store

LEMMA TypeStep == TypeInv /\ [Next]_vars => TypeInv'
<1> SUFFICES ASSUME TypeInv, [Next]_vars PROVE TypeInv'
  OBVIOUS
<1>1. ASSUME NEW r \in Requests, ResumeRun(r)
      PROVE  TypeInv'
  BY <1>1, CompactionTypes, ReadTypes, ProposalTypes, EndTypes DEF ResumeRun
<1>2. CASE Next
  BY <1>1, <1>2, SessionStepTypes, SendStepTypes, ResumeWriteTypes, McpStepTypes
     DEF Next, Resume
<1>3. CASE UNCHANGED vars
  BY <1>3, RequestsUnchanged DEF vars, TypeInv, StoreTypes, WriteTypes
<1>4. QED
  BY <1>2, <1>3

LEMMA TypesHold == Spec => []TypeInv
BY InitTypes, TypeStep, PTL DEF Spec

\* Every reachable state is well typed, whatever the model and the servers answer.
THEOREM ChatTypesCorrect == Spec => []TypeOK
<1>1. TypeInv => TypeOK
  BY DEF TypeInv, TypeOK, StoreTypes, RequestTypes, WriteTypes
<1>2. QED
  BY <1>1, TypesHold, PTL

-----------------------------------------------------------------------------
(* Turns are serialised.                                                   *)

LEMMA CurrentStep ==
  ASSUME TypeInv, ContextIsCurrent, [Next]_vars
  PROVE  ContextIsCurrent'
<1> USE DEF Active
<1>0. \A q \in Requests : Active(q) => req[q].session \in Sessions
  BY RequestFields
<1>1. ASSUME NEW r \in Requests, Release(r),
             \A t \in Sessions \ {req[r].session} : messages'[t] = messages[t],
             Active(r)
      PROVE  ContextIsCurrent'
  <2>1. \A q \in Requests \ {r} : req'[q] = req[q]
    BY <1>1 DEF Release
  <2>2. req'[r].pc = "idle"
    BY <1>1 DEF Release, TypeInv, RequestTypes, IdleRequest
  <2>3. \A q \in Requests \ {r} : Active(q) => req[q].session # req[r].session
    BY <1>1 DEF ContextIsCurrent
  <2>4. busy' = busy \ {req[r].session}
    BY <1>1 DEF Release
  <2>5. QED
    BY <1>0, <1>1, <2>1, <2>2, <2>3, <2>4 DEF ContextIsCurrent
<1>2. ASSUME NEW r \in Requests, NEW s \in Sessions, NEW q, Accepts(r, s),
             q.session = s, q.context = messages[s], req' = [req EXCEPT ![r] = q],
             busy' = busy \cup {s}, messages' = messages
      PROVE  ContextIsCurrent'
  <2>1. req'[r] = q /\ \A o \in Requests \ {r} : req'[o] = req[o]
    BY <1>2 DEF TypeInv, RequestTypes
  <2>2. \A o \in Requests : Active(o) => req[o].session # s
    BY <1>2 DEF Accepts, ContextIsCurrent
  <2>3. QED
    BY <1>2, <2>1, <2>2 DEF ContextIsCurrent
<1>3. ASSUME NEW r \in Requests, NEW q, Active(r), q.session = req[r].session,
             q.context = req[r].context, req' = [req EXCEPT ![r] = q],
             UNCHANGED <<messages, busy>>
      PROVE  ContextIsCurrent'
  <2>1. req'[r] = q /\ \A o \in Requests \ {r} : req'[o] = req[o]
    BY <1>3 DEF TypeInv, RequestTypes
  <2>2. QED
    BY <1>3, <2>1 DEF ContextIsCurrent
<1>4. ASSUME UNCHANGED <<messages, busy, req>>
      PROVE  ContextIsCurrent'
  BY <1>4 DEF ContextIsCurrent
<1>5. ASSUME NEW s \in Sessions, CreateSession(s) \/ CloseSession(s)
      PROVE  ContextIsCurrent'
  <2>1. CASE CreateSession(s)
    BY <1>4, <2>1 DEF CreateSession
  <2>2. CASE CloseSession(s)
    BY <1>0, <2>2 DEF CloseSession, ContextIsCurrent, TypeInv, StoreTypes
  <2>3. QED
    BY <1>5, <2>1, <2>2
<1>6. ASSUME NEW r \in Requests, NEW s \in Sessions, SendMessage(r, s)
      PROVE  ContextIsCurrent'
  <2>1. CASE BeginTurn(r, s)
    BY <1>2, <2>1 DEF BeginTurn, store
  <2>2. CASE \E text \in Texts : CancelPending(r, s, text)
    BY <1>4, <2>2 DEF CancelPending
  <2>3. CASE \E text \in Texts : ConfirmPending(r, s, text)
    BY <1>2, <2>3 DEF ConfirmPending
  <2>4. QED
    BY <1>6, <2>1, <2>2, <2>3 DEF SendMessage
<1>7. ASSUME NEW r \in Requests, ResumeRun(r)
      PROVE  ContextIsCurrent'
  <2>1. Active(r) /\ req[r] \in RequestStates /\ req[r].session \in Sessions
    BY ZenonT(40), <1>7, RequestFields DEF ResumeRun, Compact, CompactionFails, AnswerText,
       CompleteReads, SetPendingConfirmation, AbortTurn, DescriberFails, RequestReads,
       ProposeWrite
  <2>2. CASE Compact(r)
    <3> DEFINE recent == RecentMessages(req[r].context)
               q == [req[r] EXCEPT !.pc = "model", !.context = recent]
    <3>1. /\ messages' = [messages EXCEPT ![req[r].session] = recent]
          /\ req' = [req EXCEPT ![r] = q] /\ busy' = busy
      BY <2>2 DEF Compact, ApplyCompaction
    <3> HIDE DEF recent
    <3>2. q.session = req[r].session /\ q.context = recent
      BY <2>1 DEF RequestStates
    <3> HIDE DEF q
    <3>3. req'[r] = q /\ \A o \in Requests \ {r} : req'[o] = req[o]
      BY <3>1 DEF TypeInv, RequestTypes
    <3>4. \A o \in Requests \ {r} : Active(o) => req[o].session # req[r].session
      BY <2>1 DEF ContextIsCurrent
    <3>5. messages'[req[r].session] = recent
          /\ \A t \in Sessions \ {req[r].session} : messages'[t] = messages[t]
      BY <2>1, <3>1 DEF TypeInv, StoreTypes
    <3>6. QED
      BY <1>0, <2>1, <3>1, <3>2, <3>3, <3>4, <3>5 DEF ContextIsCurrent
  <2>3. CASE CompactionFails(r)
    <3>1. [req[r] EXCEPT !.pc = "model"].session = req[r].session
          /\ [req[r] EXCEPT !.pc = "model"].context = req[r].context
      BY <2>1 DEF RequestStates
    <3>2. QED
      BY <1>3, <2>1, <2>3, <3>1 DEF CompactionFails, store
  <2>4. CASE AnswerText(r)
    BY <1>1, <2>1, <2>4 DEF AnswerText, AppendCompletedTurn, TypeInv, StoreTypes
  <2>5. CASE CompleteReads(r)
    <3>1. PICK turn, round :
            req' = [req EXCEPT ![r].pc = "model", ![r].round = round, ![r].turn = turn]
      BY <2>5 DEF CompleteReads
    <3> DEFINE q == [req[r] EXCEPT !.pc = "model", !.round = round, !.turn = turn]
    <3>2. q.session = req[r].session /\ q.context = req[r].context
      BY <2>1 DEF RequestStates
    <3>3. req' = [req EXCEPT ![r] = q]
      BY <3>1
    <3> HIDE DEF q
    <3>4. QED
      BY <1>3, <2>1, <2>5, <3>2, <3>3 DEF CompleteReads, store
  <2>6. CASE SetPendingConfirmation(r)
    BY <1>1, <2>1, <2>6 DEF SetPendingConfirmation
  <2>7. CASE AbortTurn(r) \/ DescriberFails(r)
    BY <1>1, <2>1, <2>7 DEF AbortTurn, DescriberFails, store
  <2>8. ASSUME NEW calls \in Replies, RequestReads(r, calls)
        PROVE  ContextIsCurrent'
    <3> DEFINE q == [req[r] EXCEPT !.pc = "reading",
                       !.turn = Append(@, AssistantMessage(calls))]
    <3>1. q.session = req[r].session /\ q.context = req[r].context
      BY <2>1 DEF RequestStates
    <3>2. req' = [req EXCEPT ![r] = q] /\ UNCHANGED <<messages, busy>>
      BY <2>8 DEF RequestReads, store
    <3> HIDE DEF q
    <3>3. QED
      BY <1>3, <2>1, <3>1, <3>2
  <2>9. ASSUME NEW calls \in Replies, NEW p \in Proposals, ProposeWrite(r, calls, p)
        PROVE  ContextIsCurrent'
    <3> DEFINE q == [req[r] EXCEPT !.pc = "describing", !.operation = ProposedCall(calls),
                       !.id = p, !.turn = Append(@, AssistantMessage(<<ProposedCall(calls)>>))]
    <3>1. q.session = req[r].session /\ q.context = req[r].context
      BY <2>1 DEF RequestStates
    <3>2. req' = [req EXCEPT ![r] = q] /\ UNCHANGED <<messages, busy>>
      BY <2>9 DEF ProposeWrite, store
    <3> HIDE DEF q
    <3>3. QED
      BY <1>3, <2>1, <3>1, <3>2
  <2>10. QED
    BY <1>7, <2>2, <2>3, <2>4, <2>5, <2>6, <2>7, <2>8, <2>9 DEF ResumeRun
<1>8. ASSUME NEW r \in Requests, ResumeWrite(r)
      PROVE  ContextIsCurrent'
  <2>1. Active(r) /\ req[r] \in RequestStates /\ req[r].session \in Sessions
    BY <1>8, RequestFields DEF ResumeWrite, WriteOutcomeUnknown, WriteRejected,
       WriteSucceeds, ExplainWrite, ExplanationInvalid
  <2>2. ASSUME NEW turn, NEW outcome, EndWrite(r, turn, outcome)
        PROVE  ContextIsCurrent'
    BY <1>1, <2>1, <2>2 DEF EndWrite, AppendCompletedTurn, TypeInv, StoreTypes
  <2>3. CASE WriteSucceeds(r)
    <3> DEFINE q == [req[r] EXCEPT !.pc = "explaining",
                       !.turn = Append(@, ToolMessage(1, "ok"))]
    <3>1. q.session = req[r].session /\ q.context = req[r].context
      BY <2>1 DEF RequestStates
    <3>2. req' = [req EXCEPT ![r] = q] /\ UNCHANGED <<messages, busy>>
      BY <2>3 DEF WriteSucceeds, store
    <3> HIDE DEF q
    <3>3. QED
      BY <1>3, <2>1, <3>1, <3>2
  <2>4. CASE ExplanationInvalid(r)
    BY <1>1, <2>1, <2>4 DEF ExplanationInvalid, store
  <2>5. QED
    BY <1>8, <2>2, <2>3, <2>4 DEF ResumeWrite, WriteOutcomeUnknown, WriteRejected,
       ExplainWrite
<1>9. ASSUME NEW p \in Proposals, McpApplies(p) \/ McpRefuses(p) \/ McpAppliesThenFails(p)
      PROVE  ContextIsCurrent'
  BY <1>4, <1>9 DEF McpApplies, McpRefuses, McpAppliesThenFails, Execute, McpHandles, store
<1>10. CASE UNCHANGED vars
  BY <1>4, <1>10 DEF vars
<1>11. QED
  BY <1>5, <1>6, <1>7, <1>8, <1>9, <1>10 DEF Next, Resume

(* A session's turns never overlap and each uses the history it started    *)
(* from, for any number of sessions and concurrent requests.               *)
THEOREM TurnsAreSerialised == Spec => []ContextIsCurrent
<1>1. Init => ContextIsCurrent
  BY DEF Init, ContextIsCurrent, Active, IdleRequest
<1>2. TypeInv /\ ContextIsCurrent /\ [Next]_vars => ContextIsCurrent'
  BY CurrentStep
<1>3. QED
  BY <1>1, <1>2, TypesHold, PTL DEF Spec

-----------------------------------------------------------------------------
(* What a session is busy with, and for how long.  Every step is a step of *)
(* one request at most, and of one of three kinds: it takes a session, it  *)
(* goes on to an await with fewer left behind it, or it gives its session  *)
(* back.  Both properties follow from this alone.                          *)

Takes(r, q) ==
  /\ ~Active(r) /\ q.pc # "idle"
  /\ q.session \in Sessions /\ busy' = busy \cup {q.session}

GoesOn(r, q) ==
  /\ Active(r) /\ q.pc # "idle" /\ q.session = req[r].session /\ busy' = busy
  /\ AwaitsLeft(q) \in 0..(AwaitsLeft(req[r]) - 1)

GivesBack(r, q) ==
  Active(r) /\ q = IdleRequest /\ busy' = busy \ {req[r].session}

Moves(r, q) ==
  /\ req' = [req EXCEPT ![r] = q]
  /\ Takes(r, q) \/ GoesOn(r, q) \/ GivesBack(r, q)

ARequestMoves == \E r \in Requests : \E q : Moves(r, q)
NoRequestMoves == UNCHANGED <<req, busy>>

\* A request in an await has a positive number of them left.
LEMMA AwaitsArePositive ==
  ASSUME TypeInv, NEW r \in Requests
  PROVE  /\ AwaitsLeft(req[r]) \in 0..7
         /\ Active(r) => AwaitsLeft(req[r]) > 0
<1>1. req[r].pc \in Awaits \cup {"idle"} /\ req[r].round \in 0..2
  BY RequestFields DEF RequestStates
<1>2. req[r].pc = "reading" => req[r].round < 2
  BY RequestFields DEF GoodRequest
<1>3. QED
  BY <1>1, <1>2 DEF AwaitsLeft, Awaits, Active

\* Whatever a handler awaits, it has released its session when it returns.
LEMMA ReleaseGivesBack ==
  ASSUME NEW r \in Requests, Active(r), Release(r)
  PROVE  ARequestMoves
<1>1. Moves(r, IdleRequest)
  BY DEF Release, Moves, GivesBack
<1>2. QED
  BY <1>1 DEF ARequestMoves

LEMMA SendMoves ==
  ASSUME NEW r \in Requests, NEW s \in Sessions, SendMessage(r, s)
  PROVE  ARequestMoves \/ NoRequestMoves
<1>1. ASSUME NEW q, Accepts(r, s), q.pc # "idle", q.session = s,
             req' = [req EXCEPT ![r] = q], busy' = busy \cup {s}
      PROVE  ARequestMoves
  BY <1>1 DEF ARequestMoves, Moves, Takes, Accepts, Active
<1>2. CASE BeginTurn(r, s)
  BY <1>1, <1>2 DEF BeginTurn
<1>3. CASE \E text \in Texts : CancelPending(r, s, text)
  BY <1>3 DEF CancelPending, NoRequestMoves
<1>4. CASE \E text \in Texts : ConfirmPending(r, s, text)
  BY <1>1, <1>4 DEF ConfirmPending
<1>5. QED
  BY <1>2, <1>3, <1>4 DEF SendMessage

\* A request that only changes its await and what it has gathered goes on.
LEMMA StepGoesOn ==
  ASSUME NEW r \in Requests, NEW q, req' = [req EXCEPT ![r] = q], busy' = busy,
         Active(r), q.pc # "idle", q.session = req[r].session,
         AwaitsLeft(q) \in 0..(AwaitsLeft(req[r]) - 1)
  PROVE  ARequestMoves
BY DEF ARequestMoves, Moves, GoesOn

LEMMA RunMoves ==
  ASSUME TypeInv, NEW r \in Requests, ResumeRun(r)
  PROVE  ARequestMoves
<1>1. req[r] \in RequestStates /\ req[r].round \in 0..2
  BY RequestFields
<1>2. CASE Compact(r)
  <2> DEFINE q == [req[r] EXCEPT !.pc = "model", !.context = RecentMessages(req[r].context)]
  <2>1. req' = [req EXCEPT ![r] = q] /\ busy' = busy /\ req[r].pc = "compacting"
    BY <1>2 DEF Compact
  <2>2. q.pc = "model" /\ q.session = req[r].session /\ q.round = req[r].round
    BY <1>1 DEF RequestStates
  <2> HIDE DEF q
  <2>3. AwaitsLeft(q) \in 0..(AwaitsLeft(req[r]) - 1)
    BY <1>1, <2>1, <2>2 DEF AwaitsLeft
  <2>4. QED
    BY <2>1, <2>2, <2>3, StepGoesOn DEF Active
<1>3. CASE CompactionFails(r)
  <2> DEFINE q == [req[r] EXCEPT !.pc = "model"]
  <2>1. req' = [req EXCEPT ![r] = q] /\ busy' = busy /\ req[r].pc = "compacting"
    BY <1>3 DEF CompactionFails
  <2>2. q.pc = "model" /\ q.session = req[r].session /\ q.round = req[r].round
    BY <1>1 DEF RequestStates
  <2> HIDE DEF q
  <2>3. AwaitsLeft(q) \in 0..(AwaitsLeft(req[r]) - 1)
    BY <1>1, <2>1, <2>2 DEF AwaitsLeft
  <2>4. QED
    BY <2>1, <2>2, <2>3, StepGoesOn DEF Active
<1>4. CASE CompleteReads(r)
  <2>1. PICK turn :
          req' = [req EXCEPT ![r].pc = "model", ![r].round = @ + 1, ![r].turn = turn]
    BY <1>4 DEF CompleteReads
  <2> DEFINE q == [req[r] EXCEPT !.pc = "model", !.round = @ + 1, !.turn = turn]
  <2>2. req' = [req EXCEPT ![r] = q]
    BY ZenonT(40), <2>1
  <2>3. busy' = busy /\ req[r].pc = "reading"
    BY <1>4 DEF CompleteReads
  <2>4. q.pc = "model" /\ q.session = req[r].session /\ q.round = req[r].round + 1
    BY <1>1 DEF RequestStates
  <2>5. req[r].round < 2
    BY <2>3, RequestFields DEF GoodRequest
  <2> HIDE DEF q
  <2>6. AwaitsLeft(q) \in 0..(AwaitsLeft(req[r]) - 1)
    BY <1>1, <2>3, <2>4, <2>5 DEF AwaitsLeft
  <2>7. QED
    BY <2>2, <2>3, <2>4, <2>6, StepGoesOn DEF Active
<1>5. ASSUME NEW calls \in Replies, RequestReads(r, calls)
      PROVE  ARequestMoves
  <2> DEFINE q == [req[r] EXCEPT !.pc = "reading",
                     !.turn = Append(@, AssistantMessage(calls))]
  <2>1. req' = [req EXCEPT ![r] = q] /\ busy' = busy
        /\ req[r].pc = "model" /\ req[r].round < 2
    BY <1>5 DEF RequestReads
  <2>2. q.pc = "reading" /\ q.session = req[r].session /\ q.round = req[r].round
    BY <1>1 DEF RequestStates
  <2> HIDE DEF q
  <2>3. AwaitsLeft(q) \in 0..(AwaitsLeft(req[r]) - 1)
    BY <1>1, <2>1, <2>2 DEF AwaitsLeft
  <2>4. QED
    BY <2>1, <2>2, <2>3, StepGoesOn DEF Active
<1>6. ASSUME NEW calls \in Replies, NEW p \in Proposals, ProposeWrite(r, calls, p)
      PROVE  ARequestMoves
  <2> DEFINE q == [req[r] EXCEPT !.pc = "describing", !.operation = ProposedCall(calls),
                     !.id = p, !.turn = Append(@, AssistantMessage(<<ProposedCall(calls)>>))]
  <2>1. req' = [req EXCEPT ![r] = q] /\ busy' = busy
        /\ req[r].pc = "model" /\ req[r].round < 2
    BY <1>6 DEF ProposeWrite
  <2>2. q.pc = "describing" /\ q.session = req[r].session
    BY <1>1 DEF RequestStates
  <2> HIDE DEF q
  <2>3. AwaitsLeft(q) \in 0..(AwaitsLeft(req[r]) - 1)
    BY <1>1, <2>1, <2>2 DEF AwaitsLeft
  <2>4. QED
    BY <2>1, <2>2, <2>3, StepGoesOn DEF Active
<1>7. CASE AnswerText(r) \/ SetPendingConfirmation(r) \/ AbortTurn(r) \/ DescriberFails(r)
  <2>1. Release(r) /\ Active(r)
    BY <1>7 DEF AnswerText, SetPendingConfirmation, AbortTurn, DescriberFails, Active
  <2>2. QED
    BY <2>1, ReleaseGivesBack
<1>8. QED
  BY <1>2, <1>3, <1>4, <1>5, <1>6, <1>7 DEF ResumeRun

LEMMA WriteMoves ==
  ASSUME TypeInv, NEW r \in Requests, ResumeWrite(r)
  PROVE  ARequestMoves
<1>1. CASE WriteSucceeds(r)
  <2> DEFINE q == [req[r] EXCEPT !.pc = "explaining",
                     !.turn = Append(@, ToolMessage(1, "ok"))]
  <2>1. req' = [req EXCEPT ![r] = q] /\ busy' = busy /\ req[r].pc = "writing"
    BY <1>1 DEF WriteSucceeds
  <2>2. q.pc = "explaining" /\ q.session = req[r].session
    BY RequestFields DEF RequestStates
  <2> HIDE DEF q
  <2>3. AwaitsLeft(q) \in 0..(AwaitsLeft(req[r]) - 1)
    BY <2>1, <2>2 DEF AwaitsLeft
  <2>4. QED
    BY <2>1, <2>2, <2>3, StepGoesOn DEF Active
<1>2. CASE WriteOutcomeUnknown(r) \/ WriteRejected(r) \/ ExplainWrite(r) \/ ExplanationInvalid(r)
  <2>1. Release(r) /\ Active(r)
    BY <1>2 DEF WriteOutcomeUnknown, WriteRejected, ExplainWrite, ExplanationInvalid,
       EndWrite, Active
  <2>2. QED
    BY <2>1, ReleaseGivesBack
<1>3. QED
  BY <1>1, <1>2 DEF ResumeWrite

LEMMA OneRequestMoves == TypeInv /\ [Next]_vars => ARequestMoves \/ NoRequestMoves
<1> SUFFICES ASSUME TypeInv, [Next]_vars PROVE ARequestMoves \/ NoRequestMoves
  OBVIOUS
<1>1. ASSUME NEW s \in Sessions, CreateSession(s) \/ CloseSession(s)
      PROVE  NoRequestMoves
  BY <1>1 DEF CreateSession, CloseSession, NoRequestMoves
<1>2. ASSUME NEW p \in Proposals, McpApplies(p) \/ McpRefuses(p) \/ McpAppliesThenFails(p)
      PROVE  NoRequestMoves
  BY <1>2 DEF McpApplies, McpRefuses, McpAppliesThenFails, McpHandles, NoRequestMoves
<1>3. CASE UNCHANGED vars
  BY <1>3 DEF vars, NoRequestMoves
<1>4. CASE Next
  BY <1>1, <1>2, <1>4, SendMoves, RunMoves, WriteMoves DEF Next, Resume
<1>5. QED
  BY <1>3, <1>4

LEMMA OwnersStay ==
  ASSUME TypeInv, ContextIsCurrent, BusyIsOwned, [Next]_vars
  PROVE  BusyIsOwned'
<1>1. CASE NoRequestMoves
  BY <1>1 DEF NoRequestMoves, BusyIsOwned, Active
<1>2. ASSUME NEW r \in Requests, NEW q, Moves(r, q)
      PROVE  BusyIsOwned'
  <2>1. req'[r] = q /\ \A o \in Requests \ {r} : req'[o] = req[o]
    BY <1>2 DEF Moves, TypeInv, RequestTypes
  <2>2. SUFFICES ASSUME NEW s \in busy'
                 PROVE  \E o \in Requests : req'[o].pc # "idle" /\ req'[o].session = s
    BY DEF BusyIsOwned, Active
  <2>3. CASE Takes(r, q)
    <3>1. CASE s = q.session
      BY <2>1, <2>3, <3>1 DEF Takes
    <3>2. CASE s \in busy
      <4>1. PICK o \in Requests : Active(o) /\ req[o].session = s
        BY <3>2 DEF BusyIsOwned
      <4>2. QED
        BY <2>1, <2>3, <4>1 DEF Takes, Active
    <3>3. QED
      BY <2>3, <3>1, <3>2 DEF Takes
  <2>4. CASE GoesOn(r, q)
    <3>1. PICK o \in Requests : Active(o) /\ req[o].session = s
      BY <2>4 DEF GoesOn, BusyIsOwned
    <3>2. QED
      BY <2>1, <2>4, <3>1 DEF GoesOn, Active
  <2>5. CASE GivesBack(r, q)
    <3>1. s \in busy /\ s # req[r].session
      BY <2>5 DEF GivesBack
    <3>2. PICK o \in Requests : Active(o) /\ req[o].session = s
      BY <3>1 DEF BusyIsOwned
    <3>3. QED
      BY <2>1, <3>1, <3>2 DEF Active
  <2>6. QED
    BY <1>2, <2>3, <2>4, <2>5 DEF Moves
<1>3. QED
  BY <1>1, <1>2, OneRequestMoves DEF ARequestMoves

(* No session is left busy by a request that is gone: a busy session is    *)
(* owned by one of its requests, which is in an await, for any number of   *)
(* sessions, requests and replies and whatever fails on the way.           *)
THEOREM BusySessionsAreOwned == Spec => []BusyIsOwned
<1>1. Init => BusyIsOwned
  BY DEF Init, BusyIsOwned
<1>2. TypeInv /\ ContextIsCurrent /\ BusyIsOwned /\ [Next]_vars => BusyIsOwned'
  BY OwnersStay
<1>3. QED
  BY <1>1, <1>2, TypesHold, TurnsAreSerialised, PTL DEF Spec

(* So a busy session has exactly one turn, which works on what the session *)
(* holds.                                                                  *)
THEOREM BusySessionsHaveOneTurn == Spec => []BusyWithOneTurn
BY TurnsAreSerialised, BusySessionsAreOwned, PTL DEF BusyWithOneTurn

(* And its owner does not keep it for ever by moving: each of its steps    *)
(* takes one of at most seven awaits away, whatever the model asks for.    *)
THEOREM TurnsHaveAnEnd == Spec => TurnsRunOut
<1> DEFINE Shorter(r) ==
      Active(r) /\ req'[r] # req[r] =>
        /\ AwaitsLeft(req'[r]) \in 0..(AwaitsLeft(req[r]) - 1)
        /\ req'[r].pc # "idle" => req'[r].session = req[r].session
<1>1. ASSUME TypeInv, [Next]_vars, NEW r \in Requests
      PROVE  Shorter(r)
  <2>1. CASE NoRequestMoves
    BY <2>1 DEF NoRequestMoves
  <2>2. ASSUME NEW o \in Requests, NEW q, Moves(o, q)
        PROVE  Shorter(r)
    <3>1. req'[o] = q /\ (r # o => req'[r] = req[r])
      BY <1>1, <2>2 DEF Moves, TypeInv, RequestTypes
    <3>2. CASE r # o
      BY <3>1, <3>2
    <3>3. CASE r = o /\ Takes(r, q)
      BY <3>3 DEF Takes
    <3>4. CASE r = o /\ GoesOn(r, q)
      BY <3>1, <3>4 DEF GoesOn
    <3>5. CASE r = o /\ GivesBack(r, q)
      <4>1. req'[r].pc = "idle" /\ AwaitsLeft(req'[r]) = 0
        BY <3>1, <3>5 DEF GivesBack, IdleRequest, AwaitsLeft
      <4>2. QED
        BY <1>1, <3>5, <4>1, AwaitsArePositive DEF GivesBack
    <3>6. QED
      BY <2>2, <3>2, <3>3, <3>4, <3>5 DEF Moves
  <2>3. QED
    BY <1>1, <2>1, <2>2, OneRequestMoves DEF ARequestMoves
<1>2. TypeInv /\ [Next]_vars => [\A r \in Requests : Shorter(r)]_vars
  BY <1>1
<1>3. QED
  BY <1>2, TypesHold, PTL DEF Spec, TurnsRunOut

-----------------------------------------------------------------------------
(* The life of a write.  A proposal is held by at most one place: a        *)
(* session's pending slot or one request; and the server's view of it is   *)
(* one of five stages, the first until the user confirms.                  *)

Unsent(p) == wire[p] = 0 /\ applied[p] = 0 /\ answer[p] = "none"
Sent(p) == wire[p] = 1 /\ applied[p] = 0 /\ answer[p] = "none"
Done(p) == wire[p] = 0 /\ applied[p] = 1 /\ answer[p] = "ok"
Declined(p) == wire[p] = 0 /\ applied[p] = 0 /\ answer[p] = "error"
Botched(p) == /\ wire[p] = 0 /\ applied[p] = 1 /\ answer[p] = "error"
              /\ write[p].tool \notin AtomicTools

ServerStages ==
  \A p \in Proposals :
    /\ Unsent(p) \/ Sent(p) \/ Done(p) \/ Declined(p) \/ Botched(p)
    /\ ConfirmedByUser(p) <=> ~Unsent(p)
    /\ fate[p] = "succeeded" => Done(p)
    /\ fate[p] = "rejected" => Declined(p) \/ Botched(p)

FateOfHolder(q) == IF q.pc = "describing" THEN "drafted" ELSE "confirmed"

PendingHolders ==
  \A s \in Sessions : pending[s] # None =>
    /\ fate[pending[s].id] = "pending"
    /\ \A t \in Sessions \ {s} : pending[t] # None => pending[t].id # pending[s].id

RequestHolders ==
  \A r \in Requests : HoldsWrite(req[r]) =>
    /\ fate[req[r].id] = FateOfHolder(req[r])
    /\ req[r].pc = "explaining" => Done(req[r].id)
    /\ \A q \in Requests \ {r} : HoldsWrite(req[q]) => req[q].id # req[r].id

WriteInv == ServerStages /\ PendingHolders /\ RequestHolders

IInv == TypeInv /\ WriteInv

LEMMA WriteInit == Init => WriteInv
<1>1. Init => ServerStages
  BY DEF Init, ServerStages, Unsent, ConfirmedByUser, Reported
<1>2. Init => PendingHolders /\ RequestHolders
  BY DEF Init, PendingHolders, RequestHolders, HoldsWrite, IdleRequest
<1>3. QED
  BY <1>1, <1>2 DEF WriteInv

LEMMA ReleaseHolds ==
  ASSUME TypeInv, NEW r \in Requests, Release(r)
  PROVE  ~HoldsWrite(req'[r]) /\ \A q \in Requests \ {r} : req'[q] = req[q]
BY DEF Release, TypeInv, RequestTypes, IdleRequest, HoldsWrite

\* Steps that neither touch a proposal nor give a request one.
LEMMA CalmStep ==
  ASSUME WriteInv, UNCHANGED <<pending, server, fate>>,
         \A q \in Requests : ~HoldsWrite(req'[q]) \/ req'[q] = req[q]
  PROVE  WriteInv'
<1>1. ServerStages'
  BY DEF WriteInv, ServerStages, server, Unsent, Sent, Done, Declined, Botched, ConfirmedByUser
<1>2. PendingHolders'
  BY DEF WriteInv, PendingHolders
<1>3. RequestHolders'
  BY DEF WriteInv, RequestHolders, server, Done, FateOfHolder
<1>4. QED
  BY <1>1, <1>2, <1>3 DEF WriteInv

\* The history of one proposal moves on; the server's side of it stays.
LEMMA FateStep ==
  ASSUME IInv, NEW p \in Proposals, NEW f \in Fates,
         fate' = [fate EXCEPT ![p] = f], UNCHANGED <<wire, applied, answer>>,
         \A o \in Proposals : write'[o] = write[o] \/ Unsent(o),
         ConfirmedByUser(p) <=> f \in {"confirmed"} \cup Reported,
         f = "succeeded" => Done(p), f = "rejected" => Declined(p) \/ Botched(p)
  PROVE  ServerStages'
<1>1. fate'[p] = f /\ \A o \in Proposals \ {p} : fate'[o] = fate[o]
  BY DEF IInv, TypeInv, WriteTypes
<1>2. QED
  BY <1>1 DEF IInv, WriteInv, ServerStages, Unsent, Sent, Done, Declined, Botched,
     ConfirmedByUser

LEMMA CloseWrites ==
  ASSUME IInv, NEW s \in Sessions, CloseSession(s)
  PROVE  WriteInv'
<1>1. CASE pending[s] = None
  <2>1. pending' = pending
    BY <1>1 DEF CloseSession, IInv, TypeInv, StoreTypes
  <2>2. QED
    BY <1>1, <2>1, CalmStep DEF CloseSession, IInv
<1>2. CASE pending[s] # None
  <2> DEFINE p == pending[s].id
  <2>1. p \in Proposals /\ fate[p] = "pending"
    BY <1>2, PendingTypes DEF IInv, TypeInv, WriteInv, PendingHolders
  <2>2. fate' = [fate EXCEPT ![p] = "dropped"] /\ UNCHANGED <<server, req>>
        /\ pending' = [pending EXCEPT ![s] = None]
    BY <1>2 DEF CloseSession
  <2>3. ServerStages'
    BY <2>1, <2>2, FateStep, FateNames DEF server, ConfirmedByUser, Reported
  <2>4. /\ \A o \in Proposals \ {p} : fate'[o] = fate[o]
        /\ pending'[s] = None /\ \A t \in Sessions \ {s} : pending'[t] = pending[t]
    BY <2>2 DEF IInv, TypeInv, WriteTypes, StoreTypes
  <2>5. PendingHolders'
    <3>1. ASSUME NEW t \in Sessions, pending'[t] # None
          PROVE  t # s /\ pending'[t] = pending[t] /\ pending[t].id \in Proposals \ {p}
      BY <1>2, <2>4, <3>1, PendingTypes DEF IInv, TypeInv, WriteInv, PendingHolders
    <3>2. QED
      BY <2>4, <3>1 DEF IInv, WriteInv, PendingHolders
  <2>6. RequestHolders'
    BY <2>1, <2>2, <2>4, RequestFields
       DEF IInv, WriteInv, RequestHolders, FateOfHolder, server, Done
  <2>7. QED
    BY <2>3, <2>5, <2>6 DEF WriteInv
<1>3. QED
  BY <1>1, <1>2

LEMMA DecisionWrites ==
  ASSUME IInv, NEW r \in Requests, NEW s \in Sessions, NEW text \in Texts,
         CancelPending(r, s, text) \/ ConfirmPending(r, s, text)
  PROVE  WriteInv'
<1>0. pending[s] # None /\ pending[s].id \in Proposals
  BY PendingTypes DEF CancelPending, ConfirmPending, IInv, TypeInv
<1> PICK p \in Proposals : p = pending[s].id
  BY <1>0
<1>1. pending[s] # None /\ p \in Proposals /\ fate[p] = "pending"
  BY <1>0 DEF IInv, WriteInv, PendingHolders
<1>2. Unsent(p) /\ ~ConfirmedByUser(p)
  BY <1>1 DEF IInv, WriteInv, ServerStages, ConfirmedByUser, Reported
<1>3. /\ pending' = [pending EXCEPT ![s] = None] /\ req[r].pc = "idle"
      /\ fate' = Decided(p, text)
  BY DEF CancelPending, ConfirmPending, Accepts
<1>4. PICK f \in {"dropped", "confirmed"} :
        /\ fate' = [fate EXCEPT ![p] = f]
        /\ CancelPending(r, s, text) => f = "dropped"
        /\ ConfirmPending(r, s, text) => f = "confirmed"
  BY <1>3 DEF CancelPending, ConfirmPending, Decided, ClassifyConfirmationInput, Texts
<1>5. /\ fate'[p] = f /\ \A o \in Proposals \ {p} : fate'[o] = fate[o]
      /\ pending'[s] = None /\ \A t \in Sessions \ {s} : pending'[t] = pending[t]
  BY <1>1, <1>3, <1>4 DEF IInv, TypeInv, WriteTypes, StoreTypes
<1>6. PendingHolders'
  <2>1. ASSUME NEW t \in Sessions, pending'[t] # None
        PROVE  t # s /\ pending'[t] = pending[t] /\ pending[t].id \in Proposals \ {p}
    BY <1>1, <1>5, <2>1, PendingTypes DEF IInv, TypeInv, WriteInv, PendingHolders
  <2>2. QED
    BY <1>5, <2>1 DEF IInv, WriteInv, PendingHolders
<1>7. \A q \in Requests : HoldsWrite(req[q]) => req[q].id \in Proposals \ {p}
  BY <1>1, RequestFields DEF IInv, WriteInv, RequestHolders, FateOfHolder
<1>8. CASE CancelPending(r, s, text)
  <2>1. UNCHANGED <<server, req>>
    BY <1>8 DEF CancelPending
  <2>2. ServerStages'
    BY <1>1, <1>2, <1>4, <1>8, <2>1, FateStep, FateNames DEF server, Reported
  <2>3. RequestHolders'
    BY <1>5, <1>7, <2>1 DEF IInv, WriteInv, RequestHolders, FateOfHolder, server, Done
  <2>4. QED
    BY <1>6, <2>2, <2>3 DEF WriteInv
<1>9. CASE ConfirmPending(r, s, text)
  <2> DEFINE q == [pc |-> "writing", session |-> s, context |-> messages[s],
                   turn |-> pending[s].turn, round |-> 0,
                   operation |-> pending[s].operation, id |-> p]
  <2>1. /\ wire' = [wire EXCEPT ![p] = @ + 1] /\ UNCHANGED <<applied, answer, write>>
        /\ req' = [req EXCEPT ![r] = q] /\ fate'[p] = "confirmed"
    BY <1>4, <1>5, <1>9 DEF ConfirmPending
  <2> HIDE DEF q
  <2>2. wire'[p] = wire[p] + 1 /\ \A o \in Proposals \ {p} : wire'[o] = wire[o]
    BY <1>1, <2>1 DEF IInv, TypeInv, WriteTypes
  <2>3. Sent(p)' /\ ConfirmedByUser(p)' /\ fate'[p] # "succeeded" /\ fate'[p] # "rejected"
    <3>1. wire'[p] = 1 /\ applied'[p] = 0 /\ answer'[p] = "none"
      BY <1>2, <2>1, <2>2 DEF Unsent
    <3>2. QED
      BY <2>1, <3>1 DEF Sent, ConfirmedByUser
  <2>4. ~Unsent(p)'
    BY <2>3 DEF Unsent, Sent
  <2>5. \A o \in Proposals \ {p} :
          /\ Unsent(o)' = Unsent(o)
          /\ Sent(o)' = Sent(o)
          /\ Done(o)' = Done(o)
          /\ Declined(o)' = Declined(o)
          /\ Botched(o)' = Botched(o)
          /\ ConfirmedByUser(o)' = ConfirmedByUser(o)
    BY <1>5, <2>1, <2>2 DEF Unsent, Sent, Done, Declined, Botched, ConfirmedByUser
  <2>6. ServerStages'
    BY <1>5, <2>3, <2>4, <2>5 DEF IInv, WriteInv, ServerStages
  <2>7. req'[r] = q /\ \A o \in Requests \ {r} : req'[o] = req[o]
    BY <2>1 DEF IInv, TypeInv, RequestTypes
  <2>8. RequestHolders'
    <3>1. q.pc = "writing" /\ q.id = p
      BY DEF q
    <3>2. ASSUME NEW o \in Requests \ {r}, HoldsWrite(req'[o])
          PROVE  /\ fate'[req'[o].id] = FateOfHolder(req'[o])
                 /\ req'[o].pc = "explaining" => Done(req[o].id)'
                 /\ req'[o].id # p
                 /\ \A n \in Requests \ {o, r} :
                      HoldsWrite(req'[n]) => req'[n].id # req'[o].id
      <4>1. req'[o] = req[o] /\ req[o].id \in Proposals \ {p}
        BY <1>7, <2>7, <3>2
      <4>2. fate'[req[o].id] = fate[req[o].id] /\ Done(req[o].id)' = Done(req[o].id)
        BY <1>5, <2>5, <4>1
      <4>3. QED
        BY <2>7, <3>2, <4>1, <4>2 DEF IInv, WriteInv, RequestHolders, FateOfHolder
    <3>3. QED
      BY <2>1, <2>7, <3>1, <3>2 DEF RequestHolders, FateOfHolder, Done
  <2>9. QED
    BY <1>6, <2>6, <2>8 DEF WriteInv
<1>10. QED
  BY <1>8, <1>9

\* Compaction, texts and reads: whoever held a proposal still does.
LEMMA QuietRunWrites ==
  ASSUME IInv, NEW r \in Requests,
         \/ Compact(r) \/ CompactionFails(r) \/ AnswerText(r) \/ CompleteReads(r)
         \/ \E calls \in Replies : RequestReads(r, calls)
         \/ AbortTurn(r)
  PROVE  WriteInv'
<1>1. UNCHANGED <<pending, server, fate>>
  BY DEF Compact, CompactionFails, AnswerText, CompleteReads, RequestReads, AbortTurn, store
<1>2. \A q \in Requests \ {r} : req'[q] = req[q]
  BY DEF Compact, CompactionFails, AnswerText, CompleteReads, RequestReads, AbortTurn,
     Release, IInv, TypeInv, RequestTypes
<1>3. req'[r].pc \in {"model", "reading", "idle"}
  <2>1. req[r] \in RequestStates /\ req \in [Requests -> RequestStates]
    BY RequestFields DEF IInv, TypeInv, RequestTypes
  <2>2. CASE Compact(r) \/ CompactionFails(r)
    BY <2>1, <2>2 DEF Compact, CompactionFails, RequestStates
  <2>3. CASE CompleteReads(r)
    BY ZenonT(40), <2>1, <2>3 DEF CompleteReads, RequestStates
  <2>4. CASE \E calls \in Replies : RequestReads(r, calls)
    BY <2>1, <2>4 DEF RequestReads, RequestStates
  <2>5. CASE AnswerText(r) \/ AbortTurn(r)
    BY <2>1, <2>5 DEF AnswerText, AbortTurn, Release, IdleRequest
  <2>6. QED
    BY <2>2, <2>3, <2>4, <2>5
<1>4. QED
  BY <1>1, <1>2, <1>3, CalmStep DEF HoldsWrite, IInv

LEMMA ProposeWrites ==
  ASSUME IInv, NEW r \in Requests,
         NEW calls \in Replies, NEW p \in Proposals, ProposeWrite(r, calls, p)
  PROVE  WriteInv'
<1>1. /\ fate[p] = "unused" /\ fate' = [fate EXCEPT ![p] = "drafted"]
      /\ UNCHANGED <<pending, wire, applied, answer>>
      /\ write' = [write EXCEPT ![p] = ProposedCall(calls)]
  BY DEF ProposeWrite, store
<1>2. fate'[p] = "drafted" /\ \A o \in Proposals \ {p} : fate'[o] = fate[o]
  BY <1>1 DEF IInv, TypeInv, WriteTypes
<1>3. /\ req'[r].pc = "describing" /\ req'[r].id = p
      /\ \A q \in Requests \ {r} : req'[q] = req[q]
  BY RequestFields DEF ProposeWrite, IInv, TypeInv, RequestTypes, RequestStates
<1>4. ServerStages'
  <2>1. ~ConfirmedByUser(p) /\ Unsent(p)
    BY <1>1 DEF IInv, WriteInv, ServerStages, ConfirmedByUser, Reported
  <2>2. \A o \in Proposals \ {p} : write'[o] = write[o]
    BY <1>1 DEF IInv, TypeInv, WriteTypes
  <2>3. QED
    BY <1>1, <2>1, <2>2, FateStep, FateNames DEF Reported
<1>5. PendingHolders'
  <2>1. \A s \in Sessions : pending[s] # None => pending[s].id \in Proposals \ {p}
    BY <1>1, PendingTypes DEF IInv, TypeInv, WriteInv, PendingHolders
  <2>2. QED
    BY <1>1, <1>2, <2>1 DEF IInv, WriteInv, PendingHolders
<1>6. RequestHolders'
  <2>1. \A q \in Requests : HoldsWrite(req[q]) => req[q].id \in Proposals \ {p}
    BY <1>1, RequestFields DEF IInv, WriteInv, RequestHolders, FateOfHolder
  <2>2. QED
    BY <1>1, <1>2, <1>3, <2>1
       DEF IInv, WriteInv, RequestHolders, FateOfHolder, HoldsWrite, Done
<1>7. QED
  BY <1>4, <1>5, <1>6 DEF WriteInv

\* A request that ends gives up the proposal it holds, p, with fate f.
LEMMA HolderEnds ==
  ASSUME IInv, NEW r \in Requests, HoldsWrite(req[r]), Release(r),
         NEW p \in Proposals, p = req[r].id, NEW f \in Fates,
         fate' = [fate EXCEPT ![p] = f], UNCHANGED server
  PROVE  /\ RequestHolders'
         /\ \A s \in Sessions : pending[s] # None =>
              pending[s].id \in Proposals \ {p} /\ fate'[pending[s].id] = "pending"
<1>1. fate'[p] = f /\ \A o \in Proposals \ {p} : fate'[o] = fate[o]
  BY DEF IInv, TypeInv, WriteTypes
<1>2. ~HoldsWrite(req'[r]) /\ \A q \in Requests \ {r} : req'[q] = req[q]
  BY ReleaseHolds DEF IInv
<1>3. \A q \in Requests \ {r} : HoldsWrite(req[q]) => req[q].id \in Proposals \ {p}
  BY RequestFields DEF IInv, WriteInv, RequestHolders
<1>4. RequestHolders'
  BY <1>1, <1>2, <1>3 DEF IInv, WriteInv, RequestHolders, FateOfHolder, server, Done
<1>5. fate[p] # "pending"
  BY DEF IInv, WriteInv, RequestHolders, FateOfHolder
<1>6. QED
  BY <1>1, <1>4, <1>5, PendingTypes DEF IInv, TypeInv, WriteInv, PendingHolders

LEMMA DescribedWrites ==
  ASSUME IInv, NEW r \in Requests,
         SetPendingConfirmation(r) \/ DescriberFails(r)
  PROVE  WriteInv'
<1>1. req[r].pc = "describing" /\ Release(r) /\ UNCHANGED server
  BY DEF SetPendingConfirmation, DescriberFails
<1>2. HoldsWrite(req[r]) /\ req[r].session \in Sessions /\ req[r].id \in Proposals
  BY <1>1, RequestFields DEF HoldsWrite, IInv
<1> PICK p \in Proposals : p = req[r].id
  BY <1>2
<1>3. fate[p] = "drafted" /\ ~ConfirmedByUser(p)
  BY <1>1, <1>2 DEF IInv, WriteInv, RequestHolders, FateOfHolder, ConfirmedByUser, Reported
<1>4. PICK f \in {"pending", "dropped"} :
        /\ fate' = [fate EXCEPT ![p] = f]
        /\ SetPendingConfirmation(r) => f = "pending"
        /\ DescriberFails(r) => pending' = pending
  BY <1>1 DEF SetPendingConfirmation, DescriberFails, store
<1>5. ServerStages'
  BY <1>1, <1>3, <1>4, FateStep, FateNames DEF server, Reported
<1>6. /\ RequestHolders'
      /\ \A s \in Sessions : pending[s] # None =>
           pending[s].id \in Proposals \ {p} /\ fate'[pending[s].id] = "pending"
  BY <1>1, <1>2, <1>4, HolderEnds, FateNames
<1>7. CASE SetPendingConfirmation(r)
  <2> DEFINE new == [operation |-> req[r].operation, turn |-> req[r].turn, id |-> req[r].id]
  <2>1. pending' = [pending EXCEPT ![req[r].session] = new] /\ new.id = p
    BY <1>7 DEF SetPendingConfirmation
  <2> HIDE DEF new
  <2>2. pending'[req[r].session] = new
        /\ \A s \in Sessions \ {req[r].session} : pending'[s] = pending[s]
    BY <1>2, <2>1 DEF IInv, TypeInv, StoreTypes
  <2>3. fate'[p] = "pending"
    BY <1>4, <1>7 DEF IInv, TypeInv, WriteTypes
  <2>4. PendingHolders'
    BY <1>6, <2>1, <2>2, <2>3 DEF IInv, WriteInv, PendingHolders
  <2>5. QED
    BY <1>5, <1>6, <2>4 DEF WriteInv
<1>8. CASE DescriberFails(r)
  <2>1. PendingHolders'
    BY <1>4, <1>6, <1>8 DEF IInv, WriteInv, PendingHolders
  <2>2. QED
    BY <1>5, <1>6, <2>1 DEF WriteInv
<1>9. QED
  BY <1>7, <1>8

LEMMA ResumeWriteWrites ==
  ASSUME IInv, NEW r \in Requests, ResumeWrite(r)
  PROVE  WriteInv'
<1>1. req[r].pc \in {"writing", "explaining"} /\ UNCHANGED <<pending, server>>
  BY DEF ResumeWrite, WriteOutcomeUnknown, WriteRejected, WriteSucceeds, ExplainWrite,
     ExplanationInvalid, EndWrite, store
<1>2. HoldsWrite(req[r]) /\ req[r].id \in Proposals /\ fate[req[r].id] = "confirmed"
  BY <1>1, RequestFields DEF HoldsWrite, IInv, WriteInv, RequestHolders, FateOfHolder
<1> PICK p \in Proposals : p = req[r].id
  BY <1>2
<1>3. ASSUME NEW f \in Reported, Release(r), fate' = [fate EXCEPT ![p] = f],
             f = "succeeded" => answer[p] = "ok", f = "rejected" => answer[p] = "error"
      PROVE  WriteInv'
  <2>1. ConfirmedByUser(p) /\ f \in Fates
    BY <1>2 DEF ConfirmedByUser, Fates
  <2>2. /\ answer[p] = "ok" => Done(p)
        /\ answer[p] = "error" => Declined(p) \/ Botched(p)
    BY DEF IInv, WriteInv, ServerStages, Unsent, Sent, Done, Declined, Botched
  <2>3. ServerStages'
    BY <1>1, <1>3, <2>1, <2>2, FateStep DEF server
  <2>4. /\ RequestHolders'
        /\ \A s \in Sessions : pending[s] # None =>
             pending[s].id \in Proposals \ {p} /\ fate'[pending[s].id] = "pending"
    BY <1>1, <1>2, <1>3, <2>1, HolderEnds
  <2>5. PendingHolders'
    BY <1>1, <2>4 DEF IInv, WriteInv, PendingHolders
  <2>6. QED
    BY <2>3, <2>4, <2>5 DEF WriteInv
<1>4. CASE WriteOutcomeUnknown(r)
  BY <1>3, <1>4 DEF WriteOutcomeUnknown, EndWrite, Reported
<1>5. CASE WriteRejected(r)
  BY <1>3, <1>5 DEF WriteRejected, EndWrite, Reported
<1>6. CASE WriteSucceeds(r)
  <2>1. /\ req'[r].pc = "explaining" /\ req'[r].id = p
        /\ \A q \in Requests \ {r} : req'[q] = req[q]
    BY <1>6, RequestFields DEF WriteSucceeds, IInv, TypeInv, RequestTypes, RequestStates
  <2>2. UNCHANGED <<pending, server, fate>> /\ answer[p] = "ok"
    BY <1>6 DEF WriteSucceeds, store
  <2>3. Done(p)
    BY <2>2 DEF IInv, WriteInv, ServerStages, Unsent, Sent, Done, Declined, Botched
  <2>4. RequestHolders'
    BY <1>1, <1>2, <2>1, <2>2, <2>3
       DEF IInv, WriteInv, RequestHolders, FateOfHolder, HoldsWrite, server, Done
  <2>5. ServerStages' /\ PendingHolders'
    BY <2>2 DEF IInv, WriteInv, ServerStages, PendingHolders, server, Unsent, Sent, Done,
       Declined, Botched, ConfirmedByUser
  <2>6. QED
    BY <2>4, <2>5 DEF WriteInv
<1>7. CASE ExplainWrite(r)
  <2>1. answer[p] = "ok"
    BY <1>2, <1>7 DEF ExplainWrite, IInv, WriteInv, RequestHolders, Done
  <2>2. QED
    BY <1>3, <1>7, <2>1 DEF ExplainWrite, EndWrite, Reported
<1>8. CASE ExplanationInvalid(r)
  BY <1>3, <1>8 DEF ExplanationInvalid, Reported
<1>9. QED
  BY <1>4, <1>5, <1>6, <1>7, <1>8 DEF ResumeWrite

LEMMA McpWrites ==
  ASSUME IInv, NEW p \in Proposals, McpApplies(p) \/ McpRefuses(p) \/ McpAppliesThenFails(p)
  PROVE  WriteInv'
<1>1. Sent(p) /\ UNCHANGED <<pending, req, fate>>
  BY DEF McpApplies, McpRefuses, McpAppliesThenFails, Execute, McpHandles, IInv, WriteInv, ServerStages, Unsent, Sent,
     Done, Declined, Botched, store
<1>2. Done(p)' \/ Declined(p)' \/ Botched(p)'
  BY <1>1 DEF McpApplies, McpRefuses, McpAppliesThenFails, Execute, McpHandles, IInv, TypeInv, WriteTypes, Sent, Done,
     Declined, Botched
<1>3. \A o \in Proposals \ {p} :
        /\ wire'[o] = wire[o] /\ applied'[o] = applied[o]
        /\ answer'[o] = answer[o] /\ write'[o] = write[o]
  BY DEF McpApplies, McpRefuses, McpAppliesThenFails, Execute, McpHandles, IInv, TypeInv, WriteTypes
<1>4. ConfirmedByUser(p) /\ fate[p] # "succeeded" /\ fate[p] # "rejected"
  BY <1>1 DEF IInv, WriteInv, ServerStages, Unsent, Sent, Done, Declined, Botched
<1>5. ServerStages'
  <2>1. ~Unsent(p)'
    BY <1>2 DEF Unsent, Done, Declined, Botched
  <2>2. QED
    BY <1>1, <1>2, <1>3, <1>4, <2>1 DEF IInv, WriteInv, ServerStages, Unsent, Sent, Done,
       Declined, Botched, ConfirmedByUser
<1>6. PendingHolders'
  BY <1>1 DEF IInv, WriteInv, PendingHolders
<1>7. RequestHolders'
  <2>1. ASSUME NEW r \in Requests, HoldsWrite(req[r]), req[r].pc = "explaining"
        PROVE  Done(req[r].id)'
    <3>1. Done(req[r].id) /\ req[r].id \in Proposals \ {p}
      BY <1>1, <2>1, RequestFields DEF IInv, WriteInv, RequestHolders, Sent, Done
    <3>2. QED
      BY <1>1, <1>3, <3>1 DEF Done
  <2>2. QED
    BY <1>1, <2>1 DEF IInv, WriteInv, RequestHolders, FateOfHolder
<1>8. QED
  BY <1>5, <1>6, <1>7 DEF WriteInv

LEMMA WriteStep ==
  ASSUME IInv, [Next]_vars
  PROVE  WriteInv'
<1>1. ASSUME NEW s \in Sessions, CreateSession(s) \/ CloseSession(s)
      PROVE  WriteInv'
  BY <1>1, CloseWrites, CalmStep DEF CreateSession, IInv
<1>2. ASSUME NEW r \in Requests, NEW s \in Sessions, SendMessage(r, s)
      PROVE  WriteInv'
  <2>1. CASE BeginTurn(r, s)
    <3>1. req'[r].pc \in {"compacting", "model"} /\ \A q \in Requests \ {r} : req'[q] = req[q]
      BY <2>1 DEF BeginTurn, IInv, TypeInv, RequestTypes
    <3>2. QED
      BY <2>1, <3>1, CalmStep DEF BeginTurn, HoldsWrite, store, IInv
  <2>2. QED
    BY <1>2, <2>1, DecisionWrites DEF SendMessage
<1>3. ASSUME NEW r \in Requests, ResumeRun(r)
      PROVE  WriteInv'
  BY <1>3, QuietRunWrites, ProposeWrites, DescribedWrites DEF ResumeRun
<1>4. CASE UNCHANGED vars
  BY <1>4, CalmStep DEF vars, IInv, server
<1>5. QED
  BY <1>1, <1>2, <1>3, <1>4, ResumeWriteWrites, McpWrites DEF Next, Resume

LEMMA WritesHold == Spec => []IInv
<1>1. IInv /\ [Next]_vars => IInv'
  BY WriteStep, TypeStep DEF IInv
<1>2. Init => IInv
  BY InitTypes, WriteInit DEF IInv
<1>3. QED
  BY <1>1, <1>2, PTL DEF Spec

(* No write reaches an MCP server before the user confirmed it, whatever   *)
(* the model proposes and however requests interleave.                     *)
THEOREM NothingWithoutConfirmation == Spec => []OnlyConfirmedWritesAreSent
<1>1. IInv => OnlyConfirmedWritesAreSent
  BY DEF IInv, TypeInv, WriteTypes, WriteInv, ServerStages, OnlyConfirmedWritesAreSent, Unsent
<1>2. QED
  BY <1>1, WritesHold, PTL

(* A confirmed write is on the wire or executed once, and never both.      *)
THEOREM ConfirmedWritesRunOnce == Spec => []WritesAtMostOnce
<1>1. IInv => WritesAtMostOnce
  BY DEF IInv, WriteInv, ServerStages, WritesAtMostOnce, Unsent, Sent, Done, Declined, Botched
<1>2. QED
  BY <1>1, WritesHold, PTL

(* Both together: a write waits for its confirmation and runs once.        *)
THEOREM WritesRunOnceConfirmed == Spec => []ConfirmedThenOnce
BY NothingWithoutConfirmation, ConfirmedWritesRunOnce, PTL DEF ConfirmedThenOnce

(* What the Host reported about a write agrees with what the server did,   *)
(* in every later state too.                                               *)
THEOREM ReportsAreHonest == Spec => []HonestReport
<1>1. IInv => HonestReport
  BY DEF IInv, WriteInv, ServerStages, HonestReport, Done, Declined, Botched
<1>2. QED
  BY <1>1, WritesHold, PTL

-----------------------------------------------------------------------------
(* ChatSession implements WriteConfirmation.                               *)

StageMap ==
  \A p \in Proposals :
    /\ Done(p) \/ Botched(p) => ProposalState(p) = "applied"
    /\ Declined(p) => ProposalState(p) = "refused"
    /\ Sent(p) => ProposalState(p) = "confirmed"
    /\ fate[p] = "dropped" => ProposalState(p) = "dropped"
    /\ fate[p] = "pending" => ProposalState(p) = "pending"
    /\ fate[p] \in {"unused", "drafted"} => ProposalState(p) = "new"

LEMMA StagesDecideStates == IInv => StageMap
<1> SUFFICES ASSUME IInv, NEW p \in Proposals
             PROVE  /\ Done(p) \/ Botched(p) => ProposalState(p) = "applied"
                    /\ Declined(p) => ProposalState(p) = "refused"
                    /\ Sent(p) => ProposalState(p) = "confirmed"
                    /\ fate[p] = "dropped" => ProposalState(p) = "dropped"
                    /\ fate[p] = "pending" => ProposalState(p) = "pending"
                    /\ fate[p] \in {"unused", "drafted"} => ProposalState(p) = "new"
  BY DEF StageMap
<1>1. ConfirmedByUser(p) <=> ~Unsent(p)
  BY DEF IInv, WriteInv, ServerStages
<1>2. Unsent(p) \/ Sent(p) \/ Done(p) \/ Declined(p) \/ Botched(p)
  BY DEF IInv, WriteInv, ServerStages
<1>3. CASE Unsent(p)
  BY <1>1, <1>3 DEF ProposalState, Unsent, Sent, Done, Declined, Botched, ConfirmedByUser
<1>4. CASE ~Unsent(p)
  <2>1. ~(fate[p] \in {"unused", "drafted", "dropped", "pending"}) /\ ConfirmedByUser(p)
    BY <1>1, <1>4 DEF ConfirmedByUser, Reported
  <2>2. QED
    BY <1>2, <1>4, <2>1 DEF ProposalState, Sent, Done, Declined, Botched
<1>5. QED
  BY <1>3, <1>4

SameProposal(p) ==
  /\ wire'[p] = wire[p] /\ applied'[p] = applied[p]
  /\ answer'[p] = answer[p] /\ fate'[p] = fate[p]

\* A step that touches one proposal moves one proposal of the abstract flow.
LEMMA OneProposalMoves ==
  ASSUME NEW p \in Proposals, \A o \in Proposals \ {p} : SameProposal(o),
         NEW from, NEW to, ProposalState(p) = from, ProposalState(p)' = to,
         \/ from = to
         \/ from = "new" /\ to = "pending"
         \/ from \in {"new", "pending"} /\ to = "dropped"
         \/ from = "pending" /\ to = "confirmed"
         \/ from = "confirmed" /\ to \in {"applied", "refused"}
  PROVE  [Flow!Next]_FlowState
<1>1. \A o \in Proposals \ {p} : ProposalState(o)' = ProposalState(o)
  BY DEF SameProposal, ProposalState, ConfirmedByUser
<1>2. FlowState[p] = from /\ FlowState' = [FlowState EXCEPT ![p] = to]
  BY <1>1 DEF FlowState
<1>3. CASE from = to
  BY <1>2, <1>3 DEF FlowState
<1>4. CASE from # to
  <2>1. \E f \in SUBSET {"new", "pending", "confirmed"} : Flow!Move(p, f, to)
    BY <1>2, <1>4 DEF Flow!Move
  <2>2. Flow!Propose(p) \/ Flow!Drop(p) \/ Flow!Confirm(p) \/ Flow!Apply(p) \/ Flow!Refuse(p)
    BY <1>2, <1>4 DEF Flow!Move, Flow!Propose, Flow!Drop, Flow!Confirm, Flow!Apply,
       Flow!Refuse
  <2>3. QED
    BY <2>2 DEF Flow!Next
<1>5. QED
  BY <1>3, <1>4

\* No proposal touched: the abstract flow stutters.
LEMMA FlowStutters ==
  ASSUME UNCHANGED <<server, fate>>
  PROVE  [Flow!Next]_FlowState
BY DEF server, FlowState, ProposalState, ConfirmedByUser

\* Fates the flow does not tell apart from their successor.
LEMMA FateFlow ==
  ASSUME IInv, IInv', NEW p \in Proposals, NEW f \in Fates,
         UNCHANGED <<wire, applied, answer>>, fate' = [fate EXCEPT ![p] = f],
         \/ fate[p] = "unused" /\ f = "drafted"
         \/ fate[p] = "drafted" /\ f \in {"pending", "dropped"}
         \/ fate[p] = "pending" /\ f = "dropped"
         \/ fate[p] = "confirmed" /\ f \in Reported
  PROVE  [Flow!Next]_FlowState
<1>1. fate'[p] = f /\ \A o \in Proposals \ {p} : fate'[o] = fate[o]
  BY DEF IInv, TypeInv, WriteTypes
<1>2. \A o \in Proposals \ {p} : SameProposal(o)
  BY <1>1 DEF SameProposal
<1>3. CASE fate[p] = "confirmed" /\ f \in Reported
  <2>1. ProposalState(p)' = ProposalState(p)
    BY <1>1, <1>3 DEF ProposalState, ConfirmedByUser, Reported
  <2>2. QED
    BY <1>2, <2>1, OneProposalMoves
<1>4. CASE f \in {"drafted", "pending", "dropped"}
  <2>1. /\ fate[p] \in {"unused", "drafted"} => ProposalState(p) = "new"
        /\ fate[p] = "pending" => ProposalState(p) = "pending"
    BY StagesDecideStates DEF StageMap
  <2>2. /\ f = "drafted" => ProposalState(p)' = "new"
        /\ f \in {"pending", "dropped"} => ProposalState(p)' = f
    <3>1. StageMap'
      BY StagesDecideStates, PTL
    <3>2. QED
      BY <1>1, <3>1 DEF StageMap
  <2>3. QED
    BY <1>2, <1>4, <2>1, <2>2, OneProposalMoves DEF Reported
<1>5. QED
  BY <1>3, <1>4

LEMMA RunFlow ==
  ASSUME IInv, IInv', NEW r \in Requests, ResumeRun(r)
  PROVE  [Flow!Next]_FlowState
<1>1. CASE \/ Compact(r) \/ CompactionFails(r) \/ AnswerText(r) \/ CompleteReads(r)
           \/ \E calls \in Replies : RequestReads(r, calls)
           \/ AbortTurn(r)
  BY <1>1, FlowStutters DEF Compact, CompactionFails, AnswerText, CompleteReads,
     RequestReads, AbortTurn
<1>2. ASSUME NEW calls \in Replies, NEW p \in Proposals, ProposeWrite(r, calls, p)
      PROVE  [Flow!Next]_FlowState
  BY <1>2, FateFlow, FateNames DEF server, ProposeWrite
<1>3. CASE SetPendingConfirmation(r) \/ DescriberFails(r)
  <2>1. req[r].pc = "describing" /\ HoldsWrite(req[r])
    BY <1>3 DEF SetPendingConfirmation, DescriberFails, HoldsWrite
  <2>2. req[r].id \in Proposals /\ fate[req[r].id] = "drafted"
    BY <2>1, RequestFields DEF IInv, WriteInv, RequestHolders, FateOfHolder
  <2>3. \E f \in {"pending", "dropped"} : fate' = [fate EXCEPT ![req[r].id] = f]
    BY <1>3 DEF SetPendingConfirmation, DescriberFails
  <2>4. UNCHANGED server
    BY <1>3 DEF SetPendingConfirmation, DescriberFails
  <2>5. QED
    BY <2>2, <2>3, <2>4, FateFlow, FateNames DEF server
<1>4. QED
  BY <1>1, <1>2, <1>3 DEF ResumeRun

LEMMA WriteFlow ==
  ASSUME IInv, IInv', NEW r \in Requests, ResumeWrite(r)
  PROVE  [Flow!Next]_FlowState
<1>1. CASE WriteSucceeds(r)
  BY <1>1, FlowStutters DEF WriteSucceeds
<1>2. CASE ~WriteSucceeds(r)
  <2>1. req[r].pc \in {"writing", "explaining"} /\ HoldsWrite(req[r]) /\ UNCHANGED server
    BY <1>2 DEF ResumeWrite, WriteOutcomeUnknown, WriteRejected, ExplainWrite,
       ExplanationInvalid, EndWrite, HoldsWrite
  <2>2. req[r].id \in Proposals /\ fate[req[r].id] = "confirmed"
    BY <2>1, RequestFields DEF IInv, WriteInv, RequestHolders, FateOfHolder
  <2>3. \E f \in Reported : fate' = [fate EXCEPT ![req[r].id] = f]
    BY <1>2 DEF ResumeWrite, WriteOutcomeUnknown, WriteRejected, ExplainWrite,
       ExplanationInvalid, EndWrite, Reported
  <2>4. QED
    BY <2>1, <2>2, <2>3, FateFlow, FateNames DEF server, Reported
<1>3. QED
  BY <1>1, <1>2

LEMMA PendingIsPending ==
  ASSUME IInv, NEW s \in Sessions, pending[s] # None
  PROVE  pending[s].id \in Proposals /\ fate[pending[s].id] = "pending"
BY PendingTypes DEF IInv, TypeInv, WriteInv, PendingHolders

LEMMA SessionFlow ==
  ASSUME IInv, IInv', NEW s \in Sessions, CreateSession(s) \/ CloseSession(s)
  PROVE  [Flow!Next]_FlowState
<1>1. CASE CreateSession(s)
  BY <1>1, FlowStutters DEF CreateSession
<1>2. CASE CloseSession(s) /\ pending[s] = None
  BY <1>2, FlowStutters DEF CloseSession
<1>3. CASE CloseSession(s) /\ pending[s] # None
  BY <1>3, PendingIsPending, FateFlow, FateNames DEF server, CloseSession
<1>4. QED
  BY <1>1, <1>2, <1>3

LEMMA UserFlow ==
  ASSUME IInv, IInv', NEW r \in Requests, NEW s \in Sessions, SendMessage(r, s)
  PROVE  [Flow!Next]_FlowState
<1>1. CASE BeginTurn(r, s)
  BY <1>1, FlowStutters DEF BeginTurn
<1>2. pending[s] # None => pending[s].id \in Proposals /\ fate[pending[s].id] = "pending"
  BY PendingIsPending
<1>4. ASSUME NEW text \in Texts, CancelPending(r, s, text)
      PROVE  [Flow!Next]_FlowState
  <2>1. fate' = [fate EXCEPT ![pending[s].id] = "dropped"]
    BY <1>4 DEF CancelPending, ClassifyConfirmationInput, Decided, Texts
  <2>2. QED
    BY <1>2, <1>4, <2>1, FateFlow, FateNames DEF server, CancelPending
<1>5. ASSUME NEW text \in Texts, ConfirmPending(r, s, text)
      PROVE  [Flow!Next]_FlowState
  <2>0. pending[s] # None
    BY <1>5 DEF ConfirmPending
  <2> PICK p \in Proposals : p = pending[s].id
    BY <1>2, <2>0
  <2>1. /\ fate' = [fate EXCEPT ![p] = "confirmed"] /\ fate[p] = "pending"
        /\ wire' = [wire EXCEPT ![p] = @ + 1] /\ UNCHANGED <<applied, answer, write>>
    BY <1>2, <1>5 DEF ConfirmPending, ClassifyConfirmationInput, Decided, Texts
  <2>2. \A o \in Proposals \ {p} : SameProposal(o)
    BY <2>1 DEF SameProposal, IInv, TypeInv, WriteTypes
  <2>3. Unsent(p)
    BY <2>1 DEF IInv, WriteInv, ServerStages, ConfirmedByUser, Reported
  <2>4. wire'[p] = 1 /\ applied'[p] = 0 /\ answer'[p] = "none"
    BY <2>1, <2>3 DEF IInv, TypeInv, WriteTypes, Unsent
  <2>5. ProposalState(p) = "pending"
    BY <2>1, StagesDecideStates DEF StageMap
  <2>6. ProposalState(p)' = "confirmed"
    <3>1. StageMap'
      BY StagesDecideStates, PTL
    <3>2. QED
      BY <2>4, <3>1 DEF StageMap, Sent
  <2>7. QED
    BY <2>2, <2>5, <2>6, OneProposalMoves
<1>6. QED
  BY <1>1, <1>4, <1>5 DEF SendMessage

LEMMA McpFlow ==
  ASSUME IInv, IInv', NEW p \in Proposals, McpApplies(p) \/ McpRefuses(p) \/ McpAppliesThenFails(p)
  PROVE  [Flow!Next]_FlowState
<1>1. Sent(p)
  BY DEF McpApplies, McpRefuses, McpAppliesThenFails, Execute, McpHandles, IInv, WriteInv, ServerStages, Unsent, Sent,
     Done, Declined, Botched
<1>2. \A o \in Proposals \ {p} : SameProposal(o)
  BY DEF McpApplies, McpRefuses, McpAppliesThenFails, Execute, McpHandles, SameProposal, IInv, TypeInv, WriteTypes
<1>3. Done(p)' \/ Declined(p)' \/ Botched(p)'
  BY <1>1 DEF McpApplies, McpRefuses, McpAppliesThenFails, Execute, McpHandles, IInv, TypeInv, WriteTypes, Sent, Done,
     Declined, Botched
<1>4. ProposalState(p) = "confirmed"
  BY <1>1, StagesDecideStates DEF StageMap
<1>5. ProposalState(p)' \in {"applied", "refused"}
  <2>1. StageMap'
    BY StagesDecideStates, PTL
  <2>2. QED
    BY <1>3, <2>1 DEF StageMap
<1>6. QED
  BY <1>2, <1>4, <1>5, OneProposalMoves

(* Seen through the proposals alone the Host is the documented flow: show, *)
(* confirm or drop, execute or refuse, each once and in that order.        *)
THEOREM HostImplementsFlow == Spec => ImplementsConfirmationFlow
<1>1. Init => Flow!Init
  BY DEF Init, Flow!Init, FlowState, ProposalState, ConfirmedByUser, Reported
<1>2. IInv /\ IInv' /\ [Next]_vars => [Flow!Next]_FlowState
  <2> SUFFICES ASSUME IInv, IInv', [Next]_vars PROVE [Flow!Next]_FlowState
    OBVIOUS
  <2>1. CASE UNCHANGED vars
    BY <2>1, FlowStutters DEF vars, server
  <2>2. CASE \E s \in Sessions : CreateSession(s) \/ CloseSession(s)
    BY <2>2, SessionFlow
  <2>3. QED
    BY <2>1, <2>2, RunFlow, WriteFlow, UserFlow, McpFlow DEF Next, Resume
<1>3. QED
  BY <1>1, <1>2, WritesHold, PTL DEF Spec, ImplementsConfirmationFlow, Flow!Spec

-----------------------------------------------------------------------------
(* UsableQuote, a fold, as the last of a sequence of accumulators.         *)

NoQuote == [open |-> 0, args |-> None]

\* What FoldLeft iterates, from the sets of positions to accumulators.
QuoteBody(msgs, g, s) ==
  IF s = {} THEN NoQuote ELSE QuoteStep(g[s \ {Max(s)}], msgs[Max(s)])

IsQuoteFold(msgs, g) == g = [s \in SUBSET DOMAIN msgs |-> QuoteBody(msgs, g, s)]

Quotes == [open : Nat, args : SaleArgs \cup {None}]

LEMMA QuoteStepType ==
  ASSUME NEW acc \in Quotes, NEW m \in Messages
  PROVE  QuoteStep(acc, m) \in Quotes
<1> DEFINE others == {i \in DOMAIN m.calls : m.calls[i].tool # "read"}
           IsLast(i) == /\ m.calls[i].tool # "read"
                        /\ \A j \in DOMAIN m.calls : j > i => m.calls[j].tool = "read"
           last == CHOOSE i \in DOMAIN m.calls : IsLast(i)
<1>1. CASE m.role = "assistant" /\ \E i \in DOMAIN m.calls : m.calls[i].tool # "read"
  <2>1. m.calls \in Seq(Operations)
    BY <1>1 DEF Messages, UserMessage
  <2>2. Len(m.calls) \in Nat /\ DOMAIN m.calls = 1 .. Len(m.calls)
    BY <2>1
  <2>3. others \in SUBSET (1 .. Len(m.calls)) /\ others # {}
    BY <1>1, <2>2
  <2>4. PICK i \in others : \A j \in others : j <= i
    <3> HIDE DEF others
    <3>1. QED
      BY <2>2, <2>3, Greatest
  <2>5. \A j \in DOMAIN m.calls : j > i => j \notin others
    BY <2>2, <2>4
  <2>6. IsLast(i) /\ i \in DOMAIN m.calls
    BY <2>4, <2>5
  <2>7. last \in DOMAIN m.calls
    <3> HIDE DEF IsLast
    <3>1. QED
      BY <2>6
  <2>8. QuoteStep(acc, m) =
          [open |-> IF m.calls[last].tool = "quote_sale" THEN last ELSE 0, args |-> None]
    BY <1>1 DEF QuoteStep
  <2> HIDE DEF last
  <2>9. QED
    BY <2>2, <2>7, <2>8 DEF Quotes
<1>2. CASE ~(m.role = "assistant" /\ \E i \in DOMAIN m.calls : m.calls[i].tool # "read")
  BY <1>2 DEF QuoteStep, Quotes
<1>3. QED
  BY <1>1, <1>2

LEMMA QuoteFoldExists ==
  ASSUME NEW msgs \in Seq(Messages)
  PROVE  \E g : IsQuoteFold(msgs, g)
<1> DEFINE n == Len(msgs)
           F == [x \in (1 .. n) \X Quotes |-> QuoteStep(x[2], msgs[x[1]])]
<1>1. n \in Nat /\ DOMAIN msgs = 1 .. n /\ \A k \in 1 .. n : msgs[k] \in Messages
  OBVIOUS
<1>2. NoQuote \in Quotes
  BY DEF NoQuote, Quotes
<1>3. \A k \in 1 .. n, a \in Quotes :
        QuoteStep(a, msgs[k]) \in Quotes /\ F[k, a] = QuoteStep(a, msgs[k])
  BY <1>1, QuoteStepType
<1>4. F \in [(1 .. n) \X Quotes -> Quotes]
  BY <1>3
<1> HIDE DEF F, n
<1>5. PICK g \in [SUBSET (1 .. n) -> Quotes] : FoldsLeft(g, n, NoQuote, F)
  BY <1>1, <1>2, <1>4, FoldExists
<1>6. \A s \in SUBSET (1 .. n) : s # {} =>
        F[Max(s), g[s \ {Max(s)}]] = QuoteStep(g[s \ {Max(s)}], msgs[Max(s)])
  <2>1. \A s \in SUBSET (1 .. n) : s # {} => Max(s) \in 1 .. n /\ g[s \ {Max(s)}] \in Quotes
    BY <1>1, <1>5, MaxIsMember
  <2>2. QED
    BY <1>3, <2>1
<1>7. \A s \in SUBSET (1 .. n) : g[s] = QuoteBody(msgs, g, s)
  BY <1>5, <1>6 DEF FoldsLeft, QuoteBody
<1>8. g = [s \in SUBSET DOMAIN msgs |-> QuoteBody(msgs, g, s)]
  BY <1>1, <1>5, <1>7
<1>9. QED
  BY <1>8 DEF IsQuoteFold

LEMMA QuoteAccumulators ==
  ASSUME NEW msgs \in Seq(Messages)
  PROVE  \E a : /\ a[0] = NoQuote
                /\ \A k \in 1 .. Len(msgs) : a[k] = QuoteStep(a[k - 1], msgs[k])
                /\ UsableQuote(msgs) = a[Len(msgs)].args
<1> DEFINE g == CHOOSE g : IsQuoteFold(msgs, g)
           a == [k \in 0 .. Len(msgs) |-> g[1 .. k]]
<1>1. IsQuoteFold(msgs, g)
  BY QuoteFoldExists
<1>2. UsableQuote(msgs) = g[DOMAIN msgs].args
  BY DEF UsableQuote, FoldLeft, MapThenFoldSet, IsQuoteFold, QuoteBody, NoQuote
<1> HIDE DEF g
<1>3. Len(msgs) \in Nat /\ DOMAIN msgs = 1 .. Len(msgs)
  OBVIOUS
<1>4. a[0] = NoQuote
  <2>1. 1 .. 0 = {} /\ {} \in SUBSET DOMAIN msgs
    OBVIOUS
  <2>2. g[{}] = NoQuote
    BY <1>1, <2>1 DEF IsQuoteFold, QuoteBody
  <2>3. QED
    BY <1>3, <2>1, <2>2
<1>5. ASSUME NEW k \in 1 .. Len(msgs)
      PROVE  a[k] = QuoteStep(a[k - 1], msgs[k])
  <2>1. 1 .. k \in SUBSET DOMAIN msgs /\ 1 .. k # {}
    BY <1>3
  <2>2. g[1 .. k] = QuoteBody(msgs, g, 1 .. k)
    BY <1>1, <2>1 DEF IsQuoteFold
  <2>3. Max(1 .. k) = k /\ (1 .. k) \ {Max(1 .. k)} = 1 .. (k - 1)
    BY <1>3, MaxOfInterval
  <2>4. g[1 .. k] = QuoteStep(g[1 .. (k - 1)], msgs[k])
    BY <2>1, <2>2, <2>3 DEF QuoteBody
  <2>5. QED
    BY <1>3, <2>4
<1>6. a[Len(msgs)] = g[DOMAIN msgs]
  BY <1>3
<1>7. QED
  BY <1>2, <1>4, <1>5, <1>6

-----------------------------------------------------------------------------
(* The shape of a history, of the turn in progress and of its tool calls.  *)

ReadsOnly(calls) == \A k \in DOMAIN calls : ~IsWrite(calls[k])

\* What HistoryIsWholeTurns says of the inside of a history.
Turns(msgs) ==
  /\ msgs # <<>> /\ msgs[1].role = "user"
  /\ \A i \in 2..Len(msgs) :
       /\ msgs[i].role = "user" <=> IsFinalText(msgs[i - 1])
       /\ msgs[i].role = "tool" => AnswersACall(msgs, i)

\* Message j's call k, a read, is answered k places later.
ReadAnswered(msgs, j, k) ==
  /\ j + k <= Len(msgs)
  /\ msgs[j + k].role = "tool" /\ msgs[j + k].id = k

Handled(msgs, j) ==
  LET calls == msgs[j].calls
  IN  \/ ReadsOnly(calls) /\ \A k \in DOMAIN calls : ReadAnswered(msgs, j, k)
      \/ Len(calls) = 1 /\ IsWrite(calls[1])

Answered(msgs) == \A j \in DOMAIN msgs : msgs[j].role = "assistant" => Handled(msgs, j)

Whole(msgs) == msgs # <<>> => Turns(msgs) /\ Answered(msgs) /\ IsFinalText(Last(msgs))

OpenTurn(t) == Turns(t) /\ Answered(t) /\ ~IsFinalText(Last(t))

\* A turn whose last message asks for reads that have not been answered.
ReadingTurn(t) ==
  /\ Turns(t) /\ Answered(Front(t))
  /\ Last(t).role = "assistant" /\ Last(t).calls # <<>> /\ ReadsOnly(Last(t).calls)

LEMMA MessageShape ==
  ASSUME NEW m \in Messages
  PROVE  /\ m.role \in {"user", "assistant", "tool"}
         /\ m.role = "assistant" => m.calls \in Seq(Operations) /\ m = AssistantMessage(m.calls)
         /\ m.role = "tool" => /\ m.id \in Nat /\ m.result \in Results
                               /\ m = ToolMessage(m.id, m.result)
BY DEF Messages, UserMessage, AssistantMessage, ToolMessage

LEMMA NewMessages ==
  /\ UserMessage.role = "user"
  /\ \A calls : AssistantMessage(calls).role = "assistant" /\ AssistantMessage(calls).calls = calls
  /\ \A id, result : /\ ToolMessage(id, result).role = "tool"
                     /\ ToolMessage(id, result).id = id
                     /\ ToolMessage(id, result).result = result
  /\ IsFinalText(FinalText) /\ FinalText.role = "assistant" /\ FinalText.calls = <<>>
  /\ \A id, result : ~IsFinalText(ToolMessage(id, result))
  /\ ~IsFinalText(UserMessage)
BY DEF UserMessage, AssistantMessage, ToolMessage, FinalText, IsFinalText

\* What is said of a position survives in a longer sequence.
LEMMA AnswersMove ==
  ASSUME NEW msgs \in Seq(Messages), NEW more \in Seq(Messages), NEW d \in Nat,
         Len(msgs) + d <= Len(more),
         \A n \in 1..Len(msgs) : more[n + d] = msgs[n]
  PROVE  /\ \A i \in 1..Len(msgs) : AnswersACall(msgs, i) => AnswersACall(more, i + d)
         /\ \A j \in 1..Len(msgs) : msgs[j].role = "assistant" /\ Handled(msgs, j)
              => Handled(more, j + d)
<1>1. ASSUME NEW i \in 1..Len(msgs), AnswersACall(msgs, i)
      PROVE  AnswersACall(more, i + d)
  <2>1. PICK j \in 1..(i - 1) :
          /\ msgs[j].role = "assistant" /\ msgs[i].id \in DOMAIN msgs[j].calls
          /\ \A k \in (j + 1)..(i - 1) : msgs[k].role = "tool"
    BY <1>1 DEF AnswersACall
  <2>2. more[j + d] = msgs[j] /\ more[i + d] = msgs[i] /\ j + d \in 1..(i + d - 1)
    <3>1. Len(msgs) \in Nat /\ j \in 1..Len(msgs) /\ i \in Nat /\ j \in Nat
      OBVIOUS
    <3>2. more[j + d] = msgs[j] /\ more[i + d] = msgs[i]
      BY <3>1
    <3>3. j + d \in 1..(i + d - 1)
      BY <3>1
    <3>4. QED
      BY <3>2, <3>3
  <2>3. ASSUME NEW k \in (j + d + 1)..(i + d - 1)
        PROVE  more[k].role = "tool"
    <3>1. k - d \in (j + 1)..(i - 1) /\ k - d \in 1..Len(msgs) /\ (k - d) + d = k
      <4>1. Len(msgs) \in Nat /\ i \in Int /\ j \in Int /\ k \in Int /\ d \in Int
        OBVIOUS
      <4>2. 1 <= j /\ i <= Len(msgs) /\ j + d + 1 <= k /\ k <= i + d - 1
        BY <4>1
      <4>3. QED
        BY <4>1, <4>2
    <3>2. QED
      BY <2>1, <3>1
  <2>4. \A k \in (j + d + 1)..(i + d - 1) : more[k].role = "tool"
    BY <2>3
  <2>5. more[j + d].role = "assistant" /\ more[i + d].id \in DOMAIN more[j + d].calls
    BY <2>1, <2>2
  <2>6. PICK w \in 1..(i + d - 1) : w = j + d
    BY <2>2
  <2>7. \A k \in (w + 1)..(i + d - 1) : more[k].role = "tool"
    BY <2>4, <2>6
  <2>8. more[w].role = "assistant" /\ more[i + d].id \in DOMAIN more[w].calls
    BY <2>5, <2>6
  <2>9. QED
    BY <2>7, <2>8 DEF AnswersACall
<1>2. ASSUME NEW j \in 1..Len(msgs), msgs[j].role = "assistant",
             Handled(msgs, j)
      PROVE  Handled(more, j + d)
  <2>1. more[j + d] = msgs[j]
    OBVIOUS
  <2>2. ASSUME NEW k \in Nat, ReadAnswered(msgs, j, k)
        PROVE  ReadAnswered(more, j + d, k)
    <3>1. j + k \in 1..Len(msgs) /\ (j + d) + k = (j + k) + d
      BY <2>2 DEF ReadAnswered
    <3>2. more[(j + d) + k] = msgs[j + k] /\ (j + d) + k <= Len(more)
      BY <3>1
    <3>3. QED
      BY <2>2, <3>2 DEF ReadAnswered
  <2>3. DOMAIN msgs[j].calls \subseteq Nat
    BY <1>2, MessageShape
  <2>4. CASE ReadsOnly(msgs[j].calls) /\ \A k \in DOMAIN msgs[j].calls : ReadAnswered(msgs, j, k)
    <3>1. \A k \in DOMAIN msgs[j].calls : ReadAnswered(more, j + d, k)
      BY <2>2, <2>3, <2>4
    <3>2. QED
      BY <2>1, <2>4, <3>1 DEF Handled
  <2>5. QED
    BY <1>2, <2>1, <2>4 DEF Handled
<1>3. QED
  BY <1>1, <1>2

LEMMA JoinedAt ==
  ASSUME NEW a \in Seq(Messages), NEW b \in Seq(Messages)
  PROVE  /\ a \o b \in Seq(Messages) /\ Len(a \o b) = Len(a) + Len(b)
         /\ \A n \in 1..Len(a) : (a \o b)[n] = a[n]
         /\ \A n \in 1..Len(b) : (a \o b)[n + Len(a)] = b[n]
<1>1. Len(a) \in Nat /\ Len(b) \in Nat
  OBVIOUS
<1>2. a \o b \in Seq(Messages) /\ Len(a \o b) = Len(a) + Len(b)
  OBVIOUS
<1>3. \A n \in 1..Len(a) : (a \o b)[n] = a[n]
  OBVIOUS
<1>4. ASSUME NEW n \in 1..Len(b)
      PROVE  (a \o b)[n + Len(a)] = b[n]
  <2>1. n + Len(a) \in 1..(Len(a) + Len(b)) /\ n + Len(a) > Len(a)
        /\ (n + Len(a)) - Len(a) = n
    BY <1>1
  <2>2. QED
    BY <1>1, <2>1
<1>5. QED
  BY <1>2, <1>3, <1>4

LEMMA AnsweredJoin ==
  ASSUME NEW a \in Seq(Messages), NEW b \in Seq(Messages), Answered(a), Answered(b)
  PROVE  Answered(a \o b)
<1> DEFINE c == a \o b
<1>1. /\ c \in Seq(Messages) /\ Len(c) = Len(a) + Len(b)
      /\ \A n \in 1..Len(a) : c[n] = a[n]
      /\ \A n \in 1..Len(b) : c[n + Len(a)] = b[n]
      /\ Len(a) \in Nat /\ Len(b) \in Nat
  BY JoinedAt
<1> HIDE DEF c
<1>2. ASSUME NEW j \in 1..Len(a), c[j].role = "assistant"
      PROVE  Handled(c, j)
  <2>1. \A n \in 1..Len(a) : c[n + 0] = a[n]
    BY <1>1
  <2>2. a[j].role = "assistant" /\ Handled(a, j) /\ j + 0 = j
    BY <1>1, <1>2 DEF Answered
  <2>3. Len(a) + 0 <= Len(c) /\ 0 \in Nat
    BY <1>1
  <2>4. Handled(c, j + 0)
    BY <1>1, <2>1, <2>2, <2>3, AnswersMove
  <2>5. QED
    BY <2>2, <2>4
<1>3. ASSUME NEW n \in 1..Len(b), c[n + Len(a)].role = "assistant"
      PROVE  Handled(c, n + Len(a))
  <2>1. b[n].role = "assistant" /\ Handled(b, n)
    BY <1>1, <1>3 DEF Answered
  <2>2. Len(b) + Len(a) <= Len(c)
    BY <1>1
  <2>3. QED
    BY <1>1, <2>1, <2>2, AnswersMove
<1>4. ASSUME NEW j \in DOMAIN c, c[j].role = "assistant"
      PROVE  Handled(c, j)
  <2>1. j \in 1..Len(a) \/ (j - Len(a) \in 1..Len(b) /\ (j - Len(a)) + Len(a) = j)
    BY <1>1
  <2>2. QED
    BY <1>2, <1>3, <1>4, <2>1
<1>5. Answered(c)
  BY <1>4 DEF Answered
<1>6. QED
  BY <1>5 DEF c

LEMMA TurnsJoin ==
  ASSUME NEW a \in Seq(Messages), NEW b \in Seq(Messages), Whole(a), Turns(b)
  PROVE  Turns(a \o b)
<1>1. CASE a = <<>>
  <2>1. a \o b = b
    BY <1>1
  <2>2. QED
    BY <2>1
<1>2. CASE a # <<>>
  <2> DEFINE c == a \o b
  <2>1. /\ c \in Seq(Messages) /\ Len(c) = Len(a) + Len(b)
        /\ \A n \in 1..Len(a) : c[n] = a[n]
        /\ \A n \in 1..Len(b) : c[n + Len(a)] = b[n]
        /\ Len(a) \in Nat \ {0} /\ Len(b) \in Nat \ {0}
    BY <1>2, JoinedAt DEF Turns
  <2>2. Turns(a) /\ IsFinalText(a[Len(a)])
    BY <1>2 DEF Whole, Last
  <2> HIDE DEF c
  <2>3. c # <<>> /\ c[1].role = "user"
    <3>1. Len(c) # 0 /\ 1 \in 1..Len(a)
      BY <2>1
    <3>2. c # <<>>
      BY <3>1
    <3>3. c[1] = a[1]
      BY <2>1, <3>1
    <3>4. QED
      BY <2>2, <3>2, <3>3 DEF Turns
  <2>4. ASSUME NEW i \in 2..Len(a)
        PROVE  /\ c[i].role = "user" <=> IsFinalText(c[i - 1])
               /\ c[i].role = "tool" => AnswersACall(c, i)
    <3>0. i \in 1..Len(a) /\ i - 1 \in 1..Len(a) /\ i + 0 = i
      BY <2>1
    <3>1. c[i] = a[i] /\ c[i - 1] = a[i - 1]
      BY <2>1, <3>0
    <3>2. \A n \in 1..Len(a) : c[n + 0] = a[n]
      BY <2>1
    <3>3. Len(a) + 0 <= Len(c) /\ 0 \in Nat
      BY <2>1
    <3>4. AnswersACall(a, i) => AnswersACall(c, i + 0)
      BY <2>1, <3>0, <3>2, <3>3, AnswersMove
    <3>5. QED
      BY <2>2, <3>0, <3>1, <3>4 DEF Turns
  <2>5. LET i == Len(a) + 1 IN
        /\ c[i].role = "user" <=> IsFinalText(c[i - 1])
        /\ c[i].role = "tool" => AnswersACall(c, i)
    <3>1. c[Len(a) + 1] = b[1] /\ c[Len(a)] = a[Len(a)] /\ (Len(a) + 1) - 1 = Len(a)
      BY <2>1
    <3>2. b[1].role = "user"
      BY DEF Turns
    <3>3. QED
      BY <2>2, <3>1, <3>2
  <2>6. ASSUME NEW n \in 2..Len(b)
        PROVE  /\ c[n + Len(a)].role = "user" <=> IsFinalText(c[(n + Len(a)) - 1])
               /\ c[n + Len(a)].role = "tool" => AnswersACall(c, n + Len(a))
    <3>1. /\ c[n + Len(a)] = b[n] /\ n \in 1..Len(b) /\ n - 1 \in 1..Len(b)
          /\ (n - 1) + Len(a) = (n + Len(a)) - 1
      BY <2>1
    <3>2. c[(n + Len(a)) - 1] = b[n - 1]
      BY <2>1, <3>1
    <3>3. Len(b) + Len(a) <= Len(c)
      BY <2>1
    <3>4. AnswersACall(b, n) => AnswersACall(c, n + Len(a))
      BY <2>1, <3>1, <3>3, AnswersMove
    <3>5. QED
      BY <3>1, <3>2, <3>4 DEF Turns
  <2>7. ASSUME NEW i \in 2..Len(c)
        PROVE  /\ c[i].role = "user" <=> IsFinalText(c[i - 1])
               /\ c[i].role = "tool" => AnswersACall(c, i)
    <3>1. \/ i \in 2..Len(a) \/ i = Len(a) + 1
          \/ i - Len(a) \in 2..Len(b) /\ (i - Len(a)) + Len(a) = i
      BY <2>1
    <3>2. QED
      BY <2>4, <2>5, <2>6, <3>1
  <2>8. Turns(c)
    BY <2>3, <2>7 DEF Turns
  <2>9. QED
    BY <2>8 DEF c
<1>3. QED
  BY <1>1, <1>2

\* A completed turn after a history of whole turns is one.
LEMMA WholeJoin ==
  ASSUME NEW a \in Seq(Messages), NEW b \in Seq(Messages), Whole(a), b # <<>>, Whole(b)
  PROVE  Whole(a \o b)
<1>1. Turns(b) /\ Answered(b) /\ IsFinalText(Last(b))
  BY DEF Whole
<1>2. Answered(a)
  BY DEF Whole, Answered
<1>3. Turns(a \o b) /\ Answered(a \o b)
  BY <1>1, <1>2, TurnsJoin, AnsweredJoin
<1>4. Last(a \o b) = Last(b)
  <2>1. Len(b) \in 1..Len(b) /\ Len(b) + Len(a) = Len(a \o b)
    BY JoinedAt
  <2>2. QED
    BY <2>1, JoinedAt DEF Last
<1>5. QED
  BY <1>1, <1>3, <1>4 DEF Whole

LEMMA AppendedAt ==
  ASSUME NEW t \in Seq(Messages), NEW m \in Messages
  PROVE  /\ Append(t, m) \in Seq(Messages) /\ Len(Append(t, m)) = Len(t) + 1
         /\ Append(t, m) # <<>>
         /\ \A n \in 1..Len(t) : Append(t, m)[n] = t[n]
         /\ Append(t, m)[Len(t) + 1] = m
         /\ Last(Append(t, m)) = m /\ Front(Append(t, m)) = t
         /\ t \o <<m>> = Append(t, m)
<1>1. /\ Append(t, m) \in Seq(Messages) /\ Len(Append(t, m)) = Len(t) + 1
      /\ \A n \in 1..Len(t) : Append(t, m)[n] = t[n]
      /\ Append(t, m)[Len(t) + 1] = m /\ Len(t) \in Nat
  OBVIOUS
<1>2. Last(Append(t, m)) = m /\ Append(t, m) # <<>>
  BY <1>1 DEF Last
<1>3. Front(Append(t, m)) = t
  BY <1>1 DEF Front
<1>4. t \o <<m>> = Append(t, m)
  OBVIOUS
<1>5. QED
  BY <1>1, <1>2, <1>3, <1>4

LEMMA TurnsGrow ==
  ASSUME NEW t \in Seq(Messages), NEW m \in Messages, Turns(t), ~IsFinalText(Last(t)),
         m.role # "user", m.role = "tool" => AnswersACall(Append(t, m), Len(t) + 1)
  PROVE  Turns(Append(t, m))
<1> DEFINE c == Append(t, m)
<1>1. /\ c \in Seq(Messages) /\ Len(c) = Len(t) + 1 /\ c # <<>>
      /\ \A n \in 1..Len(t) : c[n] = t[n]
      /\ c[Len(t) + 1] = m /\ Len(t) \in Nat \ {0}
  BY AppendedAt DEF Turns
<1>2. m.role = "tool" => AnswersACall(c, Len(t) + 1)
  OBVIOUS
<1> HIDE DEF c
<1>3. c[1].role = "user"
  BY <1>1 DEF Turns
<1>4. ASSUME NEW i \in 2..Len(t)
      PROVE  /\ c[i].role = "user" <=> IsFinalText(c[i - 1])
             /\ c[i].role = "tool" => AnswersACall(c, i)
  <2>1. c[i] = t[i] /\ c[i - 1] = t[i - 1] /\ i \in 1..Len(t) /\ i + 0 = i
    BY <1>1
  <2>2. \A n \in 1..Len(t) : c[n + 0] = t[n]
    BY <1>1
  <2>3. Len(t) + 0 <= Len(c) /\ 0 \in Nat
    BY <1>1
  <2>4. AnswersACall(t, i) => AnswersACall(c, i + 0)
    BY <1>1, <2>1, <2>2, <2>3, AnswersMove
  <2>5. QED
    BY <2>1, <2>4 DEF Turns
<1>5. LET i == Len(t) + 1 IN
      /\ c[i].role = "user" <=> IsFinalText(c[i - 1])
      /\ c[i].role = "tool" => AnswersACall(c, i)
  <2>1. c[Len(t)] = Last(t) /\ (Len(t) + 1) - 1 = Len(t)
    BY <1>1 DEF Last
  <2>2. QED
    BY <1>1, <1>2, <2>1
<1>6. ASSUME NEW i \in 2..Len(c)
      PROVE  /\ c[i].role = "user" <=> IsFinalText(c[i - 1])
             /\ c[i].role = "tool" => AnswersACall(c, i)
  <2>1. i \in 2..Len(t) \/ i = Len(t) + 1
    BY <1>1
  <2>2. QED
    BY <1>4, <1>5, <2>1
<1>7. Turns(c)
  BY <1>1, <1>3, <1>6 DEF Turns
<1>8. QED
  BY <1>7 DEF c

LEMMA AnsweredGrow ==
  ASSUME NEW t \in Seq(Messages), NEW m \in Messages, Answered(t),
         m.role = "assistant" => m.calls = <<>> \/ (Len(m.calls) = 1 /\ IsWrite(m.calls[1]))
  PROVE  Answered(Append(t, m))
<1>1. <<m>> \in Seq(Messages) /\ Len(<<m>>) = 1 /\ <<m>>[1] = m /\ DOMAIN <<m>> = {1}
  OBVIOUS
<1>2. m.role = "assistant" => Handled(<<m>>, 1)
  BY <1>1 DEF Handled, ReadsOnly
<1>3. Answered(<<m>>)
  BY <1>1, <1>2 DEF Answered
<1>4. Answered(t \o <<m>>)
  BY <1>1, <1>3, AnsweredJoin
<1>5. t \o <<m>> = Append(t, m)
  BY AppendedAt
<1>6. QED
  BY <1>4, <1>5

\* The answers of the requested reads make the turn an open one again.
LEMMA ReadsComplete ==
  ASSUME NEW t \in Seq(Messages), ReadingTurn(t), NEW answers \in Seq(Messages),
         Len(answers) = Len(Last(t).calls),
         \A i \in 1..Len(answers) : answers[i].role = "tool" /\ answers[i].id = i
  PROVE  OpenTurn(t \o answers)
<1> DEFINE c == t \o answers
           n == Len(t)
           size == Len(answers)
<1>1. /\ c \in Seq(Messages) /\ Len(c) = n + size
      /\ \A i \in 1..n : c[i] = t[i]
      /\ \A k \in 1..size : c[k + n] = answers[k]
      /\ n \in Nat \ {0} /\ size \in Nat
  <2>1. n \in Nat \ {0} /\ size \in Nat
    BY DEF ReadingTurn, Turns
  <2>2. QED
    BY <2>1, JoinedAt
<1>2. /\ t[n].role = "assistant" /\ t[n].calls \in Seq(Operations)
      /\ t[n].calls # <<>> /\ ReadsOnly(t[n].calls) /\ size = Len(t[n].calls)
      /\ size # 0 /\ Turns(t)
  <2>1. t[n] \in Messages /\ Last(t) = t[n]
    BY <1>1 DEF Last
  <2>2. t[n].role = "assistant" /\ t[n].calls # <<>> /\ ReadsOnly(t[n].calls) /\ Turns(t)
        /\ size = Len(t[n].calls)
    BY <2>1 DEF ReadingTurn
  <2>3. t[n].calls \in Seq(Operations)
    BY <2>1, <2>2, MessageShape
  <2>4. QED
    BY <2>2, <2>3
<1>3. \A k \in 1..size : c[k + n].role = "tool" /\ c[k + n].id = k
  BY <1>1
<1>4. n \in 1..n /\ c[n] = t[n] /\ DOMAIN t[n].calls = 1..size
  BY <1>1, <1>2
<1> HIDE DEF c, n, size
<1>5. ASSUME NEW k \in 1..size
      PROVE  AnswersACall(c, k + n)
  <2>1. c[n].role = "assistant" /\ c[k + n].id \in DOMAIN c[n].calls
    BY <1>2, <1>3, <1>4
  <2>2. ASSUME NEW l \in (n + 1)..((k + n) - 1)
        PROVE  c[l].role = "tool"
    <3>1. l - n \in 1..size /\ (l - n) + n = l
      BY <1>1
    <3>2. QED
      BY <1>3, <3>1
  <2>3. n \in 1..((k + n) - 1)
    BY <1>1
  <2>4. QED
    BY <2>1, <2>2, <2>3 DEF AnswersACall
<1>6. ASSUME NEW i \in 2..n
      PROVE  /\ c[i].role = "user" <=> IsFinalText(c[i - 1])
             /\ c[i].role = "tool" => AnswersACall(c, i)
  <2>1. c[i] = t[i] /\ c[i - 1] = t[i - 1] /\ i \in 1..n /\ i + 0 = i
    BY <1>1
  <2>2. \A l \in 1..Len(t) : c[l + 0] = t[l]
    BY <1>1 DEF n
  <2>3. Len(t) + 0 <= Len(c) /\ 0 \in Nat /\ i \in 1..Len(t)
    BY <1>1, <2>1 DEF n
  <2>4. AnswersACall(t, i) => AnswersACall(c, i + 0)
    BY <1>1, <2>2, <2>3, AnswersMove
  <2>5. (t[i].role = "user" <=> IsFinalText(t[i - 1])) /\ (t[i].role = "tool" => AnswersACall(t, i))
    BY <1>2 DEF Turns, n
  <2>6. QED
    BY <2>1, <2>4, <2>5
<1>7. ASSUME NEW k \in 1..size
      PROVE  /\ c[k + n].role = "user" <=> IsFinalText(c[(k + n) - 1])
             /\ c[k + n].role = "tool" => AnswersACall(c, k + n)
  <2>1. c[k + n].role = "tool" /\ AnswersACall(c, k + n)
    BY <1>3, <1>5
  <2>2. ~IsFinalText(c[(k + n) - 1])
    <3>1. CASE k = 1
      <4>1. (k + n) - 1 = n
        BY <1>1, <3>1
      <4>2. QED
        BY <1>2, <1>4, <4>1 DEF IsFinalText
    <3>2. CASE k # 1
      <4>1. k - 1 \in 1..size /\ (k - 1) + n = (k + n) - 1
        BY <1>1, <3>2
      <4>2. c[(k + n) - 1].role = "tool"
        BY <1>3, <4>1
      <4>3. QED
        BY <4>2 DEF IsFinalText
    <3>3. QED
      BY <3>1, <3>2
  <2>3. QED
    BY <2>1, <2>2
<1>8. Turns(c)
  <2>1. c # <<>> /\ c[1].role = "user"
    <3>1. Len(c) # 0 /\ 1 \in 1..n
      BY <1>1
    <3>2. c # <<>> /\ c[1] = t[1]
      BY <1>1, <3>1
    <3>3. QED
      BY <1>2, <3>2 DEF Turns
  <2>2. ASSUME NEW i \in 2..Len(c)
        PROVE  /\ c[i].role = "user" <=> IsFinalText(c[i - 1])
               /\ c[i].role = "tool" => AnswersACall(c, i)
    <3>1. i \in 2..n \/ (i - n \in 1..size /\ (i - n) + n = i)
      BY <1>1
    <3>2. QED
      BY <1>6, <1>7, <3>1
  <2>3. QED
    BY <2>1, <2>2 DEF Turns
<1>9. Answered(c)
  <2>1. ASSUME NEW j \in 1..(n - 1), c[j].role = "assistant"
        PROVE  Handled(c, j)
    <3>1. /\ Front(t) \in Seq(Messages) /\ Len(Front(t)) = n - 1
          /\ \A l \in 1..(n - 1) : Front(t)[l] = t[l]
      BY <1>1 DEF Front, n
    <3>2. \A l \in 1..Len(Front(t)) : c[l + 0] = Front(t)[l]
      <4>1. \A l \in 1..(n - 1) : l + 0 = l /\ l \in 1..n
        BY <1>1
      <4>2. 1..Len(Front(t)) = 1..(n - 1)
        BY <3>1
      <4>3. \A l \in 1..(n - 1) : c[l + 0] = t[l]
        BY <1>1, <4>1
      <4>4. QED
        BY <3>1, <4>2, <4>3
    <3>3. j \in 1..Len(Front(t)) /\ Front(t)[j] = c[j] /\ j + 0 = j
      BY <1>1, <3>1
    <3>4. Len(Front(t)) + 0 <= Len(c) /\ 0 \in Nat
      BY <1>1, <3>1
    <3>5. Handled(Front(t), j)
      BY <2>1, <3>1, <3>3 DEF ReadingTurn, Answered
    <3>6. Handled(c, j + 0)
      BY <1>1, <2>1, <3>1, <3>2, <3>3, <3>4, <3>5, AnswersMove
    <3>7. QED
      BY <3>3, <3>6
  <2>2. Handled(c, n)
    <3>1. ASSUME NEW k \in 1..size
          PROVE  ReadAnswered(c, n, k)
      <4>1. k + n = n + k /\ n + k <= Len(c)
        BY <1>1
      <4>2. QED
        BY <1>3, <4>1 DEF ReadAnswered
    <3>2. QED
      BY <1>2, <1>4, <3>1 DEF Handled
  <2>3. ASSUME NEW j \in DOMAIN c, c[j].role = "assistant"
        PROVE  Handled(c, j)
    <3>1. j \in 1..(n - 1) \/ j = n \/ (j - n \in 1..size /\ (j - n) + n = j)
      BY <1>1
    <3>2. CASE j - n \in 1..size /\ (j - n) + n = j
      BY <1>3, <2>3, <3>2
    <3>3. QED
      BY <2>1, <2>2, <2>3, <3>1, <3>2
  <2>4. QED
    BY <2>3 DEF Answered
<1>10. ~IsFinalText(Last(c))
  <2>1. size \in 1..size /\ size + n = Len(c)
    BY <1>1, <1>2
  <2>2. c[Len(c)].role = "tool"
    BY <1>3, <2>1
  <2>3. QED
    BY <2>2 DEF IsFinalText, Last
<1>11. QED
  BY <1>8, <1>9, <1>10 DEF OpenTurn, c

\* A history cut at a user message is still one of whole turns.
LEMMA WholeSuffix ==
  ASSUME NEW msgs \in Seq(Messages), Whole(msgs), NEW st \in 1..Len(msgs),
         msgs[st].role = "user"
  PROVE  Whole(SubSeq(msgs, st, Len(msgs)))
<1> DEFINE c == SubSeq(msgs, st, Len(msgs))
           n == Len(msgs)
           d == st - 1
<1>1. /\ c \in Seq(Messages) /\ Len(c) = n - d
      /\ \A i \in 1..(n - d) : c[i] = msgs[i + d]
      /\ n \in Nat \ {0} /\ d \in Nat /\ d < n /\ d + 1 = st
  <2>1. n \in Nat /\ st \in Nat /\ 1 <= st /\ st <= n
    OBVIOUS
  <2>2. Len(c) = n - d
    BY <2>1
  <2>3. ASSUME NEW i \in 1..(n - d)
        PROVE  c[i] = msgs[i + d]
    <3>1. i \in 1..((n - st) + 1) /\ (st + i) - 1 = i + d
      BY <2>1
    <3>2. c[i] = msgs[(st + i) - 1]
      BY <2>1, <3>1
    <3>3. QED
      BY <3>1, <3>2
  <2>4. c \in Seq(Messages)
    BY <2>1
  <2>5. QED
    BY <2>1, <2>2, <2>3, <2>4
<1>2. msgs # <<>> /\ Turns(msgs) /\ Answered(msgs) /\ IsFinalText(msgs[n])
  <2>1. msgs # <<>>
    BY <1>1
  <2>2. QED
    BY <2>1 DEF Whole, Last
<1> HIDE DEF c, n, d
<1>3. c # <<>> /\ c[1].role = "user"
  <2>1. 1 \in 1..(n - d) /\ 1 + d = st /\ Len(c) # 0
    BY <1>1
  <2>2. QED
    BY <1>1, <2>1
<1>4. ASSUME NEW i \in 2..Len(c)
      PROVE  /\ c[i].role = "user" <=> IsFinalText(c[i - 1])
             /\ c[i].role = "tool" => AnswersACall(c, i)
  <2>1. /\ i \in 1..(n - d) /\ i - 1 \in 1..(n - d) /\ (i - 1) + d = (i + d) - 1
        /\ i + d \in 2..n
    BY <1>1
  <2>2. c[i] = msgs[i + d] /\ c[i - 1] = msgs[(i + d) - 1]
    BY <1>1, <2>1
  <2>3. /\ msgs[i + d].role = "user" <=> IsFinalText(msgs[(i + d) - 1])
        /\ msgs[i + d].role = "tool" => AnswersACall(msgs, i + d)
    BY <1>2, <2>1 DEF Turns, n
  <2>4. ASSUME AnswersACall(msgs, i + d)
        PROVE  AnswersACall(c, i)
    <3>1. PICK j \in 1..((i + d) - 1) :
            /\ msgs[j].role = "assistant" /\ msgs[i + d].id \in DOMAIN msgs[j].calls
            /\ \A k \in (j + 1)..((i + d) - 1) : msgs[k].role = "tool"
      BY <2>4 DEF AnswersACall
    <3>2. j >= st
      <4>1. SUFFICES ASSUME j < st PROVE FALSE
        BY <1>1
      <4>2. st \in (j + 1)..((i + d) - 1)
        BY <1>1, <2>1, <4>1
      <4>3. QED
        BY <3>1, <4>2
    <3>3. j - d \in 1..(n - d) /\ (j - d) + d = j /\ j - d \in 1..(i - 1)
      BY <1>1, <2>1, <3>2
    <3>4. c[j - d] = msgs[j]
      BY <1>1, <3>3
    <3>5. ASSUME NEW k \in ((j - d) + 1)..(i - 1)
          PROVE  c[k].role = "tool"
      <4>1. k \in 1..(n - d) /\ k + d \in (j + 1)..((i + d) - 1)
        BY <1>1, <2>1, <3>3
      <4>2. QED
        BY <1>1, <3>1, <4>1
    <3>6. QED
      BY <2>2, <3>1, <3>3, <3>4, <3>5 DEF AnswersACall
  <2>5. QED
    BY <2>2, <2>3, <2>4
<1>5. ASSUME NEW i \in DOMAIN c, c[i].role = "assistant"
      PROVE  Handled(c, i)
  <2>1. i \in 1..(n - d) /\ i + d \in DOMAIN msgs /\ c[i] = msgs[i + d] /\ i \in Nat
    BY <1>1 DEF n
  <2>2. Handled(msgs, i + d)
    BY <1>2, <1>5, <2>1 DEF Answered
  <2>3. DOMAIN c[i].calls \subseteq Nat \ {0}
    <3>1. c[i] \in Messages
      BY <1>1
    <3>2. c[i].calls \in Seq(Operations)
      BY <1>5, <3>1, MessageShape
    <3>3. QED
      BY <3>2
  <2>4. ASSUME NEW k \in Nat \ {0}, ReadAnswered(msgs, i + d, k)
        PROVE  ReadAnswered(c, i, k)
    <3>1. (i + d) + k <= n
      BY <2>4 DEF ReadAnswered, n
    <3>2. i + k \in 1..(n - d) /\ (i + k) + d = (i + d) + k
      <4>1. n \in Int /\ d \in Int /\ i \in Int /\ k \in Int /\ 1 <= i /\ 1 <= k
        BY <1>1, <2>1
      <4>2. (i + k) + d = (i + d) + k
        BY <4>1
      <4>3. 1 <= i + k /\ i + k <= n - d
        BY <3>1, <4>1
      <4>4. QED
        BY <4>1, <4>2, <4>3
    <3>3. c[i + k] = msgs[(i + d) + k] /\ i + k <= Len(c)
      <4>1. PICK l \in 1..(n - d) : l = i + k
        BY <3>2
      <4>2. c[l] = msgs[l + d]
        BY <1>1
      <4>3. l + d = (i + d) + k
        BY <3>2, <4>1
      <4>4. l <= Len(c)
        BY <1>1
      <4>5. QED
        BY <4>1, <4>2, <4>3, <4>4
    <3>4. QED
      BY <2>4, <3>3 DEF ReadAnswered
  <2>5. CASE ReadsOnly(c[i].calls) /\ \A k \in DOMAIN c[i].calls : ReadAnswered(msgs, i + d, k)
    BY <2>3, <2>4, <2>5 DEF Handled
  <2>6. QED
    BY <2>1, <2>2, <2>5 DEF Handled
<1>6. IsFinalText(Last(c))
  <2>1. Len(c) \in 1..(n - d) /\ Len(c) + d = n
    BY <1>1
  <2>2. QED
    BY <1>1, <1>2, <2>1 DEF Last
<1>7. Turns(c) /\ Answered(c)
  BY <1>3, <1>4, <1>5 DEF Turns, Answered
<1>8. QED
  BY <1>6, <1>7 DEF Whole, c

\* The compaction window starts with a turn.
LEMMA WindowIsWhole ==
  ASSUME NEW msgs \in Seq(Messages), Whole(msgs)
  PROVE  Whole(RecentMessages(msgs))
<1>1. CASE Len(msgs) <= RecentCount
  BY <1>1 DEF RecentMessages
<1>2. CASE ~(Len(msgs) <= RecentCount)
  <2> DEFINE start == Len(msgs) - RecentCount + 1
             turns == {i \in 1..start : i = 1 \/ msgs[i].role = "user"}
             first == CHOOSE i \in turns : \A j \in turns : j <= i
  <2>1. Len(msgs) \in Nat \ {0} /\ start \in Nat \ {0} /\ start <= Len(msgs) + 1
    BY <1>2, RecentAssumption
  <2>2. turns \in SUBSET (1..start) /\ turns # {}
    <3>1. 1 \in turns
      BY <2>1
    <3>2. QED
      BY <3>1
  <2>3. \E i \in turns : \A j \in turns : j <= i
    <3>1. start \in Nat
      BY <2>1
    <3> HIDE DEF turns, start
    <3>2. QED
      BY <2>2, <3>1, Greatest
  <2>4. first \in turns
    BY <2>3
  <2>5. RecentMessages(msgs) = SubSeq(msgs, first, Len(msgs))
    BY <1>2 DEF RecentMessages
  <2>6. first \in 1..start /\ (first = 1 \/ msgs[first].role = "user")
    BY <2>4
  <2> HIDE DEF first, turns, start
  <2>7. CASE first \in 1..Len(msgs)
    <3>1. msgs # <<>>
      BY <2>1
    <3>2. msgs[first].role = "user"
      BY <2>6, <3>1 DEF Whole, Turns
    <3>3. QED
      BY <2>5, <2>7, <3>2, WholeSuffix
  <2>8. CASE first = Len(msgs) + 1
    <3>1. SubSeq(msgs, first, Len(msgs)) = <<>>
      BY <2>1, <2>8
    <3>2. QED
      BY <2>5, <3>1 DEF Whole
  <2>9. QED
    BY <2>1, <2>6, <2>7, <2>8
<1>3. QED
  BY <1>1, <1>2

\* PricedAt, of the first n messages.
PricedUpTo(msgs, n, args) ==
  \E j \in 1..n :
    /\ msgs[j].role = "assistant"
    /\ \E k \in DOMAIN msgs[j].calls :
         /\ msgs[j].calls[k].tool = "quote_sale"
         /\ j + k <= n /\ msgs[j + k] = ToolMessage(k, args)
         /\ \A i \in DOMAIN msgs[j].calls : i > k => msgs[j].calls[i].tool = "read"
    /\ \A l \in (j + 1)..n : msgs[l].role = "assistant" =>
         \A i \in DOMAIN msgs[l].calls : msgs[l].calls[i].tool = "read"

\* The result of a quote, its message's call `open', has not come by message n.
AwaitsQuote(msgs, n, open) ==
  \E j \in 1..n :
    /\ msgs[j].role = "assistant" /\ open \in DOMAIN msgs[j].calls
    /\ msgs[j].calls[open].tool = "quote_sale"
    /\ \A i \in DOMAIN msgs[j].calls : i > open => msgs[j].calls[i].tool = "read"
    /\ n < j + open

\* Message j asked for that quote, and the answers to j run up to message n.
IsAnswering(msgs, n, open, j) ==
  /\ msgs[j].role = "assistant" /\ open \in DOMAIN msgs[j].calls
  /\ msgs[j].calls[open].tool = "quote_sale"
  /\ \A i \in DOMAIN msgs[j].calls : i > open => msgs[j].calls[i].tool = "read"
  /\ n <= j + open
  /\ \A l \in (j + 1)..n : msgs[l].role = "tool" /\ msgs[l].id = l - j

QuoteState(msgs, n, acc) ==
  /\ acc.open # 0 => acc.args = None /\ AwaitsQuote(msgs, n, acc.open)
  /\ acc.args # None => PricedUpTo(msgs, n, acc.args)

\* A message right after a pending quote's is the answer to a call before it, or to it.
LEMMA QuoteIsAnswered ==
  ASSUME NEW msgs \in Seq(Messages), Answered(msgs), NEW n \in 1..Len(msgs),
         NEW open \in Nat, AwaitsQuote(msgs, n - 1, open)
  PROVE  \E j \in 1..(n - 1) : IsAnswering(msgs, n, open, j)
<1>1. PICK j \in 1..(n - 1) :
        /\ msgs[j].role = "assistant" /\ open \in DOMAIN msgs[j].calls
        /\ msgs[j].calls[open].tool = "quote_sale"
        /\ \A i \in DOMAIN msgs[j].calls : i > open => msgs[j].calls[i].tool = "read"
        /\ n - 1 < j + open
  BY DEF AwaitsQuote
<1>2. n \in Nat /\ j \in Nat /\ Len(msgs) \in Nat /\ j \in DOMAIN msgs
  OBVIOUS
<1>3. msgs[j].calls \in Seq(Operations)
  <2>1. msgs[j] \in Messages
    BY <1>2
  <2>2. QED
    BY <1>1, <2>1, MessageShape
<1>4. \A k \in DOMAIN msgs[j].calls : ReadAnswered(msgs, j, k)
  <2>1. Handled(msgs, j)
    BY <1>1, <1>2 DEF Answered
  <2>2. ~(Len(msgs[j].calls) = 1 /\ IsWrite(msgs[j].calls[1]))
    <3>1. SUFFICES ASSUME Len(msgs[j].calls) = 1 PROVE ~IsWrite(msgs[j].calls[1])
      OBVIOUS
    <3>2. open = 1
      BY <1>1, <1>3, <3>1
    <3>3. QED
      BY <1>1, <3>2 DEF IsWrite, WriteTools
  <2>3. QED
    BY <2>1, <2>2 DEF Handled
<1>5. ASSUME NEW l \in (j + 1)..n
      PROVE  msgs[l].role = "tool" /\ msgs[l].id = l - j
  <2>1. l - j \in 1..open /\ j + (l - j) = l
    BY <1>1, <1>2
  <2>2. l - j \in DOMAIN msgs[j].calls
    BY <1>1, <1>3, <2>1
  <2>3. QED
    BY <1>4, <2>1, <2>2 DEF ReadAnswered
<1>6. n <= j + open
  BY <1>1, <1>2
<1>7. QED
  BY <1>1, <1>5, <1>6 DEF IsAnswering

LEMMA QuoteStepKeeps ==
  ASSUME NEW msgs \in Seq(Messages), Turns(msgs), Answered(msgs), NEW n \in 1..Len(msgs),
         NEW acc, acc.open \in Nat, QuoteState(msgs, n - 1, acc)
  PROVE  /\ QuoteState(msgs, n, QuoteStep(acc, msgs[n]))
         /\ QuoteStep(acc, msgs[n]).open \in Nat
<1> DEFINE m == msgs[n]
           next == QuoteStep(acc, m)
           Decisive == m.role = "assistant" /\ \E i \in DOMAIN m.calls : m.calls[i].tool # "read"
<1>1. n \in Nat /\ m \in Messages /\ Len(msgs) \in Nat /\ n \in DOMAIN msgs
  OBVIOUS
<1>2. CASE Decisive
  <2> DEFINE Latest(i) == /\ m.calls[i].tool # "read"
                          /\ \A j \in DOMAIN m.calls : j > i => m.calls[j].tool = "read"
             last == CHOOSE i \in DOMAIN m.calls : Latest(i)
  <2>1. m.calls \in Seq(Operations)
    BY <1>1, <1>2, MessageShape
  <2>2. \E i \in DOMAIN m.calls : Latest(i)
    <3> DEFINE T == {i \in DOMAIN m.calls : m.calls[i].tool # "read"}
    <3>1. Len(m.calls) \in Nat /\ T \in SUBSET (1..Len(m.calls)) /\ T # {}
      BY <1>2, <2>1
    <3>2. PICK g \in T : \A k \in T : k <= g
      <4> HIDE DEF T
      <4>1. QED
        BY <3>1, Greatest
    <3>3. Latest(g)
      BY <2>1, <3>2
    <3>4. QED
      BY <3>2, <3>3
  <2>3. last \in DOMAIN m.calls /\ Latest(last)
    BY <2>2
  <2>4. next = [open |-> IF m.calls[last].tool = "quote_sale" THEN last ELSE 0, args |-> None]
    BY <1>2 DEF QuoteStep
  <2> HIDE DEF last, next
  <2>5. last \in Nat \ {0}
    BY <2>1, <2>3
  <2>6. next.open \in Nat /\ next.args = None
    BY <2>4, <2>5
  <2>7. ASSUME next.open # 0
        PROVE  AwaitsQuote(msgs, n, next.open)
    <3>1. next.open = last /\ m.calls[last].tool = "quote_sale"
      BY <2>4, <2>7
    <3>2. n < n + last /\ n \in 1..n
      BY <1>1, <2>5
    <3>3. QED
      BY <1>2, <2>3, <3>1, <3>2 DEF AwaitsQuote
  <2>8. QED
    BY <2>6, <2>7 DEF QuoteState, next
<1>3. CASE m.role = "tool" /\ acc.open = m.id
  <2>1. next = [open |-> 0, args |-> IF m.result \in SaleArgs THEN m.result ELSE acc.args]
    BY <1>3 DEF QuoteStep
  <2>2. m = ToolMessage(m.id, m.result)
    BY <1>1, <1>3, MessageShape
  <2>3. acc.open # 0
    <3>1. n # 1
      BY <1>3 DEF Turns
    <3>2. n \in 2..Len(msgs)
      BY <1>1, <3>1
    <3>3. AnswersACall(msgs, n)
      BY <1>3, <3>2 DEF Turns
    <3>4. PICK j \in 1..(n - 1) : msgs[j].role = "assistant" /\ m.id \in DOMAIN msgs[j].calls
      BY <3>3 DEF AnswersACall
    <3>5. msgs[j] \in Messages
      BY <1>1
    <3>6. msgs[j].calls \in Seq(Operations)
      BY <3>4, <3>5, MessageShape
    <3>7. QED
      BY <1>3, <3>4, <3>6
  <2>4. acc.args = None /\ AwaitsQuote(msgs, n - 1, acc.open)
    BY <2>3 DEF QuoteState
  <2>5. PICK j \in 1..(n - 1) : IsAnswering(msgs, n, acc.open, j)
    BY <2>4, QuoteIsAnswered
  <2>6. n = j + acc.open /\ j \in 1..n
    <3>1. n \in (j + 1)..n
      BY <1>1
    <3>2. m.id = n - j
      BY <2>5, <3>1 DEF IsAnswering
    <3>3. QED
      BY <1>1, <1>3, <3>2
  <2> HIDE DEF next
  <2>7. next.open = 0 /\ (next.args # None => next.args = m.result)
    BY <2>1, <2>4
  <2>8. PricedUpTo(msgs, n, m.result)
    <3>1. \A l \in (j + 1)..n : msgs[l].role # "assistant"
      BY <2>5 DEF IsAnswering
    <3>2. j + acc.open <= n /\ msgs[j + acc.open] = ToolMessage(acc.open, m.result)
      BY <1>1, <1>3, <2>2, <2>6
    <3>3. QED
      BY <2>5, <2>6, <3>1, <3>2 DEF PricedUpTo, IsAnswering
  <2>9. QED
    BY <2>7, <2>8 DEF QuoteState, next
<1>4. CASE ~Decisive /\ ~(m.role = "tool" /\ acc.open = m.id)
  <2>1. next = acc
    BY <1>4 DEF QuoteStep
  <2>2. ASSUME acc.open # 0
        PROVE  acc.args = None /\ AwaitsQuote(msgs, n, acc.open)
    <3>1. acc.args = None /\ AwaitsQuote(msgs, n - 1, acc.open)
      BY <2>2 DEF QuoteState
    <3>2. PICK j \in 1..(n - 1) : IsAnswering(msgs, n, acc.open, j)
      BY <3>1, QuoteIsAnswered
    <3>3. m.role = "tool" /\ m.id = n - j
      <4>1. n \in (j + 1)..n
        BY <1>1
      <4>2. QED
        BY <3>2, <4>1 DEF IsAnswering
    <3>4. n # j + acc.open
      BY <1>1, <1>4, <3>3
    <3>5. n < j + acc.open /\ j \in 1..n
      BY <1>1, <3>2, <3>4 DEF IsAnswering
    <3>6. QED
      BY <3>1, <3>2, <3>5 DEF AwaitsQuote, IsAnswering
  <2>3. ASSUME acc.args # None
        PROVE  PricedUpTo(msgs, n, acc.args)
    <3>1. PICK j \in 1..(n - 1) :
            /\ msgs[j].role = "assistant"
            /\ \E k \in DOMAIN msgs[j].calls :
                 /\ msgs[j].calls[k].tool = "quote_sale"
                 /\ j + k <= n - 1 /\ msgs[j + k] = ToolMessage(k, acc.args)
                 /\ \A i \in DOMAIN msgs[j].calls : i > k => msgs[j].calls[i].tool = "read"
            /\ \A l \in (j + 1)..(n - 1) : msgs[l].role = "assistant" =>
                 \A i \in DOMAIN msgs[l].calls : msgs[l].calls[i].tool = "read"
      BY <2>3 DEF QuoteState, PricedUpTo
    <3>2. PICK k \in DOMAIN msgs[j].calls :
            /\ msgs[j].calls[k].tool = "quote_sale"
            /\ j + k <= n - 1 /\ msgs[j + k] = ToolMessage(k, acc.args)
            /\ \A i \in DOMAIN msgs[j].calls : i > k => msgs[j].calls[i].tool = "read"
      BY <3>1
    <3>3. j + k <= n /\ j \in 1..n
      <4>1. msgs[j] \in Messages
        BY <1>1
      <4>2. msgs[j].calls \in Seq(Operations)
        BY <3>1, <4>1, MessageShape
      <4>3. k \in Nat
        BY <4>2
      <4>4. QED
        BY <1>1, <3>2, <4>3
    <3>4. ASSUME NEW l \in (j + 1)..n, msgs[l].role = "assistant"
          PROVE  \A i \in DOMAIN msgs[l].calls : msgs[l].calls[i].tool = "read"
      <4>1. CASE l = n
        BY <1>4, <3>4, <4>1
      <4>2. CASE l # n
        <5>1. l \in (j + 1)..(n - 1)
          BY <1>1, <4>2
        <5>2. QED
          BY <3>1, <3>4, <5>1
      <4>3. QED
        BY <4>1, <4>2
    <3>5. QED
      BY <3>1, <3>2, <3>3, <3>4 DEF PricedUpTo
  <2>4. QED
    BY <2>1, <2>2, <2>3 DEF QuoteState
<1>5. QED
  BY <1>2, <1>3, <1>4

(* The fold that hasMatchingSaleQuote is finds a quote only where the      *)
(* messages price the sale.                                                *)
LEMMA MatchingQuoteIsPriced ==
  ASSUME NEW msgs \in Seq(Messages), Turns(msgs), Answered(msgs),
         NEW args, HasMatchingSaleQuote(msgs, args)
  PROVE  PricedAt(msgs, args)
<1>1. PICK a : /\ a[0] = NoQuote
               /\ \A k \in 1..Len(msgs) : a[k] = QuoteStep(a[k - 1], msgs[k])
               /\ UsableQuote(msgs) = a[Len(msgs)].args
  BY QuoteAccumulators
<1> DEFINE Holds(n) == QuoteState(msgs, n, a[n]) /\ a[n].open \in Nat
           Bad == {n \in 0..Len(msgs) : ~Holds(n)}
<1>2. Bad = {}
  <2>1. SUFFICES ASSUME Bad # {} PROVE FALSE
    OBVIOUS
  <2>2. PICK n \in Bad : \A k \in Bad : n <= k
    <3>1. Bad \in SUBSET Nat
      OBVIOUS
    <3> HIDE DEF Bad
    <3>2. QED
      BY <2>1, <3>1, Least
  <2>3. n # 0
    <3>1. Holds(0)
      BY <1>1 DEF QuoteState, NoQuote
    <3>2. QED
      BY <3>1
  <2>4. n \in 1..Len(msgs) /\ n - 1 \in 0..Len(msgs)
    BY <2>3
  <2>5. Holds(n - 1)
    BY <2>2, <2>4
  <2>6. a[n] = QuoteStep(a[n - 1], msgs[n])
    BY <1>1, <2>4
  <2>7. Holds(n)
    BY <2>4, <2>5, <2>6, QuoteStepKeeps
  <2>8. QED
    BY <2>7
<1>3. QuoteState(msgs, Len(msgs), a[Len(msgs)])
  <2>1. Len(msgs) \in 0..Len(msgs)
    OBVIOUS
  <2>2. QED
    BY <1>2, <2>1
<1>4. UsableQuote(msgs) # None /\ UsableQuote(msgs) = args
  BY DEF HasMatchingSaleQuote
<1>5. PricedUpTo(msgs, Len(msgs), args)
  BY <1>1, <1>3, <1>4 DEF QuoteState
<1>6. DOMAIN msgs = 1..Len(msgs)
  OBVIOUS
<1>7. QED
  BY <1>5, <1>6 DEF PricedUpTo, PricedAt

-----------------------------------------------------------------------------
(* The inductive invariant.  What the properties say of histories and of   *)
(* pending writes is kept only together with the shape of every turn in    *)
(* progress, at each of its awaits.                                        *)

\* The turn of a request, by the await the request is in.
GoodTurn(q) ==
  /\ q.pc \in {"compacting", "model", "explaining"} => OpenTurn(q.turn)
  /\ q.pc = "reading" => ReadingTurn(q.turn)
  /\ q.pc \in {"describing", "writing"} =>
       /\ OpenTurn(q.turn) /\ Last(q.turn) = AssistantMessage(<<q.operation>>)
       /\ QuotedSale(q.context, q.turn, q.operation)

\* A stored proposal is the last call of an open turn, and priced if a sale.
GoodPending(s) ==
  pending[s] # None =>
    /\ OpenTurn(pending[s].turn)
    /\ Last(pending[s].turn) = AssistantMessage(<<pending[s].operation>>)
    /\ QuotedSale(messages[s], pending[s].turn, pending[s].operation)

WholeHistories == \A s \in Sessions : Whole(messages[s])
GoodPendings == \A s \in Sessions : GoodPending(s)
GoodTurns == \A r \in Requests : GoodTurn(req[r])
BusyMeansUndecided == \A r \in Requests : Active(r) => pending[req[r].session] = None

HistoryInv == WholeHistories /\ GoodPendings /\ GoodTurns /\ BusyMeansUndecided

HInv == TypeInv /\ ContextIsCurrent /\ HistoryInv

LEMMA IdleTurn == GoodTurn(IdleRequest)
BY DEF GoodTurn, IdleRequest

LEMMA HistoryUnchanged ==
  ASSUME HistoryInv, UNCHANGED <<messages, pending, req>>
  PROVE  HistoryInv'
BY DEF HistoryInv, WholeHistories, GoodPendings, GoodPending, GoodTurns, BusyMeansUndecided,
   Active

\* A step of one request that leaves the store alone.
LEMMA TurnStep ==
  ASSUME HInv, NEW r \in Requests, NEW q, GoodTurn(q), req' = [req EXCEPT ![r] = q],
         q.pc # "idle" => Active(r) /\ q.session = req[r].session,
         UNCHANGED <<messages, pending>>
  PROVE  HistoryInv'
<1>1. req'[r] = q /\ \A o \in Requests \ {r} : req'[o] = req[o]
  BY DEF HInv, TypeInv, RequestTypes
<1>2. WholeHistories' /\ GoodPendings'
  BY DEF HInv, HistoryInv, WholeHistories, GoodPendings, GoodPending
<1>3. GoodTurns'
  BY <1>1 DEF HInv, HistoryInv, GoodTurns
<1>4. BusyMeansUndecided'
  BY <1>1 DEF HInv, HistoryInv, BusyMeansUndecided, Active
<1>5. QED
  BY <1>2, <1>3, <1>4 DEF HistoryInv

\* The facts about a request in progress.
LEMMA BusyRequest ==
  ASSUME HInv, NEW r \in Requests, Active(r)
  PROVE  /\ req[r].session \in Sessions /\ req[r].context = messages[req[r].session]
         /\ Whole(req[r].context) /\ req[r].context \in Seq(Messages)
         /\ req[r].turn \in Seq(Messages) /\ GoodTurn(req[r])
         /\ pending[req[r].session] = None
<1>1. req[r].session \in Sessions
  BY RequestFields DEF HInv, Active
<1>2. req[r].context = messages[req[r].session]
  BY DEF HInv, ContextIsCurrent
<1>3. Whole(messages[req[r].session])
  BY <1>1 DEF HInv, HistoryInv, WholeHistories
<1>4. req[r].turn \in Seq(Messages) /\ req[r].context \in Seq(Messages)
  BY RequestFields DEF HInv
<1>5. QED
  BY <1>1, <1>2, <1>3, <1>4 DEF HInv, HistoryInv, GoodTurns, BusyMeansUndecided

\* A request that ends by storing its completed turn.
LEMMA TurnIsStored ==
  ASSUME HInv, NEW r \in Requests, Active(r), NEW turn \in Seq(Messages), turn # <<>>,
         Whole(turn), AppendCompletedTurn(req[r].session, turn), Release(r),
         pending' = pending
  PROVE  HistoryInv'
<1> DEFINE s == req[r].session
<1>1. s \in Sessions /\ pending[s] = None /\ Whole(messages[s]) /\ messages[s] \in Seq(Messages)
  BY BusyRequest
<1>2. req'[r] = IdleRequest /\ \A o \in Requests \ {r} : req'[o] = req[o]
  BY DEF HInv, TypeInv, RequestTypes, Release
<1>3. messages'[s] = messages[s] \o turn /\ \A t \in Sessions \ {s} : messages'[t] = messages[t]
  BY <1>1 DEF HInv, TypeInv, StoreTypes, AppendCompletedTurn
<1> HIDE DEF s
<1>4. WholeHistories'
  <2>1. Whole(messages[s] \o turn)
    BY <1>1, WholeJoin
  <2>2. QED
    BY <1>3, <2>1 DEF HInv, HistoryInv, WholeHistories
<1>5. GoodPendings'
  BY <1>1, <1>3 DEF HInv, HistoryInv, GoodPendings, GoodPending
<1>6. GoodTurns'
  BY <1>2, IdleTurn DEF HInv, HistoryInv, GoodTurns
<1>7. BusyMeansUndecided'
  BY <1>2 DEF HInv, HistoryInv, BusyMeansUndecided, Active, IdleRequest
<1>8. QED
  BY <1>4, <1>5, <1>6, <1>7 DEF HistoryInv

\* The final text closes an open turn.
LEMMA FinalTextCloses ==
  ASSUME NEW t \in Seq(Messages), OpenTurn(t)
  PROVE  Whole(Append(t, FinalText)) /\ Append(t, FinalText) \in Seq(Messages)
         /\ Append(t, FinalText) # <<>>
<1>1. FinalText \in Messages /\ FinalText.role = "assistant" /\ FinalText.calls = <<>>
      /\ IsFinalText(FinalText)
  BY MessageTypes, NewMessages
<1>2. Turns(Append(t, FinalText))
  BY <1>1, TurnsGrow DEF OpenTurn
<1>3. Answered(Append(t, FinalText))
  BY <1>1, AnsweredGrow DEF OpenTurn
<1>4. QED
  BY <1>1, <1>2, <1>3, AppendedAt DEF Whole

\* The result of the confirmed write keeps the turn open.
LEMMA WriteAnswered ==
  ASSUME NEW t \in Seq(Messages), NEW operation, NEW result \in {"ok", "error"},
         OpenTurn(t), Last(t) = AssistantMessage(<<operation>>)
  PROVE  OpenTurn(Append(t, ToolMessage(1, result))) /\ ToolMessage(1, result) \in Messages
<1> DEFINE m == ToolMessage(1, result)
           c == Append(t, m)
<1>1. m \in Messages /\ m.role = "tool" /\ m.id = 1 /\ ~IsFinalText(m)
  BY MessageTypes, NewMessages
<1>2. t # <<>>
  BY DEF OpenTurn, Turns
<1> HIDE DEF m
<1>3. AnswersACall(c, Len(t) + 1)
  <2>1. /\ Len(t) \in Nat \ {0} /\ c[Len(t) + 1] = m
        /\ \A n \in 1..Len(t) : c[n] = t[n]
    BY <1>1, <1>2, AppendedAt
  <2>2. c[Len(t)] = AssistantMessage(<<operation>>)
    BY <2>1 DEF Last
  <2>3. DOMAIN <<operation>> = {1}
    OBVIOUS
  <2>4. c[Len(t)].role = "assistant" /\ 1 \in DOMAIN c[Len(t)].calls
    BY <2>2, <2>3, NewMessages
  <2> HIDE DEF c
  <2>5. Len(t) \in 1..((Len(t) + 1) - 1) /\ (Len(t) + 1)..((Len(t) + 1) - 1) = {}
    BY <2>1
  <2>6. QED
    BY <1>1, <2>1, <2>4, <2>5 DEF AnswersACall
<1>4. Turns(c)
  BY <1>1, <1>3, TurnsGrow DEF OpenTurn
<1>5. Answered(c)
  BY <1>1, AnsweredGrow DEF OpenTurn
<1>6. Last(c) = m
  BY <1>1, AppendedAt
<1>7. OpenTurn(c)
  BY <1>1, <1>4, <1>5, <1>6 DEF OpenTurn
<1>8. QED
  BY <1>1, <1>7 DEF m, c

-----------------------------------------------------------------------------
(* Every step keeps the histories, the turns and the pending writes good.   *)

LEMMA FirstTurn == OpenTurn(<<UserMessage>>)
<1> DEFINE t == <<UserMessage>>
<1>1. Len(t) = 1 /\ t[1] = UserMessage /\ t # <<>> /\ DOMAIN t = {1} /\ Last(t) = UserMessage
  BY DEF Last
<1> HIDE DEF t
<1>2. 2..Len(t) = {}
  BY <1>1
<1>3. Turns(t)
  BY <1>1, <1>2, NewMessages DEF Turns
<1>4. Answered(t)
  BY <1>1, NewMessages DEF Answered
<1>5. QED
  BY <1>1, <1>3, <1>4, NewMessages DEF OpenTurn, t

LEMMA SessionHistories ==
  ASSUME HInv, NEW s \in Sessions, CreateSession(s) \/ CloseSession(s)
  PROVE  HistoryInv'
<1>1. CASE CreateSession(s)
  BY <1>1, HistoryUnchanged DEF CreateSession, HInv
<1>2. CASE CloseSession(s)
  <2>1. /\ messages'[s] = <<>> /\ pending'[s] = None /\ req' = req
        /\ \A t \in Sessions \ {s} : messages'[t] = messages[t] /\ pending'[t] = pending[t]
    BY <1>2 DEF CloseSession, HInv, TypeInv, StoreTypes
  <2>2. WholeHistories'
    BY <2>1 DEF HInv, HistoryInv, WholeHistories, Whole
  <2>3. GoodPendings'
    BY <2>1 DEF HInv, HistoryInv, GoodPendings, GoodPending
  <2>4. GoodTurns'
    BY <2>1 DEF HInv, HistoryInv, GoodTurns
  <2>5. BusyMeansUndecided'
    <3>1. \A r \in Requests : Active(r) => req[r].session \in Sessions
      BY RequestFields DEF HInv, Active
    <3>2. QED
      BY <2>1, <3>1 DEF HInv, HistoryInv, BusyMeansUndecided, Active
  <2>6. QED
    BY <2>2, <2>3, <2>4, <2>5 DEF HistoryInv
<1>3. QED
  BY <1>1, <1>2

LEMMA SendHistories ==
  ASSUME HInv, NEW r \in Requests, NEW s \in Sessions, SendMessage(r, s)
  PROVE  HistoryInv'
<1>0. \A o \in Requests : Active(o) => req[o].session \in Sessions
  BY RequestFields DEF HInv, Active
\* A handler that takes the session over, with no write left pending in it.
<1>1. ASSUME NEW q, GoodTurn(q), q.session = s, req' = [req EXCEPT ![r] = q],
             messages' = messages, pending'[s] = None,
             \A t \in Sessions \ {s} : pending'[t] = pending[t]
      PROVE  HistoryInv'
  <2>1. req'[r] = q /\ \A o \in Requests \ {r} : req'[o] = req[o]
    BY <1>1 DEF HInv, TypeInv, RequestTypes
  <2>2. WholeHistories'
    BY <1>1 DEF HInv, HistoryInv, WholeHistories
  <2>3. GoodPendings'
    BY <1>1 DEF HInv, HistoryInv, GoodPendings, GoodPending
  <2>4. GoodTurns'
    BY <1>1, <2>1 DEF HInv, HistoryInv, GoodTurns
  <2>5. BusyMeansUndecided'
    BY <1>0, <1>1, <2>1 DEF HInv, HistoryInv, BusyMeansUndecided, Active
  <2>6. QED
    BY <2>2, <2>3, <2>4, <2>5 DEF HistoryInv
<1>2. CASE BeginTurn(r, s)
  <2>1. PICK pc \in {"compacting", "model"} :
          req' = [req EXCEPT ![r] =
                    [pc |-> pc, session |-> s, context |-> messages[s],
                     turn |-> <<UserMessage>>, round |-> 0, operation |-> None,
                     id |-> None]]
    BY <1>2 DEF BeginTurn
  <2> DEFINE q == [pc |-> pc, session |-> s, context |-> messages[s],
                   turn |-> <<UserMessage>>, round |-> 0, operation |-> None, id |-> None]
  <2>2. GoodTurn(q) /\ q.session = s
    BY FirstTurn DEF GoodTurn
  <2>3. req' = [req EXCEPT ![r] = q]
    BY <2>1
  <2> HIDE DEF q
  <2>4. messages' = messages /\ pending' = pending /\ pending[s] = None
    BY <1>2 DEF BeginTurn, store
  <2>5. QED
    BY <1>1, <2>2, <2>3, <2>4
<1>3. ASSUME NEW text \in Texts, CancelPending(r, s, text)
      PROVE  HistoryInv'
  <2>1. /\ pending'[s] = None /\ messages' = messages /\ req' = req
        /\ \A t \in Sessions \ {s} : pending'[t] = pending[t]
    BY <1>3 DEF CancelPending, HInv, TypeInv, StoreTypes
  <2>2. WholeHistories' /\ GoodPendings' /\ GoodTurns'
    BY <2>1 DEF HInv, HistoryInv, WholeHistories, GoodPendings, GoodPending, GoodTurns
  <2>3. BusyMeansUndecided'
    BY <1>0, <2>1 DEF HInv, HistoryInv, BusyMeansUndecided, Active
  <2>4. QED
    BY <2>2, <2>3 DEF HistoryInv
<1>4. ASSUME NEW text \in Texts, ConfirmPending(r, s, text)
      PROVE  HistoryInv'
  <2> DEFINE q == [pc |-> "writing", session |-> s, context |-> messages[s],
                   turn |-> pending[s].turn, round |-> 0,
                   operation |-> pending[s].operation, id |-> pending[s].id]
  <2>1. req' = [req EXCEPT ![r] = q]
    BY <1>4 DEF ConfirmPending
  <2>2. pending[s] # None
    BY <1>4 DEF ConfirmPending
  <2>3. GoodTurn(q) /\ q.session = s
    <3>1. GoodPending(s)
      BY DEF HInv, HistoryInv, GoodPendings
    <3>2. QED
      BY <2>2, <3>1 DEF GoodTurn, GoodPending
  <2> HIDE DEF q
  <2>4. pending'[s] = None /\ messages' = messages
        /\ \A t \in Sessions \ {s} : pending'[t] = pending[t]
    BY <1>4 DEF ConfirmPending, HInv, TypeInv, StoreTypes
  <2>5. QED
    BY <1>1, <2>1, <2>3, <2>4
<1>5. QED
  BY <1>2, <1>3, <1>4 DEF SendMessage

LEMMA CompactionHistories ==
  ASSUME HInv, NEW r \in Requests, Compact(r)
  PROVE  HistoryInv'
<1> DEFINE recent == RecentMessages(req[r].context)
           s == req[r].session
           q == [req[r] EXCEPT !.pc = "model", !.context = recent]
<1>1. Active(r) /\ req[r].pc = "compacting"
  BY DEF Compact, Active
<1>2. s \in Sessions /\ pending[s] = None /\ Whole(recent) /\ GoodTurn(req[r])
  BY <1>1, BusyRequest, WindowIsWhole
<1>3. /\ messages' = [messages EXCEPT ![s] = recent] /\ pending' = pending
      /\ req' = [req EXCEPT ![r] = q]
  BY DEF Compact, ApplyCompaction
<1> HIDE DEF recent
<1>4. q.pc = "model" /\ q.session = s /\ q.turn = req[r].turn
  BY RequestFields DEF HInv, RequestStates
<1>5. GoodTurn(q)
  BY <1>1, <1>2, <1>4 DEF GoodTurn
<1> HIDE DEF q
<1>6. req'[r] = q /\ \A o \in Requests \ {r} : req'[o] = req[o]
  BY <1>3 DEF HInv, TypeInv, RequestTypes
<1>7. messages'[s] = recent /\ \A t \in Sessions \ {s} : messages'[t] = messages[t]
  BY <1>2, <1>3 DEF HInv, TypeInv, StoreTypes
<1> HIDE DEF s
<1>8. WholeHistories'
  BY <1>2, <1>7 DEF HInv, HistoryInv, WholeHistories
<1>9. GoodPendings'
  BY <1>2, <1>3, <1>7 DEF HInv, HistoryInv, GoodPendings, GoodPending
<1>10. GoodTurns'
  BY <1>5, <1>6 DEF HInv, HistoryInv, GoodTurns
<1>11. BusyMeansUndecided'
  BY <1>2, <1>3, <1>4, <1>6 DEF HInv, HistoryInv, BusyMeansUndecided, Active
<1>12. QED
  BY <1>8, <1>9, <1>10, <1>11 DEF HistoryInv

LEMMA ReadHistories ==
  ASSUME HInv, NEW r \in Requests,
         CompleteReads(r) \/ \E calls \in Replies : RequestReads(r, calls)
  PROVE  HistoryInv'
<1>1. Active(r) /\ UNCHANGED <<messages, pending>>
  BY DEF CompleteReads, RequestReads, Active, store
<1>2. req[r].turn \in Seq(Messages) /\ GoodTurn(req[r]) /\ req[r] \in RequestStates
  BY <1>1, BusyRequest, RequestFields DEF HInv
<1>3. ASSUME NEW calls \in Replies, RequestReads(r, calls)
      PROVE  HistoryInv'
  <2> DEFINE m == AssistantMessage(calls)
             turn == Append(req[r].turn, m)
             q == [req[r] EXCEPT !.pc = "reading", !.turn = turn]
  <2>1. m \in Messages /\ m.role = "assistant" /\ m.calls = calls
    BY RepliesAreOperations, MessageTypes, NewMessages
  <2>2. calls # <<>> /\ ReadsOnly(calls) /\ OpenTurn(req[r].turn)
    BY <1>2, <1>3 DEF RequestReads, ReadsOnly, GoodTurn
  <2>3. req' = [req EXCEPT ![r] = q]
    BY <1>3 DEF RequestReads
  <2> HIDE DEF m
  <2>4. Turns(turn)
    BY <1>2, <2>1, <2>2, TurnsGrow DEF OpenTurn
  <2>5. Last(turn) = m /\ Front(turn) = req[r].turn
    BY <1>2, <2>1, AppendedAt
  <2> HIDE DEF turn
  <2>6. ReadingTurn(turn)
    BY <2>1, <2>2, <2>4, <2>5 DEF ReadingTurn, OpenTurn
  <2>7. q.pc = "reading" /\ q.turn = turn /\ q.session = req[r].session
    BY <1>2 DEF RequestStates
  <2>8. GoodTurn(q)
    BY <2>6, <2>7 DEF GoodTurn
  <2> HIDE DEF q
  <2>9. QED
    BY <1>1, <2>3, <2>7, <2>8, TurnStep
<1>4. CASE CompleteReads(r)
  <2>1. ReadingTurn(req[r].turn)
    BY ZenonT(40), <1>2, <1>4 DEF CompleteReads, GoodTurn
  <2> DEFINE calls == Last(req[r].turn).calls
  <2>2. calls \in Seq(Operations)
    <3>1. req[r].turn # <<>> /\ Last(req[r].turn).role = "assistant"
      BY <2>1 DEF ReadingTurn, Turns
    <3>2. Len(req[r].turn) \in 1..Len(req[r].turn)
      BY <1>2, <3>1
    <3>3. req[r].turn[Len(req[r].turn)] \in Messages
      BY <1>2, <3>2
    <3>4. Last(req[r].turn) = req[r].turn[Len(req[r].turn)]
      BY DEF Last
    <3>5. Last(req[r].turn) \in Messages
      BY <3>3, <3>4
    <3>6. QED
      BY <3>1, <3>5, MessageShape
  <2>3. PICK results \in [DOMAIN calls -> Results] :
          req' = [req EXCEPT ![r].pc = "model", ![r].round = @ + 1,
                    ![r].turn = @ \o [i \in DOMAIN calls |-> ToolMessage(i, results[i])]]
    BY ZenonT(40), <1>4 DEF CompleteReads
  <2> DEFINE answers == [i \in DOMAIN calls |-> ToolMessage(i, results[i])]
             turn == req[r].turn \o answers
             q == [req[r] EXCEPT !.pc = "model", !.round = @ + 1, !.turn = turn]
  <2>4. /\ answers \in Seq(Messages) /\ Len(answers) = Len(calls)
        /\ \A i \in 1..Len(answers) : answers[i].role = "tool" /\ answers[i].id = i
    <3>1. DOMAIN calls = 1..Len(calls) /\ Len(calls) \in Nat
      BY <2>2
    <3>2. \A i \in 1..Len(calls) : ToolMessage(i, results[i]) \in Messages
      BY <3>1, MessageTypes
    <3> HIDE DEF calls
    <3>3. answers \in Seq(Messages) /\ Len(answers) = Len(calls)
      BY <3>1, <3>2
    <3>4. \A i \in 1..Len(calls) : answers[i] = ToolMessage(i, results[i])
      BY <3>1
    <3> HIDE DEF answers
    <3>5. QED
      BY <3>3, <3>4, NewMessages
  <2>5. req' = [req EXCEPT ![r] = q]
    BY <2>3
  <2> HIDE DEF answers
  <2>6. OpenTurn(turn)
    BY <1>2, <2>1, <2>4, ReadsComplete
  <2> HIDE DEF turn, calls
  <2>7. q.pc = "model" /\ q.turn = turn /\ q.session = req[r].session
    BY <1>2 DEF RequestStates
  <2>8. GoodTurn(q)
    BY <2>6, <2>7 DEF GoodTurn
  <2> HIDE DEF q
  <2>9. QED
    BY ZenonT(40), <1>1, <2>5, <2>7, <2>8, TurnStep
<1>5. QED
  BY <1>3, <1>4

\* The check of the quote, made on the context the request read before its awaits.
LEMMA ProposalHistories ==
  ASSUME HInv, NEW r \in Requests,
         NEW calls \in Replies, NEW p \in Proposals, ProposeWrite(r, calls, p)
  PROVE  HistoryInv'
<1> DEFINE call == ProposedCall(calls)
           m == AssistantMessage(<<call>>)
           turn == Append(req[r].turn, m)
           q == [req[r] EXCEPT !.pc = "describing", !.operation = call, !.id = p,
                               !.turn = turn]
<1>1. /\ Active(r) /\ req[r].pc = "model" /\ Proposable(calls)
      /\ req' = [req EXCEPT ![r] = q] /\ UNCHANGED <<messages, pending>>
      /\ call.tool = "record_sale"
           => HasMatchingSaleQuote(req[r].context \o req[r].turn, call.args)
  BY DEF ProposeWrite, Active, store
<1>2. call \in Operations /\ IsWrite(call)
  <2>1. call \in Operations
    BY <1>1, ProposedCallType
  <2>2. IsWrite(call)
    BY <1>1 DEF Proposable, ProposedCall, BatchCall, Call, IsWrite, WriteTools
  <2>3. QED
    BY <2>1, <2>2
<1> HIDE DEF call
<1>3. /\ req[r].turn \in Seq(Messages) /\ req[r].context \in Seq(Messages)
      /\ Whole(req[r].context) /\ OpenTurn(req[r].turn) /\ req[r] \in RequestStates
  BY <1>1, BusyRequest, RequestFields DEF GoodTurn, HInv
<1>4. m \in Messages /\ m.role = "assistant" /\ m.calls = <<call>> /\ ~IsFinalText(m)
  <2>1. <<call>> \in Seq(Operations) /\ <<call>> # <<>>
    BY <1>2
  <2>2. QED
    BY <2>1, MessageTypes, NewMessages DEF IsFinalText
<1> HIDE DEF m
<1>5. Turns(turn) /\ Last(turn) = m /\ Front(turn) = req[r].turn
  BY <1>3, <1>4, TurnsGrow, AppendedAt DEF OpenTurn
<1>6. Answered(turn)
  <2>1. Len(m.calls) = 1 /\ IsWrite(m.calls[1])
    BY <1>2, <1>4
  <2>2. QED
    BY <1>3, <1>4, <2>1, AnsweredGrow DEF OpenTurn
<1> HIDE DEF turn
<1>7. OpenTurn(turn)
  BY <1>4, <1>5, <1>6 DEF OpenTurn
<1>8. QuotedSale(req[r].context, turn, call)
  <2>1. SUFFICES ASSUME call.tool = "record_sale"
                 PROVE  PricedAt(req[r].context \o req[r].turn, call.args)
    BY <1>5 DEF QuotedSale
  <2>2. Answered(req[r].context)
    BY <1>3 DEF Whole, Answered
  <2>3. /\ req[r].context \o req[r].turn \in Seq(Messages)
        /\ Turns(req[r].context \o req[r].turn) /\ Answered(req[r].context \o req[r].turn)
    BY <1>3, <2>2, TurnsJoin, AnsweredJoin DEF OpenTurn
  <2>4. QED
    BY <1>1, <2>1, <2>3, MatchingQuoteIsPriced
<1>9. /\ q.pc = "describing" /\ q.turn = turn /\ q.session = req[r].session
      /\ q.operation = call /\ q.context = req[r].context
  BY <1>3 DEF RequestStates
<1>10. GoodTurn(q)
  BY <1>5, <1>7, <1>8, <1>9 DEF GoodTurn, m
<1> HIDE DEF q
<1>11. QED
  BY <1>1, <1>9, <1>10, TurnStep

LEMMA EndHistories ==
  ASSUME HInv, NEW r \in Requests,
         AnswerText(r) \/ SetPendingConfirmation(r) \/ AbortTurn(r) \/ DescriberFails(r)
         \/ CompactionFails(r)
  PROVE  HistoryInv'
<1>1. Active(r)
  BY DEF AnswerText, SetPendingConfirmation, AbortTurn, DescriberFails, CompactionFails, Active
<1>2. /\ req[r].session \in Sessions /\ req[r].turn \in Seq(Messages) /\ GoodTurn(req[r])
      /\ req[r].context = messages[req[r].session] /\ req[r] \in RequestStates
  BY <1>1, BusyRequest, RequestFields DEF HInv
<1>3. CASE AnswerText(r)
  <2>1. OpenTurn(req[r].turn)
    BY <1>2, <1>3 DEF AnswerText, GoodTurn
  <2>2. QED
    BY <1>1, <1>2, <1>3, <2>1, FinalTextCloses, TurnIsStored DEF AnswerText
<1>4. CASE AbortTurn(r) \/ DescriberFails(r)
  <2>1. req' = [req EXCEPT ![r] = IdleRequest] /\ UNCHANGED <<messages, pending>>
    BY <1>4 DEF AbortTurn, DescriberFails, Release, store
  <2>2. IdleRequest.pc = "idle"
    BY DEF IdleRequest
  <2>3. QED
    BY <2>1, <2>2, IdleTurn, TurnStep
<1>5. CASE CompactionFails(r)
  <2> DEFINE q == [req[r] EXCEPT !.pc = "model"]
  <2>1. q.pc = "model" /\ q.turn = req[r].turn /\ q.session = req[r].session
    BY <1>2 DEF RequestStates
  <2>2. req' = [req EXCEPT ![r] = q] /\ UNCHANGED <<messages, pending>>
        /\ req[r].pc = "compacting"
    BY <1>5 DEF CompactionFails, store
  <2> HIDE DEF q
  <2>3. GoodTurn(q)
    BY <1>2, <2>1, <2>2 DEF GoodTurn
  <2>4. QED
    BY <1>1, <2>1, <2>2, <2>3, TurnStep
<1>6. CASE SetPendingConfirmation(r)
  <2> DEFINE s == req[r].session
             new == [operation |-> req[r].operation, turn |-> req[r].turn, id |-> req[r].id]
  <2>1. pending' = [pending EXCEPT ![s] = new] /\ messages' = messages /\ Release(r)
        /\ req[r].pc = "describing"
    BY <1>6 DEF SetPendingConfirmation
  <2>2. new.operation = req[r].operation /\ new.turn = req[r].turn
    OBVIOUS
  <2> HIDE DEF new
  <2>3. pending'[s] = new /\ \A t \in Sessions \ {s} : pending'[t] = pending[t]
    BY <1>2, <2>1 DEF HInv, TypeInv, StoreTypes
  <2>4. req'[r] = IdleRequest /\ \A o \in Requests \ {r} : req'[o] = req[o]
    BY <2>1 DEF HInv, TypeInv, RequestTypes, Release
  <2>5. /\ OpenTurn(new.turn) /\ Last(new.turn) = AssistantMessage(<<new.operation>>)
        /\ QuotedSale(messages[s], new.turn, new.operation)
    BY <1>2, <2>1, <2>2 DEF GoodTurn
  <2>6. GoodPendings'
    BY <2>1, <2>3, <2>5 DEF HInv, HistoryInv, GoodPendings, GoodPending
  <2>7. WholeHistories'
    BY <2>1 DEF HInv, HistoryInv, WholeHistories
  <2>8. GoodTurns'
    BY <2>4, IdleTurn DEF HInv, HistoryInv, GoodTurns
  <2>9. BusyMeansUndecided'
    <3>1. \A o \in Requests \ {r} : Active(o) => req[o].session \in Sessions \ {s}
      BY <1>1, RequestFields DEF HInv, ContextIsCurrent, Active
    <3>2. QED
      BY <2>3, <2>4, <3>1 DEF HInv, HistoryInv, BusyMeansUndecided, Active, IdleRequest
  <2>10. QED
    BY <2>6, <2>7, <2>8, <2>9 DEF HistoryInv
<1>7. QED
  BY <1>3, <1>4, <1>5, <1>6

LEMMA WriteHistories ==
  ASSUME HInv, NEW r \in Requests, ResumeWrite(r)
  PROVE  HistoryInv'
<1>1. Active(r)
  BY DEF ResumeWrite, WriteOutcomeUnknown, WriteRejected, WriteSucceeds, ExplainWrite,
     ExplanationInvalid, Active
<1>2. /\ req[r].session \in Sessions /\ req[r].turn \in Seq(Messages) /\ GoodTurn(req[r])
      /\ req[r] \in RequestStates
  BY <1>1, BusyRequest, RequestFields DEF HInv
<1>3. ASSUME NEW t \in Seq(Messages), OpenTurn(t), NEW outcome,
             EndWrite(r, Append(t, FinalText), outcome)
      PROVE  HistoryInv'
  BY <1>1, <1>3, FinalTextCloses, TurnIsStored DEF EndWrite
<1>4. CASE WriteOutcomeUnknown(r)
  BY <1>2, <1>3, <1>4 DEF WriteOutcomeUnknown, GoodTurn
<1>5. CASE WriteRejected(r)
  <2> DEFINE m == ToolMessage(1, "error")
             t == Append(req[r].turn, m)
  <2>1. OpenTurn(t) /\ m \in Messages
    BY <1>2, <1>5, WriteAnswered DEF WriteRejected, GoodTurn
  <2> HIDE DEF m
  <2>2. req[r].turn \o <<m, FinalText>> = Append(t, FinalText) /\ t \in Seq(Messages)
    BY <1>2, <2>1, MessageTypes
  <2>3. EndWrite(r, Append(t, FinalText), "rejected")
    BY <1>5, <2>2 DEF WriteRejected, m
  <2> HIDE DEF t
  <2>4. QED
    BY <1>3, <2>1, <2>2, <2>3
<1>6. CASE WriteSucceeds(r)
  <2> DEFINE turn == Append(req[r].turn, ToolMessage(1, "ok"))
             q == [req[r] EXCEPT !.pc = "explaining", !.turn = turn]
  <2>1. OpenTurn(turn)
    BY <1>2, <1>6, WriteAnswered DEF WriteSucceeds, GoodTurn
  <2>2. req' = [req EXCEPT ![r] = q] /\ UNCHANGED <<messages, pending>>
    BY <1>6 DEF WriteSucceeds, store
  <2> HIDE DEF turn
  <2>3. q.pc = "explaining" /\ q.turn = turn /\ q.session = req[r].session
    BY <1>2 DEF RequestStates
  <2>4. GoodTurn(q)
    BY <2>1, <2>3 DEF GoodTurn
  <2> HIDE DEF q
  <2>5. QED
    BY <1>1, <2>2, <2>3, <2>4, TurnStep
<1>7. CASE ExplainWrite(r)
  BY <1>2, <1>3, <1>7 DEF ExplainWrite, GoodTurn
<1>8. CASE ExplanationInvalid(r)
  <2>1. req' = [req EXCEPT ![r] = IdleRequest] /\ UNCHANGED <<messages, pending>>
    BY <1>8 DEF ExplanationInvalid, Release, store
  <2>2. IdleRequest.pc = "idle"
    BY DEF IdleRequest
  <2>3. QED
    BY <2>1, <2>2, IdleTurn, TurnStep
<1>9. QED
  BY <1>4, <1>5, <1>6, <1>7, <1>8 DEF ResumeWrite

LEMMA HistoryStep ==
  ASSUME HInv, [Next]_vars
  PROVE  HistoryInv'
<1>1. ASSUME NEW r \in Requests, ResumeRun(r)
      PROVE  HistoryInv'
  BY <1>1, CompactionHistories, ReadHistories, ProposalHistories, EndHistories DEF ResumeRun
<1>2. ASSUME NEW p \in Proposals, McpApplies(p) \/ McpRefuses(p) \/ McpAppliesThenFails(p)
      PROVE  HistoryInv'
  BY <1>2, HistoryUnchanged
     DEF McpApplies, McpRefuses, McpAppliesThenFails, McpHandles, store, HInv
<1>3. CASE UNCHANGED vars
  BY <1>3, HistoryUnchanged DEF vars, HInv
<1>4. QED
  BY <1>1, <1>2, <1>3, SessionHistories, SendHistories, WriteHistories DEF Next, Resume

LEMMA HistoryInit == Init => HistoryInv
BY IdleTurn DEF Init, HistoryInv, WholeHistories, Whole, GoodPendings, GoodPending, GoodTurns,
   BusyMeansUndecided, Active, IdleRequest

LEMMA CurrentInit == Init => ContextIsCurrent
BY DEF Init, ContextIsCurrent, Active, IdleRequest

LEMMA HistoriesHold == Spec => []HInv
<1>1. Init => HInv
  BY InitTypes, HistoryInit, CurrentInit DEF HInv
<1>2. HInv /\ [Next]_vars => HInv'
  BY TypeStep, CurrentStep, HistoryStep DEF HInv
<1>3. QED
  BY <1>1, <1>2, PTL DEF Spec

(* The stored history is a sequence of whole turns in every reachable       *)
(* state, for every compaction window.                                     *)
THEOREM HistoriesStayWhole == Spec => []HistoryIsWholeTurns
<1>1. HInv => HistoryIsWholeTurns
  BY DEF HInv, HistoryInv, WholeHistories, HistoryIsWholeTurns, Whole, Turns
<1>2. QED
  BY <1>1, HistoriesHold, PTL

(* What the user is asked to confirm is the last call of its turn.         *)
THEOREM PendingEndsItsTurn == Spec => []PendingMatchesItsTurn
<1>1. HInv => PendingMatchesItsTurn
  BY DEF HInv, HistoryInv, GoodPendings, GoodPending, PendingMatchesItsTurn
<1>2. QED
  BY <1>1, HistoriesHold, PTL

(* A sale that waits for a decision, or is being executed, is the one the  *)
(* latest quote in its session's messages priced.                          *)
THEOREM SalesStayQuoted == Spec => []SaleMatchesItsQuote
<1>1. HInv => SaleMatchesItsQuote
  BY DEF HInv, HistoryInv, GoodPendings, GoodPending, GoodTurns, GoodTurn, SaleMatchesItsQuote
<1>2. QED
  BY <1>1, HistoriesHold, PTL

(* However long the user takes, the stored operation stays the one that    *)
(* was checked.                                                            *)
THEOREM PendingStaysTheSame == Spec => []PendingStaysRight
BY PendingEndsItsTurn, SalesStayQuoted, PTL DEF PendingStaysRight
=============================================================================
