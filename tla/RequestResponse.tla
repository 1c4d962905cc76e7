-------------------------- MODULE RequestResponse --------------------------
(***************************************************************************)
(* What a JSON-RPC transport promises its callers: every accepted request  *)
(* settles at most once, either with the answer the server gave to that    *)
(* very request, after it handled it, or with a failure.  A failure says   *)
(* nothing about the server: it may have handled the request, be handling  *)
(* it, or handle it later.  StdioTransport is shown to implement this.     *)
(***************************************************************************)
CONSTANT Requests

VARIABLES
  reply,    \* what the caller's promise has come to
  handled   \* the requests the server has handled

vars == <<reply, handled>>

Unused == [st |-> "unused", of |-> 0]
Waiting == [st |-> "waiting", of |-> 0]
Failed == [st |-> "failed", of |-> 0]
AnswerTo(r) == [st |-> "answered", of |-> r]

Init ==
  /\ reply = [r \in Requests |-> Unused]
  /\ handled = {}

Ask(r) ==
  /\ reply[r] = Unused
  /\ reply' = [reply EXCEPT ![r] = Waiting]
  /\ UNCHANGED handled

\* The caller may have been told of a failure already.
Handle(r) ==
  /\ reply[r] # Unused
  /\ handled' = handled \cup {r}
  /\ UNCHANGED reply

Answer(r) ==
  /\ reply[r] = Waiting
  /\ r \in handled
  /\ reply' = [reply EXCEPT ![r] = AnswerTo(r)]
  /\ UNCHANGED handled

\* One event of the transport may fail several requests.
Fail(R) ==
  /\ \A r \in R : reply[r] = Waiting
  /\ reply' = [r \in Requests |-> IF r \in R THEN Failed ELSE reply[r]]
  /\ UNCHANGED handled

Next ==
  \/ \E r \in Requests : Ask(r) \/ Handle(r) \/ Answer(r)
  \/ \E R \in SUBSET Requests : Fail(R)

Spec == Init /\ [][Next]_vars
=============================================================================
