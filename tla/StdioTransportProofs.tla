----------------------- MODULE StdioTransportProofs ------------------------
(***************************************************************************)
(* Theorems about StdioTransport for any number of requests and of stray   *)
(* lines: types, no stranded request, no orphan process, a log that agrees *)
(* with the outcomes, the implementation of RequestResponse, and that      *)
(* nobody waits for nothing.                                               *)
(***************************************************************************)
EXTENDS StdioTransport, SequenceTheorems, TLAPS

(* The promises, the pending map and the log: what settling a request      *)
(* changes.  An id is unused until the generator has passed it, and a      *)
(* caller is given the answer to its own request.                          *)
Promises ==
  /\ nextId \in 1 .. MaxRequests + 1
  /\ pending \subseteq Ids
  /\ outcome \in [Ids -> Outcomes]
  /\ log \in [Ids -> Seq(Statuses)]
  /\ LogAgrees
  /\ \A r \in Ids : outcome[r].st = "waiting" <=> r \in pending
  /\ \A r \in Ids : outcome[r].st = "unused" <=> r >= nextId
  /\ \A r \in Ids : outcome[r].st \in Answers => outcome[r].of = r

(* The child and its pipes.  Nothing it was sent, read or handled is an    *)
(* unused id, and an answer is written after its request was handled.      *)
Pipes ==
  /\ stdin \in Seq(Ids)
  /\ taken \subseteq Ids
  /\ handled \subseteq Ids
  /\ stdout \in Seq(Lines)
  /\ junk \in 0 .. MaxJunk
  /\ \A i \in 1 .. Len(stdin) : stdin[i] < nextId
  /\ \A r \in taken \cup handled : r < nextId
  /\ \A i \in 1 .. Len(stdout) : stdout[i] = Junk \/ stdout[i].id \in handled

(* The client and its process.                                             *)
Lifecycle ==
  /\ state \in States
  /\ stopping \in {"none", "grace", "awaiting", "over"}
  /\ killed \in BOOLEAN
  /\ child \in {"none", "starting", "exited", "closed"} \cup Running
  /\ endedBy \in {"none", "code", "signal"}
  /\ state # "running" => pending = {}
  /\ state \in {"idle", "running"} => stopping = "none"
  /\ child = "starting" => state = "idle"
  /\ child \in {"none", "starting"} => stdout = <<>>
  /\ NoOrphanChild

IInv == Promises /\ Pipes /\ Lifecycle

-----------------------------------------------------------------------------
(* Building blocks: the two ways in which promises settle.                 *)

Failed == [st |-> "failed", of |-> 0]
AnswerTo(r) == [st |-> "answered", of |-> r]

LEMMA SecondEntry ==
  ASSUME NEW e \in Statuses
  PROVE  Append(<<"SENT">>, e) = <<"SENT", e>>
<1>1. /\ <<"SENT">> \in Seq(Statuses)
      /\ Len(<<"SENT">>) = 1
      /\ <<"SENT", e>> \in Seq(Statuses)
      /\ Len(<<"SENT", e>>) = 2
  BY DEF Statuses
<1>2. /\ Append(<<"SENT">>, e) \in Seq(Statuses)
      /\ Len(Append(<<"SENT">>, e)) = 2
      /\ Append(<<"SENT">>, e)[1] = "SENT"
      /\ Append(<<"SENT">>, e)[2] = e
  BY <1>1
<1>3. \A i \in 1 .. 2 : Append(<<"SENT">>, e)[i] = <<"SENT", e>>[i]
  BY <1>2
<1> QED
  BY <1>1, <1>2, <1>3, SeqEqual

LEMMA RejectSettles ==
  ASSUME Promises, NEW R \in SUBSET pending, NEW code \in ErrorCodes,
         Reject(R, code), nextId' = nextId
  PROVE  /\ Promises'
         /\ \A r \in Ids : Reply(r)' = IF r \in R THEN Failed ELSE Reply(r)
         /\ \A r \in R : Reply(r) = [st |-> "waiting", of |-> 0]
<1>1. pending' \subseteq Ids /\ outcome' \in [Ids -> Outcomes]
  BY DEF Promises, Reject, Outcomes, Outcome
<1>2. \A r \in R : outcome[r].st = "waiting" /\ outcome[r] \in Outcomes /\ log[r] = <<"SENT">>
  BY DEF Promises, LogAgrees, Answers
<1>3. LoggedAs(code) \in Statuses
  BY DEF LoggedAs, Statuses, ErrorCodes
<1>4. \A r \in R : log'[r] = <<"SENT", LoggedAs(code)>>
  <2> SUFFICES ASSUME NEW r \in R
               PROVE  log'[r] = <<"SENT", LoggedAs(code)>>
    OBVIOUS
  <2>1. log'[r] = Append(log[r], LoggedAs(code))
    BY DEF Promises, Reject
  <2> QED
    BY <2>1, <1>2, <1>3, SecondEntry
<1>5. log' \in [Ids -> Seq(Statuses)]
  BY <1>3, <1>4 DEF Promises, Reject, Statuses
<1>6. LogAgrees'
  <2> SUFFICES ASSUME NEW r \in Ids
               PROVE  LET o == outcome'[r].st
                      IN log'[r] = CASE o = "unused" -> <<>>
                                     [] o = "waiting" -> <<"SENT">>
                                     [] o \in Answers -> <<"SENT", AnswerStatus(o)>>
                                     [] OTHER -> <<"SENT", LoggedAs(o)>>
    BY DEF LogAgrees, AnswerStatus, LoggedAs
  <2>1. CASE r \in R
    <3>1. outcome'[r].st = code
      BY <2>1 DEF Reject, Outcome
    <3>2. code \notin Answers /\ code # "unused" /\ code # "waiting"
      BY DEF ErrorCodes, Answers
    <3> QED
      BY <2>1, <3>1, <3>2, <1>4
  <2>2. CASE r \notin R
    BY <2>2 DEF Reject, Promises, LogAgrees, AnswerStatus, LoggedAs
  <2> QED
    BY <2>1, <2>2
<1>7. /\ \A r \in Ids : outcome'[r].st = "waiting" <=> r \in pending'
      /\ \A r \in Ids : outcome'[r].st = "unused" <=> r >= nextId
      /\ \A r \in Ids : outcome'[r].st \in Answers => outcome'[r].of = r
  BY <1>2 DEF Promises, Reject, Outcome, ErrorCodes, Answers
<1>8. \A r \in Ids : Reply(r)' = IF r \in R THEN Failed ELSE Reply(r)
  <2> SUFFICES ASSUME NEW r \in Ids
               PROVE  Reply(r)' = IF r \in R THEN Failed ELSE Reply(r)
    OBVIOUS
  <2>1. outcome'[r] = IF r \in R THEN Outcome(code, 0) ELSE outcome[r]
    BY DEF Reject
  <2>2. code \notin Answers /\ code # "unused" /\ code # "waiting"
    BY DEF ErrorCodes, Answers
  <2> QED
    BY <2>1, <2>2 DEF Reply, Outcome, Failed
<1>9. \A r \in R : Reply(r) = [st |-> "waiting", of |-> 0]
  BY <1>2 DEF Reply, Outcomes, Answers, ErrorCodes
<1> QED
  BY <1>1, <1>5, <1>6, <1>7, <1>8, <1>9 DEF Promises

LEMMA ResolveSettles ==
  ASSUME Promises, NEW line \in Lines, NEW r0 \in pending, line.id = r0,
         Resolve(line, {r0}), nextId' = nextId
  PROVE  /\ Promises'
         /\ Reply(r0) = [st |-> "waiting", of |-> 0]
         /\ \A r \in Ids : Reply(r)' = IF r = r0 THEN AnswerTo(r) ELSE Reply(r)
<1>0. r0 \in Ids /\ line.kind \in Answers
  BY DEF Promises, Lines, Junk, LineOf, Ids
<1>1. pending' \subseteq Ids /\ outcome' \in [Ids -> Outcomes]
  BY <1>0 DEF Promises, Resolve, Outcomes, Outcome
<1>2. outcome[r0].st = "waiting" /\ outcome[r0] \in Outcomes /\ log[r0] = <<"SENT">>
  BY <1>0 DEF Promises, LogAgrees, Answers
<1>3. AnswerStatus(line.kind) \in Statuses
  BY DEF AnswerStatus, Statuses
<1>4. log'[r0] = <<"SENT", AnswerStatus(line.kind)>>
  <2>1. log'[r0] = Append(log[r0], AnswerStatus(line.kind))
    BY <1>0 DEF Resolve
  <2> QED
    BY <2>1, <1>2, <1>3, SecondEntry
<1>5. log' \in [Ids -> Seq(Statuses)]
  BY <1>3, <1>4 DEF Promises, Resolve, Statuses
<1>6. LogAgrees'
  <2> SUFFICES ASSUME NEW r \in Ids
               PROVE  LET o == outcome'[r].st
                      IN log'[r] = CASE o = "unused" -> <<>>
                                     [] o = "waiting" -> <<"SENT">>
                                     [] o \in Answers -> <<"SENT", AnswerStatus(o)>>
                                     [] OTHER -> <<"SENT", LoggedAs(o)>>
    BY DEF LogAgrees, AnswerStatus, LoggedAs
  <2>1. CASE r = r0
    <3>1. outcome'[r].st = line.kind
      BY <2>1 DEF Resolve, Outcome
    <3>2. line.kind # "unused" /\ line.kind # "waiting"
      BY <1>0 DEF Answers
    <3> QED
      BY <2>1, <3>1, <3>2, <1>0, <1>4
  <2>2. CASE r # r0
    BY <2>2 DEF Resolve, Promises, LogAgrees, AnswerStatus, LoggedAs
  <2> QED
    BY <2>1, <2>2
<1>7. /\ \A r \in Ids : outcome'[r].st = "waiting" <=> r \in pending'
      /\ \A r \in Ids : outcome'[r].st = "unused" <=> r >= nextId
      /\ \A r \in Ids : outcome'[r].st \in Answers => outcome'[r].of = r
  BY <1>0, <1>2 DEF Promises, Resolve, Outcome, Answers
<1>8. \A r \in Ids : Reply(r)' = IF r = r0 THEN AnswerTo(r) ELSE Reply(r)
  <2> SUFFICES ASSUME NEW r \in Ids
               PROVE  Reply(r)' = IF r = r0 THEN AnswerTo(r) ELSE Reply(r)
    OBVIOUS
  <2>1. outcome'[r] = IF r = r0 THEN Outcome(line.kind, line.id) ELSE outcome[r]
    BY DEF Resolve
  <2>2. line.kind # "unused" /\ line.kind # "waiting"
    BY <1>0 DEF Answers
  <2> QED
    BY <1>0, <2>1, <2>2 DEF Reply, Outcome, AnswerTo
<1>9. Reply(r0) = [st |-> "waiting", of |-> 0]
  BY <1>2 DEF Reply, Outcomes, Answers, ErrorCodes
<1> QED
  BY <1>1, <1>5, <1>6, <1>7, <1>8, <1>9 DEF Promises

\* A failing transport rejects all that is pending, or nothing more.
LEMMA FailTransportSettles ==
  ASSUME IInv, NEW code \in ErrorCodes, NEW kill \in BOOLEAN,
         FailTransport(code, kill), nextId' = nextId
  PROVE  /\ Promises'
         /\ state' \in {"closed", "failed"} /\ (state' = "closed" => state = "closed")
         /\ pending' = {}
         /\ killed' \in BOOLEAN
         /\ \A r \in Ids : Reply(r)' = IF r \in pending THEN Failed ELSE Reply(r)
         /\ \A r \in pending : Reply(r) = [st |-> "waiting", of |-> 0]
<1>1. CASE state \in {"closed", "failed"}
  <2>1. /\ UNCHANGED <<state, pending, outcome, log, killed>>
        /\ pending = {}
    BY <1>1 DEF FailTransport, IInv, Lifecycle
  <2>2. Promises'
    BY <2>1 DEF IInv, Promises, LogAgrees
  <2>3. \A r \in Ids : Reply(r)' = Reply(r)
    BY <2>1 DEF Reply
  <2> QED
    BY <1>1, <2>1, <2>2, <2>3 DEF IInv, Lifecycle
<1>2. CASE state \notin {"closed", "failed"}
  <2>1. state' = "failed" /\ Reject(pending, code) /\ killed' \in BOOLEAN
    BY <1>2 DEF FailTransport, RejectPending, KillChild, IInv, Lifecycle
  <2>2. pending' = {}
    BY <2>1 DEF Reject
  <2>3. pending \in SUBSET pending /\ Promises
    BY DEF IInv
  <2> QED
    BY <2>1, <2>2, <2>3, RejectSettles
<1> QED
  BY <1>1, <1>2

LEMMA PromisesUnchanged ==
  ASSUME Promises, UNCHANGED <<nextId, pending, outcome, log>>
  PROVE  Promises' /\ \A r \in Ids : Reply(r)' = Reply(r)
BY DEF Promises, LogAgrees, Reply

-----------------------------------------------------------------------------
(* Steps of RequestResponse.                                               *)

Stutters == UNCHANGED handled /\ \A r \in Ids : Reply(r)' = Reply(r)

LEMMA AbstractStutter ==
  ASSUME Stutters
  PROVE  [RR!Next]_(RR!vars)
<1>1. [r \in Ids |-> Reply(r)]' = [r \in Ids |-> Reply(r)]
  BY DEF Stutters
<1> QED
  BY <1>1 DEF Stutters, RR!vars

LEMMA AbstractFail ==
  ASSUME NEW R \in SUBSET Ids, UNCHANGED handled,
         \A r \in Ids : Reply(r)' = IF r \in R THEN Failed ELSE Reply(r),
         \A r \in R : Reply(r) = [st |-> "waiting", of |-> 0]
  PROVE  [RR!Next]_(RR!vars)
<1>1. RR!Fail(R)
  BY DEF RR!Fail, RR!Waiting, RR!Failed, Failed
<1> QED
  BY <1>1 DEF RR!Next

LEMMA AbstractAnswer ==
  ASSUME NEW r0 \in Ids, r0 \in handled, UNCHANGED handled,
         Reply(r0) = [st |-> "waiting", of |-> 0],
         \A r \in Ids : Reply(r)' = IF r = r0 THEN AnswerTo(r) ELSE Reply(r)
  PROVE  [RR!Next]_(RR!vars)
<1>1. RR!Answer(r0)
  BY DEF RR!Answer, RR!Waiting, RR!AnswerTo, AnswerTo
<1> QED
  BY <1>1 DEF RR!Next

-----------------------------------------------------------------------------
(* One lemma per group of actions: each keeps the invariant and is a step  *)
(* of RequestResponse, or none.                                            *)

Kept == IInv' /\ [RR!Next]_(RR!vars)

LEMMA PipesUnchanged ==
  ASSUME Pipes, nextId' = nextId, UNCHANGED <<stdin, taken, handled, stdout, junk>>
  PROVE  Pipes'
BY DEF Pipes

LEMMA InitKept == Init => IInv /\ RR!Init
<1> SUFFICES ASSUME Init PROVE IInv /\ RR!Init
  OBVIOUS
<1> USE MaxRequestsAssumption, MaxJunkAssumption
<1>1. Promises
  BY DEF Init, Promises, Ids, Outcomes, Outcome, LogAgrees, Answers, Statuses
<1>2. Pipes
  BY DEF Init, Pipes
<1>3. Lifecycle
  BY DEF Init, Lifecycle, States, NoOrphanChild
<1>4. RR!Init
  BY DEF Init, RR!Init, RR!Unused, Reply, Outcome, Answers
<1> QED
  BY <1>1, <1>2, <1>3, <1>4 DEF IInv

LEMMA StartKept ==
  ASSUME IInv, Start \/ Spawned \/ SpawnFails
  PROVE  Kept
<1>1. Pipes'
  BY PipesUnchanged DEF IInv, Start, Spawned, SpawnFails, client, server
<1>2. CASE Start \/ Spawned
  <2>1. Promises' /\ Stutters
    BY <1>2, PromisesUnchanged DEF IInv, Start, Spawned, client, server, Stutters
  <2>2. Lifecycle'
    BY <1>2 DEF IInv, Lifecycle, Start, Spawned, client, States, Running, NoOrphanChild
  <2> QED
    BY <1>1, <2>1, <2>2, AbstractStutter DEF Kept, IInv
<1>3. CASE SpawnFails
  <2>1. FailTransport("PROCESS_ERROR", FALSE) /\ nextId' = nextId /\ UNCHANGED handled
    BY <1>3 DEF SpawnFails, server
  <2>2. "PROCESS_ERROR" \in ErrorCodes
    BY DEF ErrorCodes
  <2>3. Promises' /\ [RR!Next]_(RR!vars)
    BY <2>1, <2>2, FailTransportSettles, AbstractFail DEF IInv, Promises
  <2>4. Lifecycle'
    <3>1. state' \in {"closed", "failed"} /\ pending' = {} /\ killed' \in BOOLEAN
      BY <2>1, <2>2, FailTransportSettles
    <3> QED
      BY <1>3, <3>1 DEF SpawnFails, IInv, Lifecycle, States, NoOrphanChild
  <2> QED
    BY <1>1, <2>3, <2>4 DEF Kept, IInv
<1> QED
  BY <1>2, <1>3

LEMMA RequestKept ==
  ASSUME IInv, Request
  PROVE  Kept
<1> USE MaxRequestsAssumption
<1>1. nextId \in Ids /\ nextId' = nextId + 1 /\ nextId' \in 1 .. MaxRequests + 1
  BY DEF IInv, Promises, Request, Ids
<1>2. outcome[nextId] = Outcome("unused", 0) /\ log[nextId] = <<>>
  <2>1. outcome[nextId].st = "unused" /\ outcome[nextId] \in Outcomes
    BY <1>1 DEF IInv, Promises
  <2> QED
    BY <1>1, <2>1 DEF IInv, Promises, LogAgrees, Outcomes, Outcome, Answers, ErrorCodes
<1>3. log'[nextId] = <<"SENT">>
  BY <1>1, <1>2 DEF IInv, Promises, Request
<1>4. log' \in [Ids -> Seq(Statuses)]
  BY <1>1, <1>3 DEF IInv, Promises, Request, Statuses
<1>5. pending' \subseteq Ids /\ outcome' \in [Ids -> Outcomes]
  BY <1>1 DEF IInv, Promises, Request, Outcomes, Outcome
<1>6. LogAgrees'
  <2> SUFFICES ASSUME NEW r \in Ids
               PROVE  LET o == outcome'[r].st
                      IN log'[r] = CASE o = "unused" -> <<>>
                                     [] o = "waiting" -> <<"SENT">>
                                     [] o \in Answers -> <<"SENT", AnswerStatus(o)>>
                                     [] OTHER -> <<"SENT", LoggedAs(o)>>
    BY DEF LogAgrees, AnswerStatus, LoggedAs
  <2>1. CASE r = nextId
    BY <2>1, <1>1, <1>3 DEF IInv, Promises, Request, Outcome, Answers
  <2>2. CASE r # nextId
    BY <2>2 DEF IInv, Promises, Request, LogAgrees, AnswerStatus, LoggedAs
  <2> QED
    BY <2>1, <2>2
<1>7. /\ \A r \in Ids : outcome'[r].st = "waiting" <=> r \in pending'
      /\ \A r \in Ids : outcome'[r].st = "unused" <=> r >= nextId'
      /\ \A r \in Ids : outcome'[r].st \in Answers => outcome'[r].of = r
  <2>1. \A r \in Ids : outcome'[r] = IF r = nextId THEN Outcome("waiting", 0) ELSE outcome[r]
    BY <1>1 DEF IInv, Promises, Request
  <2>2. \A r \in Ids : r >= nextId' <=> r >= nextId /\ r # nextId
    BY <1>1 DEF Ids
  <2> QED
    BY <1>1, <2>1, <2>2 DEF IInv, Promises, Request, Outcome, Answers
<1>8. Promises'
  BY <1>1, <1>4, <1>5, <1>6, <1>7 DEF Promises
<1>9. Pipes'
  <2>1. stdin' = Append(stdin, nextId) /\ stdin \in Seq(Ids)
    BY DEF IInv, Pipes, Request
  <2>2. stdin' \in Seq(Ids) /\ Len(stdin') = Len(stdin) + 1
    BY <1>1, <2>1, AppendProperties
  <2>3. \A i \in 1 .. Len(stdin') : stdin'[i] = IF i = Len(stdin) + 1 THEN nextId ELSE stdin[i]
    BY <1>1, <2>1
  <2>4. \A i \in 1 .. Len(stdin) : stdin[i] \in Nat /\ stdin[i] < nextId
    BY <2>1 DEF IInv, Pipes, Ids
  <2>5. \A i \in 1 .. Len(stdin') : stdin'[i] < nextId'
    BY <1>1, <2>1, <2>2, <2>3, <2>4 DEF Ids
  <2>6. \A r \in taken \cup handled : r < nextId'
    BY <1>1 DEF IInv, Pipes, Ids
  <2> QED
    BY <2>2, <2>5, <2>6 DEF IInv, Pipes, Request, server
<1>10. Lifecycle'
  BY DEF IInv, Lifecycle, Request, NoOrphanChild
<1>11. RR!Ask(nextId)
  <2>1. Reply(nextId) = RR!Unused
    BY <1>2 DEF Reply, Outcome, RR!Unused, Answers
  <2>2. \A r \in Ids : Reply(r)' = IF r = nextId THEN RR!Waiting ELSE Reply(r)
    BY <1>1 DEF IInv, Promises, Request, Reply, Outcome, RR!Waiting, Answers
  <2> QED
    BY <1>1, <2>1, <2>2 DEF RR!Ask, Request, server
<1> QED
  BY <1>1, <1>8, <1>9, <1>10, <1>11 DEF Kept, IInv, RR!Next

\* What reading the first line of a pipe leaves.
LEMMA ReadFirst ==
  ASSUME NEW S, NEW s \in Seq(S), s # <<>>
  PROVE  /\ Head(s) \in S /\ Head(s) = s[1] /\ Len(s) \in Nat /\ Len(s) >= 1
         /\ Tail(s) \in Seq(S)
         /\ \A i \in 1 .. Len(Tail(s)) : i + 1 \in 1 .. Len(s) /\ Tail(s)[i] = s[i + 1]
<1>1. Len(s) \in Nat /\ Len(s) >= 1
  BY EmptySeq
<1>2. Tail(s) \in Seq(S) /\ Len(Tail(s)) = Len(s) - 1
  BY <1>1, HeadTailProperties
<1> QED
  BY <1>1, <1>2, HeadTailProperties

LEMMA ReadStdin ==
  ASSUME Pipes, stdin # <<>>, nextId \in Nat
  PROVE  /\ Head(stdin) \in Ids /\ Head(stdin) < nextId
         /\ Tail(stdin) \in Seq(Ids)
         /\ \A i \in 1 .. Len(Tail(stdin)) : Tail(stdin)[i] < nextId
<1>1. stdin \in Seq(Ids) /\ \A i \in 1 .. Len(stdin) : stdin[i] < nextId
  BY DEF Pipes
<1> QED
  BY <1>1, ReadFirst

LEMMA ReadStdout ==
  ASSUME Pipes, stdout # <<>>
  PROVE  /\ Head(stdout) \in Lines
         /\ Head(stdout) = Junk \/ Head(stdout).id \in handled
         /\ Tail(stdout) \in Seq(Lines)
         /\ \A i \in 1 .. Len(Tail(stdout)) :
              Tail(stdout)[i] = Junk \/ Tail(stdout)[i].id \in handled
<1>1. stdout \in Seq(Lines)
      /\ \A i \in 1 .. Len(stdout) : stdout[i] = Junk \/ stdout[i].id \in handled
  BY DEF Pipes
<1> QED
  BY <1>1, ReadFirst

LEMMA WriteFailsKept ==
  ASSUME IInv, WriteFails
  PROVE  Kept
<1> DEFINE R == {Head(stdin)} \cap pending
<1>1. /\ Reject(R, "WRITE_ERROR") /\ nextId' = nextId /\ UNCHANGED handled
      /\ R \in SUBSET pending /\ "WRITE_ERROR" \in ErrorCodes
  BY DEF WriteFails, server, ErrorCodes
<1>2. Promises' /\ [RR!Next]_(RR!vars)
  <2>1. R \in SUBSET Ids
    BY DEF IInv, Promises
  <2> HIDE DEF R
  <2> QED
    BY <1>1, <2>1, RejectSettles, AbstractFail DEF IInv
<1>3. Pipes'
  BY ReadStdin DEF WriteFails, IInv, Promises, Pipes, server
<1>4. Lifecycle'
  BY DEF WriteFails, IInv, Lifecycle, Reject, NoOrphanChild
<1> QED
  BY <1>2, <1>3, <1>4 DEF Kept, IInv

LEMMA HandleStdoutLineKept ==
  ASSUME IInv, HandleStdoutLine
  PROVE  Kept
<1> DEFINE line == Head(stdout)
<1>1. nextId' = nextId /\ UNCHANGED <<handled, child, endedBy, stopping>>
  BY DEF HandleStdoutLine, server
<1>2. Pipes'
  BY ReadStdout DEF HandleStdoutLine, IInv, Pipes, server
<1>3. CASE Correlate(line.id) # {} /\ Resolve(line, Correlate(line.id))
  <2>1. PICK r0 \in pending : line.id = r0 /\ Correlate(line.id) = {r0}
    BY <1>3 DEF Correlate
  <2>2. line \in Lines /\ r0 \in Ids /\ r0 \in handled
    <3>1. r0 \in Ids /\ line \in Lines
      BY <2>1, ReadStdout DEF HandleStdoutLine, IInv, Promises
    <3>2. line # Junk
      BY <2>1, <3>1 DEF Junk, LineOf, Ids
    <3> QED
      BY <2>1, <3>1, <3>2, ReadStdout DEF HandleStdoutLine, IInv
  <2>3. Resolve(line, {r0})
    BY <1>3, <2>1
  <2> HIDE DEF line
  <2>4. Promises' /\ [RR!Next]_(RR!vars)
    BY <1>1, <2>1, <2>2, <2>3, ResolveSettles, AbstractAnswer DEF IInv
  <2>5. Lifecycle'
    BY <1>1, <2>3 DEF Resolve, HandleStdoutLine, IInv, Lifecycle, NoOrphanChild
  <2> QED
    BY <1>2, <2>4, <2>5 DEF Kept, IInv
<1>4. CASE FailTransport("PROTOCOL_ERROR", TRUE)
  <2>1. "PROTOCOL_ERROR" \in ErrorCodes /\ TRUE \in BOOLEAN
    BY DEF ErrorCodes
  <2>2. Promises' /\ [RR!Next]_(RR!vars)
    BY <1>1, <1>4, <2>1, FailTransportSettles, AbstractFail DEF IInv, Promises
  <2>3. /\ state' \in {"closed", "failed"} /\ (state' = "closed" => state = "closed")
        /\ pending' = {} /\ killed' \in BOOLEAN
    BY <1>1, <1>4, <2>1, FailTransportSettles
  <2>4. child \notin {"none", "starting"}
    BY DEF HandleStdoutLine, IInv, Lifecycle
  <2>5. Lifecycle'
    BY <1>1, <2>3, <2>4 DEF IInv, Lifecycle, States, NoOrphanChild
  <2> QED
    BY <1>2, <2>2, <2>5 DEF Kept, IInv
<1> QED
  BY <1>3, <1>4 DEF HandleStdoutLine

LEMMA ExitEventKept ==
  ASSUME IInv, ExitEvent
  PROVE  Kept
<1>1. nextId' = nextId /\ UNCHANGED <<handled, endedBy, stopping, stdout>> /\ child' = "exited"
  BY DEF ExitEvent, server
<1>2. Pipes'
  BY <1>1, PipesUnchanged DEF ExitEvent, IInv, server
<1>3. CASE UNCHANGED <<state, pending, outcome, log, killed>>
  <2>1. Promises' /\ Stutters
    BY <1>1, <1>3, PromisesUnchanged DEF IInv, Stutters
  <2>2. Lifecycle'
    BY <1>1, <1>3 DEF IInv, Lifecycle, NoOrphanChild
  <2> QED
    BY <1>2, <2>1, <2>2, AbstractStutter DEF Kept, IInv
<1>4. CASE FailTransport("PROCESS_EXIT", FALSE)
  <2>1. "PROCESS_EXIT" \in ErrorCodes /\ FALSE \in BOOLEAN
    BY DEF ErrorCodes
  <2>2. Promises' /\ [RR!Next]_(RR!vars)
    BY <1>1, <1>4, <2>1, FailTransportSettles, AbstractFail DEF IInv, Promises
  <2>3. state' \in {"closed", "failed"} /\ pending' = {} /\ killed' \in BOOLEAN
    BY <1>1, <1>4, <2>1, FailTransportSettles
  <2>4. Lifecycle'
    BY <1>1, <2>3 DEF IInv, Lifecycle, States, NoOrphanChild
  <2> QED
    BY <1>2, <2>2, <2>4 DEF Kept, IInv
<1> QED
  BY <1>3, <1>4 DEF ExitEvent

\* The steps that touch no promise: 'close', the timer, a close before start.
LEMMA QuietStepKept ==
  ASSUME IInv, CloseEvent \/ CloseBeforeStart \/ GraceEnds
  PROVE  Kept
<1>1. Promises' /\ Stutters
  BY PromisesUnchanged DEF IInv, CloseEvent, CloseBeforeStart, GraceEnds, server, Stutters
<1>2. Pipes'
  BY PipesUnchanged DEF IInv, CloseEvent, CloseBeforeStart, GraceEnds, server
<1>3. Lifecycle'
  <2>1. CASE CloseEvent
    BY <2>1 DEF CloseEvent, IInv, Lifecycle, States, NoOrphanChild
  <2>2. CASE CloseBeforeStart
    BY <2>2 DEF CloseBeforeStart, IInv, Lifecycle, States, NoOrphanChild
  <2>3. CASE GraceEnds
    BY <2>3 DEF GraceEnds, KillChild, IInv, Lifecycle, NoOrphanChild
  <2> QED
    BY <2>1, <2>2, <2>3
<1> QED
  BY <1>1, <1>2, <1>3, AbstractStutter DEF Kept, IInv

LEMMA CloseKept ==
  ASSUME IInv, Close
  PROVE  Kept
<1>1. /\ Reject(pending, "CLOSED") /\ nextId' = nextId /\ UNCHANGED handled
      /\ pending \in SUBSET pending /\ "CLOSED" \in ErrorCodes
  BY DEF Close, RejectPending, server, ErrorCodes
<1>2. Promises' /\ [RR!Next]_(RR!vars)
  <2>1. pending \in SUBSET Ids
    BY DEF IInv, Promises
  <2> QED
    BY <1>1, <2>1, RejectSettles, AbstractFail DEF IInv
<1>3. Pipes'
  BY <1>1, PipesUnchanged DEF IInv, Close, server
<1>4. Lifecycle'
  BY <1>1 DEF Close, StopChild, ExitCodeSet, Reject, IInv, Lifecycle, States, NoOrphanChild
<1> QED
  BY <1>2, <1>3, <1>4 DEF Kept, IInv

LEMMA HandleRequestKept ==
  ASSUME IInv, NEW r \in Ids, HandleRequest(r)
  PROVE  Kept
<1>1. Promises' /\ \A q \in Ids : Reply(q)' = Reply(q)
  BY PromisesUnchanged DEF IInv, HandleRequest, client
<1>2. Pipes' /\ Lifecycle'
  BY DEF IInv, Pipes, Lifecycle, NoOrphanChild, HandleRequest, client
<1>3. RR!Handle(r)
  <2>1. outcome[r].st # "unused" /\ outcome[r] \in Outcomes
    BY DEF IInv, Promises, Pipes, HandleRequest, Ids
  <2>2. Reply(r) # RR!Unused
    BY <2>1 DEF Reply, RR!Unused
  <2>3. [q \in Ids |-> Reply(q)]' = [q \in Ids |-> Reply(q)]
    BY <1>1
  <2> QED
    BY <2>2, <2>3 DEF RR!Handle, HandleRequest
<1> QED
  BY <1>1, <1>2, <1>3 DEF Kept, IInv, RR!Next

\* The child's other steps.
LEMMA ChildStepKept ==
  ASSUME IInv, TakeLine \/ WriteJunk \/ Dies \/ (\E r \in Ids : WriteAnswer(r))
  PROVE  Kept
<1>1. Promises' /\ Stutters
  BY PromisesUnchanged
  DEF IInv, TakeLine, WriteJunk, Dies, WriteAnswer, client, server, Stutters
<1>2. Lifecycle'
  BY DEF IInv, Lifecycle, Running, NoOrphanChild, TakeLine, WriteJunk, Dies, WriteAnswer,
         client, server
<1>3. Pipes'
  <2>1. CASE TakeLine
    <3>1. nextId \in Nat /\ Pipes /\ stdin # <<>>
      BY <2>1, MaxRequestsAssumption DEF TakeLine, IInv, Promises
    <3>2. /\ Head(stdin) \in Ids /\ Head(stdin) < nextId
          /\ stdin' \in Seq(Ids)
          /\ \A i \in 1 .. Len(stdin') : stdin'[i] < nextId
      BY <2>1, <3>1, ReadStdin DEF TakeLine
    <3> QED
      BY <2>1, <3>1, <3>2 DEF TakeLine, Pipes, client
  <2>2. CASE Dies
    BY <2>2, PipesUnchanged DEF Dies, IInv, client, server
  <2> DEFINE Grows(line) == stdout' = Append(stdout, line)
  <2>3. ASSUME NEW line \in Lines, line = Junk \/ line.id \in handled, Grows(line)
        PROVE  /\ stdout' \in Seq(Lines)
               /\ \A i \in 1 .. Len(stdout') : stdout'[i] = Junk \/ stdout'[i].id \in handled
    BY <2>3, AppendProperties DEF IInv, Pipes
  <2>4. CASE WriteJunk
    <3>1. Junk \in Lines /\ Grows(Junk)
      BY <2>4 DEF WriteJunk, Lines
    <3>2. junk' \in 0 .. MaxJunk
      BY <2>4, MaxJunkAssumption DEF WriteJunk, IInv, Pipes
    <3> QED
      BY <2>3, <2>4, <3>1, <3>2 DEF WriteJunk, IInv, Pipes, client
  <2>5. ASSUME NEW r \in Ids, WriteAnswer(r)
        PROVE  Pipes'
    <3>1. PICK kind \in Answers : Grows(LineOf(r, kind))
      BY <2>5 DEF WriteAnswer
    <3>2. LineOf(r, kind) \in Lines /\ LineOf(r, kind).id \in handled
      BY <2>5 DEF WriteAnswer, LineOf, Lines
    <3>3. /\ stdout' \in Seq(Lines)
          /\ \A i \in 1 .. Len(stdout') : stdout'[i] = Junk \/ stdout'[i].id \in handled
      BY <2>3, <3>1, <3>2
    <3> QED
      BY <2>5, <3>3 DEF WriteAnswer, IInv, Pipes, client
  <2> QED
    BY <2>1, <2>2, <2>4, <2>5
<1> QED
  BY <1>1, <1>2, <1>3, AbstractStutter DEF Kept, IInv

LEMMA StepKept == IInv /\ [Next]_vars => Kept
<1> SUFFICES ASSUME IInv, [Next]_vars PROVE Kept
  OBVIOUS
<1>1. CASE UNCHANGED vars
  <2>1. Promises' /\ Stutters
    BY <1>1, PromisesUnchanged DEF IInv, vars, Stutters
  <2>2. Pipes' /\ Lifecycle'
    BY <1>1, PipesUnchanged DEF IInv, vars, Lifecycle, NoOrphanChild
  <2> QED
    BY <2>1, <2>2, AbstractStutter DEF Kept, IInv
<1>2. CASE Next
  BY <1>2, StartKept, RequestKept, WriteFailsKept, HandleStdoutLineKept, ExitEventKept,
     QuietStepKept, CloseKept, HandleRequestKept, ChildStepKept
  DEF Next
<1> QED
  BY <1>1, <1>2

-----------------------------------------------------------------------------
(* Theorems.                                                               *)

THEOREM Invariance == Spec => []IInv
<1>1. Init => IInv
  BY InitKept
<1>2. IInv /\ [Next]_vars => IInv'
  BY StepKept DEF Kept
<1> QED
  BY <1>1, <1>2, PTL DEF Spec

\* Every variable keeps its type.
THEOREM TypesKept == Spec => []TypeOK
<1>1. IInv => TypeOK
  BY DEF IInv, Promises, Pipes, Lifecycle, TypeOK
<1> QED
  BY <1>1, Invariance, PTL

\* No request waits for a client that no longer runs.
THEOREM NobodyStranded == Spec => []NoStrandedRequest
<1>1. IInv => NoStrandedRequest
  BY DEF IInv, Promises, Lifecycle, NoStrandedRequest
<1> QED
  BY <1>1, Invariance, PTL

\* A closed client has no live server process.
THEOREM NoOrphanLeft == Spec => []NoOrphanChild
<1>1. IInv => NoOrphanChild
  BY DEF IInv, Lifecycle
<1> QED
  BY <1>1, Invariance, PTL

\* Each request's log agrees with what its caller was told.
THEOREM LogsAgree == Spec => []LogAgrees
<1>1. IInv => LogAgrees
  BY DEF IInv, Promises
<1> QED
  BY <1>1, Invariance, PTL

\* The transport implements RequestResponse: a request settles once, with the
\* server's answer to it or with a failure.
THEOREM KeepsRequests == Spec => RequestsKept
<1>1. Init => RR!Init
  BY InitKept
<1>2. IInv /\ [Next]_vars => [RR!Next]_(RR!vars)
  BY StepKept DEF Kept
<1>3. Spec => RR!Init /\ [][RR!Next]_(RR!vars)
  BY <1>1, <1>2, Invariance, PTL DEF Spec
<1> QED
  BY <1>3 DEF RequestsKept, RR!Spec
-----------------------------------------------------------------------------
(* What whoever waits is owed.  A running client's process is there, as    *)
(* far as the Host has seen; what is sent moves from one pipe to the next  *)
(* and is not lost while the process lives; and the two ways in which the  *)
(* Host gives its process up both send the SIGTERM.                        *)

ChildFollows ==
  /\ state = "running" => child \in Running
  /\ state = "idle" => child \in {"none", "starting"}

Undelivered == \A r \in pending : child = "alive" => OnItsWay(r)

GivenUp == state = "failed" \/ stopping = "awaiting"
TermSent == GivenUp => child # "starting" /\ (child = "alive" => killed)

OInv == ChildFollows /\ Undelivered /\ TermSent

LEMMA OwedFollows == IInv /\ OInv => WaitsAreOwed
<1> SUFFICES ASSUME IInv, OInv PROVE WaitsAreOwed
  OBVIOUS
<1>2. NoStrandedRequest
  BY DEF IInv, Promises, Lifecycle, NoStrandedRequest
<1>1. ASSUME NEW r \in pending
      PROVE  child = "dead" \/ (child = "alive" /\ OnItsWay(r))
  <2>1. state = "running"
    BY DEF IInv, Lifecycle
  <2> QED
    BY <2>1 DEF OInv, ChildFollows, Undelivered, Running
<1> QED
  BY <1>1, <1>2 DEF OInv, TermSent, GivenUp, WaitsAreOwed

\* What a pipe keeps of its contents when its first or a new last entry moves.
LEMMA TailKeeps ==
  ASSUME NEW S, NEW s \in Seq(S), s # <<>>, NEW i \in DOMAIN s
  PROVE  (i = 1 /\ s[i] = Head(s)) \/ \E j \in DOMAIN Tail(s) : Tail(s)[j] = s[i]
<1>1. Len(s) \in Nat /\ DOMAIN s = 1 .. Len(s)
  OBVIOUS
<1>2. Tail(s) \in Seq(S) /\ Len(Tail(s)) = Len(s) - 1 /\ s[1] = Head(s)
      /\ \A j \in 1 .. Len(Tail(s)) : Tail(s)[j] = s[j + 1]
  BY <1>1, HeadTailProperties
<1>3. CASE i = 1
  BY <1>2, <1>3
<1>4. CASE i # 1
  <2>1. i - 1 \in 1 .. Len(Tail(s)) /\ DOMAIN Tail(s) = 1 .. Len(Tail(s)) /\ i - 1 + 1 = i
    BY <1>1, <1>2, <1>4
  <2> QED
    BY <1>2, <2>1
<1> QED
  BY <1>3, <1>4

LEMMA AppendKeeps ==
  ASSUME NEW S, NEW s \in Seq(S), NEW e \in S
  PROVE  /\ \A i \in DOMAIN s : i \in DOMAIN Append(s, e) /\ Append(s, e)[i] = s[i]
         /\ \E i \in DOMAIN Append(s, e) : Append(s, e)[i] = e
<1>1. /\ Len(s) \in Nat /\ DOMAIN s = 1 .. Len(s)
      /\ Append(s, e) \in Seq(S) /\ Len(Append(s, e)) = Len(s) + 1
      /\ DOMAIN Append(s, e) = 1 .. Len(s) + 1
  BY AppendProperties
<1>2. Append(s, e)[Len(s) + 1] = e /\ \A i \in 1 .. Len(s) : Append(s, e)[i] = s[i]
  BY AppendProperties
<1> QED
  BY <1>1, <1>2

\* A pipe that is not touched loses nothing.
LEMMA WayUnchanged ==
  ASSUME UNCHANGED <<stdin, taken, stdout>>, NEW r, OnItsWay(r)
  PROVE  OnItsWay(r)'
BY DEF OnItsWay

LEMMA RequestOwed ==
  ASSUME IInv, OInv, Request
  PROVE  OInv'
<1>1. nextId \in Ids /\ stdin \in Seq(Ids)
  BY MaxRequestsAssumption DEF IInv, Promises, Pipes, Request, Ids
<1>2. ASSUME NEW r \in pending', child' = "alive"
      PROVE  OnItsWay(r)'
  <2>1. CASE r = nextId
    <3>1. \E i \in DOMAIN stdin' : stdin'[i] = r
      BY <1>1, <2>1, AppendKeeps DEF Request
    <3> QED
      BY <3>1 DEF OnItsWay
  <2>2. CASE r # nextId
    <3>1. OnItsWay(r)
      BY <1>2, <2>2 DEF Request, OInv, Undelivered
    <3>2. \A i \in DOMAIN stdin : i \in DOMAIN stdin' /\ stdin'[i] = stdin[i]
      BY <1>1, AppendKeeps DEF Request
    <3> QED
      BY <3>1, <3>2 DEF OnItsWay, Request, server
  <2> QED
    BY <2>1, <2>2
<1> QED
  BY <1>2 DEF Request, OInv, ChildFollows, Undelivered, TermSent, GivenUp

LEMMA TakeLineOwed ==
  ASSUME IInv, OInv, TakeLine
  PROVE  OInv'
<1>1. ASSUME NEW r \in pending', child' = "alive"
      PROVE  OnItsWay(r)'
  <2>1. OnItsWay(r)
    BY <1>1 DEF TakeLine, client, OInv, Undelivered
  <2>2. CASE \E i \in DOMAIN stdin : stdin[i] = r
    <3>1. PICK i \in DOMAIN stdin : stdin[i] = r
      BY <2>2
    <3>2. stdin \in Seq(Ids) /\ stdin # <<>>
      BY DEF IInv, Pipes, TakeLine
    <3>3. r = Head(stdin) \/ \E j \in DOMAIN Tail(stdin) : Tail(stdin)[j] = r
      BY <3>1, <3>2, TailKeeps
    <3> QED
      BY <3>3 DEF OnItsWay, TakeLine
  <2>3. CASE ~\E i \in DOMAIN stdin : stdin[i] = r
    BY <2>1, <2>3 DEF OnItsWay, TakeLine
  <2> QED
    BY <2>2, <2>3
<1> QED
  BY <1>1 DEF TakeLine, client, OInv, ChildFollows, Undelivered, TermSent, GivenUp

LEMMA OutputOwed ==
  ASSUME IInv, OInv, WriteJunk \/ (\E q \in Ids : WriteAnswer(q))
  PROVE  OInv'
<1>1. ASSUME NEW line \in Lines, stdout' = Append(stdout, line), stdin' = stdin,
             NEW r, OnItsWay(r), r \in taken \ taken' => line.id = r
      PROVE  OnItsWay(r)'
  <2>1. stdout \in Seq(Lines)
    BY DEF IInv, Pipes
  <2>2. /\ \A i \in DOMAIN stdout : i \in DOMAIN stdout' /\ stdout'[i] = stdout[i]
        /\ \E i \in DOMAIN stdout' : stdout'[i] = line
    BY <1>1, <2>1, AppendKeeps
  <2> QED
    BY <1>1, <2>2 DEF OnItsWay
<1>2. CASE WriteJunk
  <2>1. Junk \in Lines /\ stdout' = Append(stdout, Junk) /\ stdin' = stdin /\ taken' = taken
    BY <1>2 DEF WriteJunk, Lines
  <2>2. \A r \in pending' : child' = "alive" => OnItsWay(r)'
    BY <1>1, <1>2, <2>1 DEF WriteJunk, client, OInv, Undelivered
  <2> QED
    BY <1>2, <2>2
    DEF WriteJunk, client, OInv, ChildFollows, Undelivered, TermSent, GivenUp
<1>3. ASSUME NEW q \in Ids, WriteAnswer(q)
      PROVE  OInv'
  <2>1. PICK kind \in Answers : stdout' = Append(stdout, LineOf(q, kind))
    BY <1>3 DEF WriteAnswer
  <2>2. LineOf(q, kind) \in Lines /\ LineOf(q, kind).id = q
    BY DEF LineOf, Lines
  <2>3. stdin' = stdin /\ taken' = taken \ {q}
    BY <1>3 DEF WriteAnswer
  <2>4. \A r \in pending' : child' = "alive" => OnItsWay(r)'
    <3> SUFFICES ASSUME NEW r \in pending', child' = "alive" PROVE OnItsWay(r)'
      OBVIOUS
    <3>1. OnItsWay(r)
      BY <1>3 DEF WriteAnswer, client, OInv, Undelivered
    <3> QED
      BY <1>1, <2>1, <2>2, <2>3, <3>1
  <2> QED
    BY <1>3, <2>4
    DEF WriteAnswer, client, OInv, ChildFollows, Undelivered, TermSent, GivenUp
<1> QED
  BY <1>2, <1>3

\* A transport that fails while its process lives gives it up with a SIGTERM.
LEMMA FailTransportTerms ==
  ASSUME IInv, OInv, NEW code \in ErrorCodes, NEW kill \in BOOLEAN,
         FailTransport(code, kill), nextId' = nextId, UNCHANGED <<stopping, child>>,
         child # "starting", kill \/ child # "alive"
  PROVE  TermSent'
<1>1. CASE state \in {"closed", "failed"}
  BY <1>1 DEF FailTransport, OInv, TermSent, GivenUp
<1>2. CASE state \notin {"closed", "failed"}
  BY <1>2 DEF FailTransport, KillChild, ExitCodeSet, OInv, TermSent, GivenUp, IInv, Lifecycle,
     Running
<1> QED
  BY <1>1, <1>2

LEMMA StdoutLineOwed ==
  ASSUME IInv, OInv, HandleStdoutLine
  PROVE  OInv'
<1> DEFINE line == Head(stdout)
<1>1. nextId' = nextId /\ UNCHANGED <<stopping, child, stdin, taken>>
      /\ stdout # <<>> /\ stdout' = Tail(stdout) /\ stdout \in Seq(Lines)
  BY DEF HandleStdoutLine, server, IInv, Pipes
<1>2. CASE Correlate(line.id) # {} /\ Resolve(line, Correlate(line.id))
  <2>1. line.id \notin pending' /\ pending' \subseteq pending /\ UNCHANGED <<state, killed>>
    BY <1>2 DEF Correlate, Resolve
  <2>2. ASSUME NEW r \in pending', child' = "alive"
        PROVE  OnItsWay(r)'
    <3>1. OnItsWay(r) /\ r # line.id
      BY <1>1, <2>1, <2>2 DEF OInv, Undelivered
    <3>2. CASE \E i \in DOMAIN stdout : stdout[i].id = r
      <4>1. PICK i \in DOMAIN stdout : stdout[i].id = r
        BY <3>2
      <4>2. stdout[i] = line \/ \E j \in DOMAIN Tail(stdout) : Tail(stdout)[j] = stdout[i]
        BY <1>1, TailKeeps
      <4> QED
        BY <1>1, <3>1, <4>1, <4>2 DEF OnItsWay
    <3>3. CASE ~\E i \in DOMAIN stdout : stdout[i].id = r
      BY <1>1, <3>1, <3>3 DEF OnItsWay
    <3> QED
      BY <3>2, <3>3
  <2> QED
    BY <1>1, <2>1, <2>2 DEF OInv, ChildFollows, Undelivered, TermSent, GivenUp
<1>3. CASE FailTransport("PROTOCOL_ERROR", TRUE)
  <2>1. "PROTOCOL_ERROR" \in ErrorCodes /\ TRUE \in BOOLEAN /\ child # "starting"
    BY <1>1 DEF ErrorCodes, IInv, Lifecycle
  <2>2. TermSent'
    BY <1>1, <1>3, <2>1, FailTransportTerms
  <2>3. state' \in {"closed", "failed"} /\ pending' = {}
    BY <1>1, <1>3, <2>1, FailTransportSettles
  <2> QED
    BY <2>2, <2>3 DEF OInv, ChildFollows, Undelivered
<1> QED
  BY <1>2, <1>3 DEF HandleStdoutLine

\* The steps after which nothing is pending with a process that lives.
LEMMA EndsOwed ==
  ASSUME IInv, OInv,
         SpawnFails \/ WriteFails \/ ExitEvent \/ CloseEvent \/ CloseBeforeStart \/ Close
         \/ GraceEnds \/ Dies \/ Start \/ Spawned
  PROVE  OInv'
<1>1. CASE Start \/ Spawned
  BY <1>1 DEF Start, Spawned, client, IInv, Lifecycle, OInv, ChildFollows, Undelivered, TermSent,
     GivenUp, Running
<1>2. CASE SpawnFails
  <2>1. "PROCESS_ERROR" \in ErrorCodes /\ nextId' = nextId /\ FailTransport("PROCESS_ERROR", FALSE)
    BY <1>2 DEF ErrorCodes, SpawnFails
  <2>2. state' \in {"closed", "failed"} /\ pending' = {}
    BY <2>1, FailTransportSettles
  <2> QED
    BY <1>2, <2>2 DEF SpawnFails, OInv, ChildFollows, Undelivered, TermSent
<1>3. CASE WriteFails
  BY <1>3 DEF WriteFails, Reject, OInv, ChildFollows, Undelivered, TermSent, GivenUp
<1>4. CASE ExitEvent
  <2>1. child' = "exited" /\ state' # "running" /\ state' # "idle"
    <3>1. CASE UNCHANGED state /\ state \in {"closing", "closed"}
      BY <1>4, <3>1 DEF ExitEvent
    <3>2. CASE FailTransport("PROCESS_EXIT", FALSE)
      BY <1>4, <3>2 DEF ExitEvent, FailTransport
    <3> QED
      BY <1>4, <3>1, <3>2 DEF ExitEvent
  <2> QED
    BY <2>1 DEF OInv, ChildFollows, Undelivered, TermSent
<1>5. CASE CloseEvent
  BY <1>5 DEF CloseEvent, OInv, ChildFollows, Undelivered, TermSent, Running
<1>6. CASE CloseBeforeStart
  BY <1>6 DEF CloseBeforeStart, OInv, ChildFollows, Undelivered, TermSent, GivenUp
<1>7. CASE Close
  <2>1. pending' = {} /\ state' \in {"closed", "closing"} /\ UNCHANGED <<child, killed>>
        /\ (stopping' = "grace" \/ stopping' = stopping)
    BY <1>7 DEF Close, RejectPending, Reject, StopChild
  <2> QED
    BY <2>1 DEF OInv, ChildFollows, Undelivered, TermSent, GivenUp
<1>8. CASE GraceEnds
  <2>1. child # "starting" /\ state' = state /\ child' = child /\ pending' = pending
        /\ UNCHANGED <<stdin, taken, stdout>>
    BY <1>8 DEF GraceEnds, server, IInv, Lifecycle
  <2>2. child' = "alive" => killed'
    BY <1>8, <2>1 DEF GraceEnds, KillChild, ExitCodeSet, Running, IInv, Lifecycle
  <2>3. Undelivered'
    BY <2>1, WayUnchanged DEF OInv, Undelivered
  <2> QED
    BY <2>1, <2>2, <2>3 DEF OInv, ChildFollows, TermSent
<1>9. CASE Dies
  BY <1>9 DEF Dies, client, OInv, ChildFollows, Undelivered, TermSent, Running
<1> QED
  BY <1>1, <1>2, <1>3, <1>4, <1>5, <1>6, <1>7, <1>8, <1>9

LEMMA OwedStep ==
  ASSUME IInv, OInv, [Next]_vars
  PROVE  OInv'
<1>1. CASE UNCHANGED vars
  <2>1. Undelivered'
    BY <1>1, WayUnchanged DEF vars, OInv, Undelivered
  <2> QED
    BY <1>1, <2>1 DEF vars, OInv, ChildFollows, TermSent, GivenUp
<1>2. ASSUME NEW r \in Ids, HandleRequest(r)
      PROVE  OInv'
  <2>1. Undelivered'
    BY <1>2, WayUnchanged DEF HandleRequest, client, OInv, Undelivered
  <2> QED
    BY <1>2, <2>1 DEF HandleRequest, client, OInv, ChildFollows, TermSent, GivenUp
<1>3. CASE Next
  BY <1>2, <1>3, EndsOwed, RequestOwed, StdoutLineOwed, TakeLineOwed, OutputOwed DEF Next
<1> QED
  BY <1>1, <1>3

(* Nobody waits for nothing: a pending request is on its way to or from a  *)
(* live process, or that process's exit is about to be seen, and a process *)
(* that was given up has its SIGTERM, for any number of requests.          *)
THEOREM NobodyWaitsForNothing == Spec => []WaitsAreOwed
<1>1. Init => OInv
  BY DEF Init, OInv, ChildFollows, Undelivered, TermSent, GivenUp
<1>2. IInv /\ OInv /\ [Next]_vars => OInv'
  BY OwedStep
<1>3. IInv /\ OInv => WaitsAreOwed
  BY OwedFollows
<1> QED
  BY <1>1, <1>2, <1>3, Invariance, PTL DEF Spec
=============================================================================
