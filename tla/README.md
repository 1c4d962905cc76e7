# finanzas-mcp: verification project

TLA+ models, TLC configurations and TLAPS proofs for finanzas-mcp: a Web Host
that chats with DeepSeek, lets it read and propose changes through MCP servers,
and executes a change only after the user confirmed it; and the Finance MCP
server behind it, with its PostgreSQL database.

Everything here is translated from the code under `app/`, `host/`, `servers/`
and `shared/`. `PROJECT.json` names the source lines of every definition.

## 1. The system

| part | code | state it keeps | operations |
|---|---|---|---|
| browser chat | `app/components/chat-client.tsx` | session id, messages, one confirmation card, the request it waits for | submit, decide |
| browser panels | `app/components/financial-dashboard.tsx`, `mcp-logs-panel.tsx`, `workspace.tsx` | active tab, what each panel shows, its request, opened payloads | refresh, select, toggle |
| web chat API | `host/web/web-chat-api.ts` | none | one POST: message or decision |
| dashboard service | `host/web/financial-dashboard.ts` | none | parallel MCP reads, one per section |
| interaction logs | `host/mcp-clients/mcp-interaction-log.ts`, `host/web/mcp-logs.ts`, `web-mcp-logs-api.ts` | append-only store | log, list |
| chat sessions | `host/context/*` | `Map` of sessions (messages, summary, pending write), set of busy sessions | `createSession`, `sendMessage`, `closeSession` |
| orchestrator | `host/orchestration/chat-orchestrator.ts` | none beyond a call | `run`, `completeConfirmedWrite` |
| tool registry | `host/orchestration/mcp-tool-registry.ts` | servers and their tools, with the write policy | register, unregister, resolve |
| runtime managers | `host/web/web-host-runtime.ts` | promises and runtimes of the process | `getFinance`, `getHost`, `close` |
| MCP client, transports | `host/mcp-clients/*` | lifecycle state, requests in flight, child process or HTTP session | `initialize`, `toolsList`, `toolsCall`, `close` |
| Finance MCP server | `servers/finance-mcp/*` | lifecycle state, HTTP sessions | initialize, tools/list, tools/call |
| repositories | `servers/finance-mcp/repositories/*` | PostgreSQL tables | single statements and interactive transactions |
| calculations | `servers/finance-mcp/services/*` | none | projection, viability, cash flow, sale pricing |

How they interact.  The browser posts to the API, which waits for the process's
one Host runtime and calls `sendMessage`.  The session service runs one turn at
a time per session: it may compact the history (a DeepSeek call), runs the
orchestrator (DeepSeek calls and MCP reads) and either appends the completed turn
or stores one pending write.  The next message of that session, or the press of
a button on its card, confirms or cancels; anything else is a reminder.  A
confirmed write is one `tools/call` to the server that owns the tool.  The
dashboard reads through the same registry, from a runtime that needs the Finance
server only; chat extends that runtime with Filesystem and Git.  Every request
and answer to a server is logged, and the logs panel reads the log.  Over HTTP
the Finance server handles calls concurrently (over STDIO one line at a time, but
several processes share the database), so its repositories interleave statement
by statement.

What is hard here:

- requests of the same session that overlap, while their handlers are in an await;
- answers that are lost or late, for calls the server did execute, and answers to
  a browser that has given the request up;
- decisions that name a session and not an operation;
- failures half-way: a model call after an executed write, a balance read after
  a committed row, a price check after the stock was taken, the second of three
  servers that does not start;
- rows read without a lock and written later, and rows locked in the order a
  caller happened to choose;
- histories cut by compaction, in the middle of a turn with tool calls;
- transports that fail with requests in flight, processes that exit while they
  are being closed, sessions deleted or lost while calls are executed;
- months that are shorter than the day a payment is due.

Correctness, per component:

- *chat sessions and orchestrator*: no mutation before an explicit
  confirmation, at most one execution, exactly the operation that was shown, a
  truthful report, turns that do not interleave, histories made of whole turns,
  sessions that are always released;
- *inventory and sales*: the stock is the sum of its movements, a sale is all or
  nothing and never oversells, every call ends;
- *transactions, debts, receivables*: batches are all or nothing, a category has
  the type of its row, the income of a sale stays, what was settled stays settled;
- *transports, lifecycle*: no request settles twice, and each one that settles
  does so with its own answer or with a failure; none is left behind by an exit, a
  failure or a close; `close` ends and leaves no process and no session that can be
  reached; both ends agree on the handshake;
- *runtime managers*: each server started once, closed with the runtime;
- *browser*: a card tells the truth about the write it stands for, a click runs
  that write, the panels show what was read and belong to the conversation;
- *calculations*: equal to a reference definition, at the boundaries too.

## 2. Modules

| module | models | composes |
|---|---|---|
| `WriteConfirmation` | abstract: what the confirmation flow promises of one proposed write | |
| `ChatSession` | session store, session service, orchestrator; model and servers as environment | implements `WriteConfirmation` |
| `WebRuntime` | the runtime managers, the starts of the three servers, the tool registry | |
| `WebChat` | browser chat, network, chat API | `WebRuntime` |
| `Workspace` | dashboard and logs, component and service, and the log store | |
| `Inventory` | products, movements and sales over PostgreSQL | |
| `Projection` | the calculations, as operators over rows and days | |
| `Ledger` | transactions, incomes of sales, debts and receivables over PostgreSQL | `Projection` |
| `RequestResponse` | abstract: what a transport promises of one request | |
| `StdioTransport` | the STDIO client, its child process and the pipes between | implements `RequestResponse` |
| `HttpSession` | lifecycle client and Streamable HTTP client, network, HTTP server with its sessions | implements `RequestResponse` |
| `MCChatSession`, `MCWebHost`, `MCWorkspace`, `MCInventory`, `MCLedger` | values, inputs and constraints for TLC | their module |
| `<module>Proofs` | proofs of `ChatSession`, `WebChat`, `Workspace`, `Inventory`, `Ledger`, `StdioTransport`, `HttpSession` | their module; `WebChatProofs` covers `WebRuntime` too |
| `FoldTheorems` | lemmas about folds and sums over finite sets, and about cycles in them | used by the proofs of `ChatSession`, `Inventory`, `Ledger` |

### ChatSession

State: `status`, `messages`, `pending` are the store's `Map`; `busy` is
`busySessionIds`; `req[r]` is one call of `sendMessage`, whose `pc` names the
await it is in (`compacting`, `model`, `reading`, `describing`, `writing`,
`explaining`) and whose other fields are its local variables.  `wire`,
`applied`, `answer` and `write` are the server's side of a proposed write.
`fate` is a history variable: what the user decided about a proposal and what
the Host reported of it.

Node runs a handler without interruption up to its next await, so an action is
the code between two awaits.  `Accepts` is the synchronous head of
`sendMessage` up to `busySessionIds.add`; `CancelPending`, `ConfirmPending` and
`BeginTurn` are its branches.  `Compact`/`CompactionFails` end the first await;
`AnswerText`, `RequestReads`, `ProposeWrite` and `AbortTurn` are the ends of a
model call in `run`; `CompleteReads` the end of its tool calls;
`SetPendingConfirmation` the end of the describer.  `WriteOutcomeUnknown`,
`WriteRejected`, `WriteSucceeds`, `ExplainWrite` and `ExplanationInvalid` are
`completeConfirmedWrite`.  `Mcp...` is the server that owns the tool: it may
execute a call after the Host stopped waiting for it.

Abstractions.  A message keeps its role, its calls and whether its result is an
error or a sale quote's arguments; texts are dropped.  A tool is `read`,
`quote_sale`, `record_sale`, `record_transaction` (income or expense, the ones a
batch may join) or `other_write`.  Only the arguments of a sale are told apart.
The token threshold of the compactor is a free choice between compacting and not.
Blank messages, reminders and requests that are refused (missing or busy
session) change nothing and are not steps.  Every way in which `run` throws is
`AbortTurn`, but for a failing describer, which is `DescriberFails`.  A single
batch tool call behaves as `other_write` does.
A runtime unregisters tools only when it is closed, so
`validatePendingWrite` can only fail on the operation itself, which
`PendingMatchesItsTurn` excludes.  `docs/PROJECT_SPEC.md:446` speaks of one round of
tool calls per turn; the code allows two (`chat-orchestrator.ts:342`), and so
does the model.

### Inventory

State: `stock`, `price`, `movements`, `sales` are committed tables (`opening` is
a history variable), `lock` the row locks of products, `op[o]` one call of a
repository method with its uncommitted changes.  Every action is one statement
of a transaction at READ COMMITTED: a read sees committed rows, an UPDATE waits
for the row's lock and then evaluates its WHERE on the row's current value, a
commit makes everything visible and releases the locks.  `Abort` is a timeout
of the interactive transaction, a lost connection or a crash at any statement;
`DeadlockVictim` is PostgreSQL ending one transaction of a cycle of lock waits.
The database's acknowledgement of a commit is taken as reliable.

`CheckStock` reads the product and checks the stock it read; the later
`AdjustStock` increments the row whatever its value is then.
`DecrementStock` is the sale's `updateMany ... where stock >= quantity`.
An unknown account or category of a sale ends it before its first update and is
covered by `Abort`.

### StdioTransport

State: `state`, `nextId`, `pending` are the client's fields; `outcome` is what
each request's promise has come to, `log` the request's log entries; `stopping`
is where `stopChild` is (`none` stands for no `closePromise`).  `child`,
`endedBy` and `killed` are the child process as Node shows it: it is `dead`
before `exit` is emitted, then `exited`, and `closed` after `close`, which comes
only when its output has been read.  Node sets `exitCode` for a process that
ended by itself and leaves it null for one ended by a signal (`ExitCodeSet`).
`stdin`, `stdout`, `taken` and `handled` are the pipes and the server.

The Host is single threaded: `Request`, `Close`, and the event handlers
`HandleStdoutLine`, `ExitEvent`, `CloseEvent`, `WriteFails` and `GraceEnds` are
one action each, with every call they make.  `FailTransport` is `failTransport`
with the rejection of all that is pending and the kill.  The server reads a
line, handles it and answers in three steps, and may die between them; one
server may handle several requests at once and answer in any order, as the Git
and Filesystem servers may.

Abstractions.  `notify` writes a line and changes nothing, so it is no step; a
request refused by `requestStateError` or by validation leaves no trace.  A
child that ends because its stdin ended is `Dies`.  A second `close()` joins
the first or returns at once.  All callers await `start()` before any other
call; a `close()` during `start()` is therefore not modelled.

### HttpSession

State: `transport`, `closePromise` and `mcpSessionId` are the transport's fields,
`life` the lifecycle client's state.  An exchange is a POST (`initialize`,
`initialized`, a call) or the DELETE of `close`; `phase` is the await its caller
is in (the headers, the body, or the `close()` that a malformed result of a call
makes it wait for), `outcome` what the caller was told, and `wire` where the
request or its answer is, whoever still waits for it.  `sessions`, `lifecycle` and
`handled` are the server's map, that session's lifecycle, and the calls executed.

Each handler is one action up to its next await: a caller sends, the headers
arrive (the status is judged and the timer cleared, `:204`), the body arrives and
is judged, or the fetch fails.  The server receives a request, executes it after
an await, and answers; `Restart` loses its sessions.  The network delays and
loses anything, in both directions; a request the client gave up is executed all
the same, because the server never notices a client that is gone.

What the code implies and the model therefore has: a transport never initializes
again after a 404 (`:213`), so a client has one session; the lifecycle client
is closed only when `READY`, or by its own `initialize` when that fails; a call it
refuses to send leaves no trace; an answer that is no answer to its request sets
the transport to `failed` from any state (`:146`); a malformed result closes the
client while other calls are in flight.

`MaxFaults` bounds the answers that are malformed.  A body whose headers have
arrived may arrive, fail, or do neither: the timer is cleared (`:204`) and nothing
else in the code bounds `response.text()` (`:121`).

### WebRuntime

State: `start[a]` is one runtime that the process has created or is creating: a
Finance runtime or the Host runtime that extends it, the await its start is in,
the runtimes it is built on, and the clients it has open.  `registry` is, by
Finance runtime, whose tools are registered.  The four manager variables are the
promises and runtimes that `web-host-runtime.ts` keeps; 0 is undefined.  `closes`
counts calls of `close()`; `raced` is a history variable that says whether one of
them overlapped a start.

`GetFinance` and `GetHost` are what a request gets: the runtime, the promise of
a start in progress, or a new start.  Each server's start, and each `tools/list`
of it, ends well or fails; a failure unregisters what the start had registered
and closes what it had opened, before the promise rejects and the manager
forgets it.  `close()` forgets everything, and closes the runtimes the manager
holds.  A start that is in progress then is not stopped: it publishes a runtime
that nobody closes.  That case is in the model, and the properties except it by
`raced`.

### WebChat

State: `sessionId`, `inFlight`, `posted` and `card` are the browser's; `req[i]`
is one POST: what it says, the operation its card showed or its answer is about,
its session, the start it waits for, and where it is.  `home`, `pending` and
`busy` are the Host's sessions (a session lives and dies with the runtime whose
store has it), `op` what became of each operation and by what it was
started.  `clicked` and `stray` are history variables.

The browser posts a message or a decision, and its fetch may fail at any time,
whatever the request is still to do.  The API takes a request up when its runtime
is there, checks its session and its pending operation, and runs the turn or the
write (what `ChatSession` details; here it ends in any way that allows).  An
answer that comes while it is awaited changes session id and card as
`chat-client.tsx` does.  There is one tab: a session id never leaves the tab it
was given to.

The decision names the session and not the operation.  When the browser gives up
a decision and that decision takes effect later, or a message is answered with a
proposal nobody receives, the next click may therefore be for another operation
than the one it executes.  `stray` records these two kinds of request
(`"decision"`, `"proposal"`), and `CardsAreRight` and `ClickRunsItsCard` except
them: as long as nothing strays, cards tell the truth and a click runs its card.
Without the exceptions both are violated, in five posts at the least for the click
that executes a second operation and is told of the first one.

### Workspace

State: `version` stands for the business (a write moves it on) and `log` is the
interaction store with the context of each entry; `dashboard` and `get` are the
dashboard component and its request, with the sections the service has read so
far; `tab` and `chat` the workspace's tab and conversation; `timer`, `panel`,
`post`, `known` and `expanded` the logs panel's scheduled load, state, request and
payload lists.  `toggled` and `dropped` are history variables.

The dashboard service starts all reads and judges each on its own (`Parsed`: an
error, an incomplete result, a malformed item); the API's answer is ready, partial or
failed.  The component loads on mount and on refresh, and keeps its data when a
refresh fails.  The logs panel loads when it is selected and, through a timer,
when the conversation changes; `load` returns at once when a load is in flight, so
that a load for the new conversation may be dropped.  That case is in the model
and `PanelFollowsTheChat` excepts it by `dropped`.

### Projection and Ledger

`Projection` has the calculations of the server as operators: balance, cash flow,
due dates of fixed expenses, what is due within a horizon, safe and potential
balance, the status of a purchase.  The calendar is a sequence of month lengths, a
date the number of a day; money is a number of cents, so that `Decimal` is exact.

`Ledger` has the rows they are computed from, under overlapping tool calls.  State:
`today`, the tables `transactions` and `dues` (debts and receivables have the same
repository, service and tools under other names, so they share a table), `soldAs`
(the transactions that a sale refers to) and `op[o]`, one call of a write tool.
Outside a batch a handler runs statement by statement, so every read, check and
write is a step of its own: `update_transaction` compares the category with the row
it read and then updates whatever the row is by then, and the balance is read
after the row is written.  A batch is one transaction: its rows become visible
together.  Descriptions and priorities are left out; accounts and categories have
no tool that writes them.

## 3. Runs

| run | expects | properties | bounds |
|---|---|---|---|
| `chat_session` | pass | `ConfirmedThenOnce`, `HonestReport`, `BusyWithOneTurn`, `SessionsAreReleased`, `ImplementsConfirmationFlow` | 2 sessions, 2 requests, 2 proposals, histories of up to 5 messages, window 1 |
| `chat_turns` | pass | `PendingStaysRight`, `HistoryIsWholeTurns`, `TurnsRunOut` | 1 session, 1 request, 2 proposals, 2 sale arguments, up to 6 messages before a turn, window 3 |
| `web_host` | pass | `ServersFollowTheRuntime`, `CatalogIsAlive`, `CardsAreRight`, `ClickRunsItsCard`, `StartedAtMostOnce` | 5 posts, 2 proposals, 2 sessions, 4 starts, 1 close, under a shared budget |
| `workspace` | pass | `DashboardIsHonest`, `ErrorsOpenOnce`, `PanelFollowsTheChat`, `DataIsKept`, `LoadsRunOut`, `LoadsEnd` | 2 sections, 2 versions, 2 sessions, 2 log entries, any number of loads |
| `inventory` | pass | `StockIsLedger`, `SalesAreAtomic`, `SalesNeverOversell`, `WaitsAreResolved`, `CallsCanEnd`, `CallsRunOut` | 2 products, 3 calls, 2 prices, opening stock 1 or 2 |
| `ledger` | pass | `TransactionsStayRight`, `AcceptedMarksHold`, `BatchesAppearWhole`, `CashFlowAddsUp`, `ProjectionsComeTrue`, `DueDatesAreSeen` | 3 calls, 2 accounts, 2 categories, 3 seeded rows, 22 months |
| `stdio` | pass | `NoOrphanChild`, `LogAgrees`, `WaitsAreOwed`, `RequestsKept`, `AwaitsEnd` | 3 requests, 1 stray line |
| `http` | pass | `BothEndsAgree`, `WaitsAreOwed`, `CallsKept`, `OnlyABodyHangs` | 2 calls, 2 malformed answers |
| `chat_forgets` | violation | `ExecutedWritesAreRemembered` | as `chat_turns`, 8 messages |
| `chat_rejected` | violation | `RejectedMeansNotDone` | as `chat_turns`, 8 messages |
| `stock_negative` | violation | `StockNeverNegative` | 2 products, 2 calls, opening stock 1 |
| `stdio_close_hangs` | violation | `CloseAlwaysReturns` | 1 request, 1 stray line |

The type invariants (`TypeOK`) are not run but proved, for every module.  A property
that has several parts is their conjunction, and each part has its theorem:
`ConfirmedThenOnce` (`OnlyConfirmedWritesAreSent`, `WritesAtMostOnce`),
`BusyWithOneTurn` (`ContextIsCurrent`, `BusyIsOwned`), `PendingStaysRight`
(`PendingMatchesItsTurn`, `SaleMatchesItsQuote`), `TransactionsStayRight`
(`CategoriesMatch`, `SalesKeepTheirIncome`), `BothEndsAgree` (`BothSidesReady`,
`CloseRemovesSession`), and the `WaitsAreOwed` of STDIO, which begins with
`NoStrandedRequest`.

Why the bounds are enough.  The hazards of a chat session are between two
handlers and between two proposals: two of each let a second request arrive in
every await of the first, and a second proposal follow a confirmed, lost,
cancelled or dropped one.  `MaxMessages` stops new turns, not the turn in
progress.  The window of the compactor is 8 messages in the code; it is made
shorter than a history (1 or 3) so that a compaction happens, and 3 makes it
start inside a turn with tool results.  The reply lists hold every kind of turn:
text, one and two rounds of reads, two quotes in one message, quotes followed by
either sale, other writes, and writes that become a batch.

Web host: a message, a lost answer, a second proposal, and a late and a new
decision are five posts, the length of the shortest behaviours in which a click
executes the wrong operation or a card tells the wrong outcome; two sessions let
one be lost with its runtime and replaced.  Four starts are a Finance runtime,
its extension, and both once more, after a failure or a close.  `Budget` lets
posts and starts share `MaxWork` 7: five posts on one runtime, or fewer across a
restart of it.  The first two posts may find the Host in any state, so that they
overlap each other, a start, its failure and the next one; with more than two, the
Host is up and at most two requests are under way: the late one and the one the
tab waits for.

Workspace: the two panels meet only in the log, so `MCWorkspace` looks at one of
them at a time, with the other one's entries in the log as anybody's.  Two
sections let one fail and one succeed, two versions let a read be older than a
write, two sessions let a conversation change during a load.  Loads are unbounded.
Away from the logs tab the dashboard and the chat are the same to the logs panel,
and so are entries of the Host and of the dashboard, so one of each is enough.

What ends is asked in two ways.  Liveness properties say that it does, under the
fairness of section 4.  Beside them are properties without fairness that say why:
whoever waits is owed what it waits for (`WaitsAreResolved`, `BusyIsOwned`, the
`WaitsAreOwed` of STDIO) or has an exchange under way (the `WaitsAreOwed` of HTTP), and a call, a turn or a load that moves has fewer steps left
(`CallsRunOut`, `TurnsRunOut`, `LoadsRunOut`).  These are proved for any constants.

Three repository calls suffice for a movement to be recorded by one and deleted
twice by the others, and for a sale to race two others (no service or tool calls
`deleteMovement`, only the repository's tests do: it is modelled as an operation
the repository offers); the sale inputs take two
products in both orders and one product on two lines.  For the ledger three calls
let an update's read and write have a deletion and a batch between them.  They run
on days 30 and 31 only (`Working`, in `MCSpec`), where a month ends and both seeded dues lie
within the short horizon; without calls, the calendar runs through every day
of 22 months, one February with 28 and one with 29 days among them, and the due
dates are checked on each, for each horizon.

Three requests on STDIO let one be answered out of order, one be lost in the
pipe and one never be read, whatever event comes between; one stray line fails
the transport at each of these points.  Two calls over HTTP let one be in each
await (headers, body, `close()`) while the other ends in each way, a second
malformed answer while the first one's `close()` is under way included; a third
call could only repeat what the second one meets, and safety is proved for any
number of calls.

The deadlock check is off where the system may stop: a Host whose bounded
histories are full and whose proposals are used up, a tab that has sent its last
post, a closed client, a ledger on its last day.  It is on in the
inventory runs, where the price of a product can always be changed, and in the
workspace, where the user can always select another tab.

## 4. Fairness

`ChatSession!FairSpec` is weak fairness of every request's resumption, nothing
else: users and servers owe no step.  Each await ends: a DeepSeek call carries
a timeout that covers its body (`deepseek-client.ts:315`, `360`).  That
`toolsCall` settles is an assumption about the servers: a STDIO request has no
timeout, and the HTTP timeout covers only the headers.  The action that
resumes it is enabled by a failure at any time, so the model says: an answer or
a failure arrives.

`StdioTransport!FairSpec` is weak fairness of the event loop's deliveries (a line,
`exit`, `close`, the timer of `stopChild`), of the death of a child that was sent
SIGTERM, and of a living server's reading, handling and answering, which
`stdio-server.ts:85-98` does on every path.  Nothing makes a child exit by itself,
and no caller owes a `close()`.  A server that stops answering without exiting, or
a child that ignores SIGTERM (`stdio-jsonrpc-client.ts:459`), is outside the
assumption: the client has no timeout for either.

`HttpSession!FairSpec` is weak fairness, for every exchange, of the failure of its
fetch, nothing else: the timer ends it as long as its headers are not there
(`streamable-http-jsonrpc-client.ts:197`, `204`).  The server and the network owe
nothing: no request need be read, executed or answered, and a body that has begun
need neither end nor fail.  `OnlyABodyHangs` holds all the same; that every call ends does
not (section 6).

`Workspace!FairSpec` is weak fairness of the dashboard's steps as a whole, of the
logs' steps as a whole, and of the timer: every read ends, the API answers, a
fetch is settled, and a due timer fires.  Users owe no click.

The inventory needs no fairness.  `WaitsAreResolved` says that among any open calls
that wait only for each other one need not wait, or PostgreSQL may end it because
they wait in a cycle; `CallsCanEnd` that a call that need not wait is ENABLED, so
that no state of a call is without a next statement; and `CallsRunOut` that the
statements of a call run out.  The ledger and the web host have no liveness
property.

## 5. Proofs

All proofs hold for any constants that satisfy the named assumptions of their
modules, so for any numbers of sessions, requests, proposals, products, calls,
starts and days.  The assumptions say what the code or its database ensures:
inputs have the types that `validation.ts` lets through (a purchase is positive),
the tables of the seed are finite and their rows have the columns' types, there is
an account, and the calendar has months of 28 to 31 days that go on past the last
day and every horizon.

`FoldTheorems`.  Sums and folds of the community modules are defined by recursion
over the subsets of a finite set, and the provers have no induction.  Each claim is
proved by a least counterexample instead: a smallest subset (or number) for which
it fails, from which removing one element gives a smaller one.  From it: the fold
exists and has the type of its accumulator (`FoldExists`); a sum gains and loses one
member at a time, splits over disjoint sets, over sums of weights and over the
values of a key (`TotalAdd`, `TotalRemove`, `TotalJoin`, `TotalOfSums`, `TotalByKey`).

`ChatSessionProofs`.  The inductive invariant adds to `TypeOK` what ties the
variables together: a proposal belongs to one place only (a request's draft, a
session's pending write, a request in `writing` or `explaining`, or none), its
`fate` says which, and a write that was not confirmed has nothing on the wire
and no answer; requests in progress have their session in `busy`, no two of
them the same one, and the session's messages as their context.  From it:
`ChatTypesCorrect`, `TurnsAreSerialised`, `NothingWithoutConfirmation`,
`ConfirmedWritesRunOnce`, `ReportsAreHonest`, and `HostImplementsFlow`, in which
every action is shown to be a step of `WriteConfirmation` or to leave every
proposal's abstract state unchanged.  `OnlyConfirmedWritesAreSent` alone is not
inductive: a pending write whose proposal was already used would be sent twice.
A second invariant, `HInv`, is about messages: every history is whole turns in which
each call of a read or a quote was answered, and the call of a write stands alone
in its message (`WholeHistories`), answered or, when its outcome is unknown, not
(`chat-orchestrator.ts:415`-`421`), a request's turn is a fragment of one,
as far as its await says (`GoodTurns`), a pending write ends its turn and agrees
with its quote (`GoodPendings`), and a session with a request in progress has
no pending write (`BusyMeansUndecided`).  That results are in the place of their calls is what the quote
needs: `QuoteStep` takes a tool message for the result of the quote by its id alone,
which could be another message's call if results were missing or out of order.  The
quote is a fold over the messages; `QuoteStepKeeps` says what its accumulator means
after each message.  From it: `HistoriesStayWhole`, `PendingEndsItsTurn`, `SalesStayQuoted`.
What ends: every step is a step of one request at most, and `OneRequestMoves` sorts
them into three kinds, which take a session, go on to an await with fewer left
behind it, or give the session back.  `BusySessionsAreOwned` and `TurnsHaveAnEnd`
follow from these kinds and the types alone; a turn has seven awaits at most.

`WebChatProofs`, the runtime.  The inductive invariant is `RuntimeTypes` and, unless
`raced`, `Tidy`: the clients and the base of a start are those its phase implies
(`Shaped`), the starts in flight are those the manager's promises name
(`Promised`), a runtime it holds is one that came up (`Published`), whoever has
a client is held or in flight (`Connected`), and the registry has the tools of
exactly those servers (`Cataloged`).  `raced` makes it inductive: a `close()`
that overlaps no start leaves nothing behind, one that does is excepted from
then on.  From it: `OneRuntime`, `CatalogStaysAlive`.

`WebChatProofs`, the chat.  `ChatRunsTheRuntime` shows that every step of the chat is a step
of the runtime or leaves it alone, so that the runtime's theorems carry over
(`ServersFollowTheHost`).  The inductive invariant says where an operation is
(`Stored`: pending in one session, whose runtime lives; `Held`: run by one
request, which keeps its session busy), what a request in flight may be about
(`Flights`), that one card at most is active (`OneCard`), what an active and a
failed card imply (`Shown`, `InError`), that a decided card and its operation
agree (`Agreed`), and what has been clicked (`Clicks`); the last parts hold as
long as nothing strays.  From it: `WebTypesCorrect`, `CardsCanBeReliedUpon`,
`ClicksRunTheirCards`, `OperationsStartOnce`.

`WorkspaceProofs`.  The inductive invariant is one part for the Host and its
log, one for the dashboard's request, one for what the dashboard shows, one for
the logs panel: what is shown was read after it was asked for, the payloads that
are open are the errors seen so far but for those toggled, and a load that is in
flight while the conversation changes leaves the timer set or is marked
dropped.  From it: `WorkspaceTypesCorrect`, `DashboardTellsTheTruth`,
`ErrorsAreOpenedOnce`, `LogsFollowTheChat`, `PanelsKeepTheirData`.  `LoadsHaveAnEnd`
takes one lemma for each panel's load, whose steps either reach a later stage or,
while the dashboard's sections are read, leave fewer of them pending, and one
for the steps of everybody else, which do not start it again: what the panel
shows is `loading` or `refreshing` as long as its load is in flight.

`InventoryProofs`.  The inductive invariant is `TableTypes`, `LockTypes` and
`OpTypes`: a call changes only rows it has locked, a lock belongs to an open
call that updated that row, a locked row is in the catalog, and the changes of
a sale fit the stock of the rows it holds.  From it: `InventoryTypesCorrect`,
`SalesFitTheStock`, `RowsAreCommitted`, `SalesStayWhole`, `SalesAtomic`.  That the
stock is what its movements add up to (`StockAlwaysAddsUp`) takes `SInv`, which adds
that rows are finite in number and their ids unique (`RowsBooked`), that an open
call has changed exactly what its lines say of the products it has done and that
a deletion takes back what the row it aims at says, if that row is still there
(`CallsBooked`): two deletions of one movement may both read it, and the second one
waits for the lock on its product and then finds the row gone.
That nobody waits for ever (`WaitsThatEnd`) takes `WInv`: who holds a lock is open,
and finitely many calls are.  `CycleWithin` (`FoldTheorems`) says that wherever a
finite set is mapped into itself, a part of it is mapped onto itself; with the map
from each waiting call to the holder of the lock it wants, that part is a set of
calls as `DeadlockVictim` requires it.  `OneCallMoves` sorts the steps into those that
begin a call, advance it or end it; from it `WInv` is kept and the statements run
out (`CallsHaveAnEnd`).

`LedgerProofs`.  The inductive invariant adds to `TypeOK` that the rows a call has
yet to write do not exist (`IdsAreUsedOnce`), what is known of a call's arguments
(`Arguments`), and that what a call compared is still so when it writes
(`ComparisonsHold`): the row may have been updated or deleted since, but no update
changes a row's type and none unsettles a due, so the comparison made on the
earlier row holds for the later one.  From it: `LedgerTypesCorrect`,
`CategoriesAlwaysMatch`, `IncomesOfSalesStay`, `MarksHold`, `BatchesAreAtomic`.
The calculations follow from `TypeOK` and `TablesAreFinite`, which is inductive
beside it.  `BalanceIsNet` is the key: the balances by account add up to what the
accounts began with and the net of all rows, so one more row moves the total by
its amount (`OneMoreTransaction`) and a due that is settled leaves the projection by
its amount (`SettledDueLeaves`).  `NextDueDay` says that `FixedExpenseDueDate` is the
first due day after today, from the order of the months (`MonthsAreDisjoint`).  From
them: `CashFlowAlwaysAddsUp`, `ProjectionsAlwaysComeTrue`, `DueDatesAreAlwaysSeen`.

`StdioTransportProofs`.  The inductive invariant is `Promises`, `Pipes` and
`Lifecycle`: an id is unused until the generator has passed it, the promises
that wait are those of the pending map, answers on stdout are to requests that
were handled, and a client that does not run has nothing pending.  Two lemmas
say what rejecting and resolving do to the promises and to the abstract state;
every action's lemma then shows both that the invariant is kept and that the
step is one of `RequestResponse`.  From it: `TypesKept`, `NobodyStranded`,
`NoOrphanLeft`, `LogsAgree`, `KeepsRequests`.  `NoStrandedRequest` needs the rest:
that a close in progress excludes `running` is what keeps the `close` event from
closing a client that still waits.
`NobodyWaitsForNothing` adds `OInv`: a running client's process is there as far as
the Host has seen (`ChildFollows`), what is pending moves from one pipe to the next
and is not lost while the process lives (`Undelivered`), and both ways in which the
Host gives its process up send the SIGTERM (`TermSent`).

`HttpSessionProofs`.  The inductive invariant adds to `TypeOK` how phase, outcome
and wire of an exchange fit together (`Exchanged`), how far both ends are with the
handshake given what is on the wire (`Handshake`), what a close has done so far
(`Closing`), what the server may have received and executed (`Served`), and that
an answer on the wire is to an executed call (`Answered`).  From it:
`SessionTypesCorrect`, `HandshakesAgree`, `SessionsAreRemoved`, and `HttpKeepsCalls`,
the refinement of `RequestResponse`.
`NobodyWaitsForNothing` adds `Owed`: a handshake in progress has its exchange under
way (`HandshakeWaits`), and a call that waits for a `close()` waits for one that is
not over (`DropsWait`), because whoever ends the close settles all such calls.

Only model-checked: the liveness properties (`SessionsAreReleased`, `AwaitsEnd`,
`OnlyABodyHangs`, `LoadsEnd`), which need fairness, and `CallsCanEnd`, which speaks of
ENABLED, are out of the prover's reach.  What they rest on is proved: for the chat,
the inventory and STDIO that whoever waits is owed something, for HTTP that it has
an exchange under way, for the
chat, the inventory and the panels that a bounded number of steps is left.  What
remains to TLC is that an owed step is enabled and, by fairness, taken, and, for
the transports, that there are finitely many of them.  Every other
property of a passing run is a theorem.

## 6. What the violated runs show

1. `chat_forgets`: after an executed write, an explanation without text or with
   tool calls throws outside the `try` (`chat-orchestrator.ts:454`); the session
   then remembers neither the write nor its result.
2. `chat_rejected`: `record_income`, `update_transaction` and the like persist
   the row and then read the balance; if that read fails the answer is an error
   and the Host says that the change was not completed
   (`transaction-service.ts:87`, `chat-orchestrator.ts:434`).  For sales and
   batches the report is right, and proved so (`ReportsAreHonest`).
3. `stock_negative`: a movement checks the stock it read and then increments the
   row (`inventory-repository.ts:127`), so that two concurrent exits of the last
   unit are both recorded, against `docs/finance-mcp-tools.md:1347`.
4. `stdio_close_hangs`: after a protocol error the client kills its server, which
   ends by a signal and leaves `exitCode` null; a `close()` called once the
   `close` event is past subscribes to it again and waits for ever
   (`stdio-jsonrpc-client.ts:268`, `450`).  `AwaitsEnd` shows that this is the
   only way: a close that starts before that event always returns.

Without a run of their own.  `docs/finance-mcp-tools.md:1775` says of the remote mode
that "It uses a 60-second timeout".  The timer is cleared when the headers arrive
(`streamable-http-jsonrpc-client.ts:204`), and `response.text()` (`121`) is awaited
without one: a call whose body stalls is not ended by the client, nor by its
`close()`, which aborts no call.  The runtime's `fetch` may give a silent body up
after minutes of its own, but the code sets no bound, and a body that trickles is
never given up.  `HttpSession` has that behaviour: under its `FairSpec` a call may stay
in `body` for ever, and TLC refutes
`phase[c] = "headers" ~> phase[c] = "settled"` with one call and no malformed answer:
the headers arrive, and nothing more.  `OnlyABodyHangs` shows that this is all there is: everything up to
a body ends by the timer, and nobody else, `close()` included, waits for the body of
another.

A successful quote that is still in the history stops
being usable after a failed newer quote or after any other write
(`chat-orchestrator.ts:265`), while `README.md:36` says that it remains usable.
`ChatSession` models what the code does (`QuoteStep`), and `SaleMatchesItsQuote`
holds of it.

There is no property against a call without result: a write whose
outcome is unknown puts one into the history (`chat-orchestrator.ts:415`-`421`), and
`HistoryIsWholeTurns` forbids only the converse, a result without its call.

## 7. Not modelled, and the plan

Not modelled:

- the arithmetic of a sale quote, argument schemas, the shape checks of JSON-RPC
  and MCP messages: pure functions of one input, which unit tests reach;
- markdown, formatting, focus, sanitising and sorting of logs: presentation;
- the database schema, the seed, setup and verification scripts, demo and capture
  tooling: run by hand, without concurrency;
- a child that ignores SIGTERM, and an `error` event of its stdin, to which the
  client does not listen (a failing write is modelled: its callback rejects that one
  request, `stdio-jsonrpc-client.ts:192`, and leaves the transport as it is);
- a second tab that is given the session id of the first one.

What could follow:

1. a runtime whose server died: the registry still offers its tools, each call
   fails, and nothing starts it again;
2. the reads of one projection as separate statements, between which a payment is
   recorded and a debt is settled;
3. a bound on the steps a transport has left, across its pipes and its server.
