----------------------------- MODULE Workspace -----------------------------
(***************************************************************************)
(* The browser's workspace with its two reading panels, the financial      *)
(* dashboard and the MCP logs, and the Host services behind them: the      *)
(* dashboard's parallel reads through the tool registry and the store of   *)
(* MCP interactions, which those reads and everybody else append to.       *)
(*                                                                         *)
(* The business is a version that writes move on; a section of the         *)
(* dashboard carries the version its read saw.  Requests logged when they  *)
(* are sent are never errors; only answers are entries here.               *)
(***************************************************************************)
EXTENDS Naturals, Sequences

CONSTANTS
  Sections,     \* the reads the dashboard is made of
  MaxVersion,   \* bound: the business is written to MaxVersion - 1 times
  MaxSessions,  \* bound: chat sessions
  MaxLog        \* bound: the log keeps its first MaxLog entries

ASSUME SectionsAssumption == Sections # {}
ASSUME BoundsAssumption == MaxVersion \in Nat \ {0} /\ MaxSessions \in Nat /\ MaxLog \in Nat

NoSession == 0
Sessions == 1 .. MaxSessions
Versions == 1 .. MaxVersion

VARIABLES
  version,      \* of the business behind Finance MCP
  log,          \* the interaction log store
  dashboard,    \* state of the dashboard component
  get,          \* its request, and what the Host has made of it
  tab,          \* the active tab
  chat,         \* [session, last]: the workspace's chatSessionId, and the newest it had
  timer,        \* the logs panel has a load scheduled
  panel,        \* state of the logs panel
  post,         \* its request; at "none" is inFlight = false
  known,        \* knownEntries: what the last answer contained
  expanded,     \* expandedPayloads
  toggled,      \* history: entries whose payload the user opened or closed, an odd number of times
  dropped       \* history: the last call of the panel's load was dropped

vars == <<version, log, dashboard, get, tab, chat, timer, panel, post,
          known, expanded, toggled, dropped>>
hostVars == <<version, log>>
dashboardVars == <<dashboard, get>>
panelVars == <<timer, panel, post, known, expanded, toggled, dropped>>

-----------------------------------------------------------------------------
(* The dashboard service.                                                  *)

SectionCodes == {"none", "pending", "ready", "TOOL_FAILED", "INVALID_TOOL_RESPONSE"}
SectionValues == [code : SectionCodes, version : 0 .. MaxVersion]
Section(code) == [code |-> code, version |-> 0]
Nothing == [s \in Sections |-> Section("none")]

\* What a tools/call brings: a result that may be an error, may lack the
\* currency, dates or amounts of its kind, and may list malformed items.
ToolResults == [isError : BOOLEAN, complete : BOOLEAN, items : SUBSET {"valid", "malformed"}]

\* Broken variant: what can be read of a result is shown.
ParsedLoosely(result) == ~result.isError /\ result.complete

Parsed(result) == ~result.isError /\ result.complete /\ "malformed" \notin result.items

Failed(sections) == \A s \in Sections : sections[s].code \notin {"pending", "ready"}

Outcome(sections) ==
  IF Failed(sections) THEN "DASHBOARD_FAILED"
  ELSE IF \E s \in Sections : sections[s].code # "ready" THEN "partial" ELSE "ready"

Entry(context, session, error) == [context |-> context, session |-> session, error |-> error]
Entries == [context : {"HOST", "WEB_DASHBOARD", "CHAT"}, session : 0 .. MaxSessions, error : BOOLEAN]
Logged(entry) == IF Len(log) < MaxLog THEN Append(log, entry) ELSE log

StartReads ==
  /\ get.at = "network"
  /\ get' = [get EXCEPT !.at = "reading", !.sections = [s \in Sections |-> Section("pending")]]
  /\ UNCHANGED <<hostVars, dashboard, tab, chat, panelVars>>

HostUnavailable ==
  /\ get.at = "network"
  /\ get' = [get EXCEPT !.at = "answered", !.answer = "HOST_UNAVAILABLE"]
  /\ UNCHANGED <<hostVars, dashboard, tab, chat, panelVars>>

ReadSucceeds(s) ==
  /\ get.at = "reading" /\ get.sections[s].code = "pending"
  /\ \E result \in ToolResults :
       get' = [get EXCEPT !.sections[s] =
                 IF Parsed(result) THEN [code |-> "ready", version |-> version]
                 ELSE Section("INVALID_TOOL_RESPONSE"),
               !.malformed = @ \cup {x \in {s} : Parsed(result) /\ "malformed" \in result.items}]
  /\ log' = Logged(Entry("WEB_DASHBOARD", NoSession, FALSE))
  /\ UNCHANGED <<version, dashboard, tab, chat, panelVars>>

\* Broken variant: one rejected read rejects them all.
ReadFailsForAll(s) ==
  /\ get.at = "reading" /\ get.sections[s].code = "pending"
  /\ get' = [get EXCEPT !.sections[s] = Section("TOOL_FAILED"),
                        !.at = "answered", !.answer = "DASHBOARD_FAILED"]
  /\ UNCHANGED <<hostVars, dashboard, tab, chat, panelVars>>

\* The tool is not there, or the client refuses the call; or the call fails
\* on its way, which is logged.
ReadFails(s) ==
  /\ get.at = "reading" /\ get.sections[s].code = "pending"
  /\ get' = [get EXCEPT !.sections[s] = Section("TOOL_FAILED")]
  /\ log' \in {log, Logged(Entry("WEB_DASHBOARD", NoSession, TRUE))}
  /\ UNCHANGED <<version, dashboard, tab, chat, panelVars>>

AnswerDashboard ==
  /\ get.at = "reading"
  /\ \A s \in Sections : get.sections[s].code # "pending"
  /\ get' = [get EXCEPT !.at = "answered", !.answer = Outcome(get.sections)]
  /\ UNCHANGED <<hostVars, dashboard, tab, chat, panelVars>>

-----------------------------------------------------------------------------
(* The dashboard component.                                                *)

Request(since) ==
  [at |-> "network", since |-> since, sections |-> Nothing, answer |-> "none", malformed |-> {}]

\* What the start and the failure of a load make of a panel's state: what it
\* shows, if anything, stays.
Loading(state, empty) == [state EXCEPT !.kind = IF state.data = empty THEN "loading" ELSE "refreshing"]

\* Broken variant: the failure takes what is shown.
UnloadedBlank(state, empty) == [kind |-> "failed", data |-> empty]

Unloaded(state, empty) == [state EXCEPT !.kind = IF state.data = empty THEN "failed" ELSE "stale"]

\* The button of the dashboard, or of the notice that replaces it.
RefreshDashboard ==
  /\ tab = "dashboard"
  /\ dashboard.kind \in {"ready", "stale", "failed"}
  /\ dashboard' = Loading(dashboard, Nothing)
  /\ get' = Request(version)
  /\ UNCHANGED <<hostVars, tab, chat, panelVars>>

ShowDashboard ==
  /\ get.at = "answered" /\ get.answer \in {"ready", "partial"}
  /\ dashboard' = [kind |-> "ready", data |-> get.sections]
  /\ get' = [get EXCEPT !.at = "none"]
  /\ UNCHANGED <<hostVars, tab, chat, panelVars>>

\* An error of the API, or the fetch fails: on its way, or while the Host
\* reads, or with the answer.
DashboardFails ==
  /\ get.at # "none"
  /\ dashboard' = Unloaded(dashboard, Nothing)
  /\ get' = [Request(get.since) EXCEPT !.at = "none"]
  /\ UNCHANGED <<hostVars, tab, chat, panelVars>>

-----------------------------------------------------------------------------
(* The rest of the Host, and the chat tab.                                 *)

Write ==
  /\ version < MaxVersion
  /\ version' = version + 1
  /\ UNCHANGED <<log, dashboardVars, tab, chat, panelVars>>

\* Lifecycle and discovery, the tools of a chat turn (the first of a session
\* run before the browser has its id), and the reads of a dashboard that
\* nobody waits for any more.
Interact ==
  /\ \E context \in {"HOST", "WEB_DASHBOARD", "CHAT"}, session \in 0 .. MaxSessions, error \in BOOLEAN :
       /\ context = "CHAT" <=> session # NoSession
       /\ session <= chat.last + 1
       /\ log' = Logged(Entry(context, session, error))
  /\ UNCHANGED <<version, dashboardVars, tab, chat, panelVars>>

\* Broken variant: the effect does not depend on the conversation.
ChatSessionUnnoticed ==
  /\ \/ /\ chat.session = NoSession /\ chat.last < MaxSessions
        /\ chat' = [session |-> chat.last + 1, last |-> chat.last + 1]
     \/ /\ chat.session # NoSession
        /\ chat' = [chat EXCEPT !.session = NoSession]
  /\ UNCHANGED <<hostVars, dashboardVars, tab, panelVars>>

\* The chat tab gets a session with an answer, and loses it to
\* SESSION_NOT_FOUND.  A mounted logs panel gets another load function: its
\* effect runs again.
ChatSessionChanges ==
  /\ \/ /\ chat.session = NoSession /\ chat.last < MaxSessions
        /\ chat' = [session |-> chat.last + 1, last |-> chat.last + 1]
     \/ /\ chat.session # NoSession
        /\ chat' = [chat EXCEPT !.session = NoSession]
  /\ timer' = (tab = "logs")
  /\ UNCHANGED <<hostVars, dashboardVars, tab, panel, post, known, expanded, toggled, dropped>>

\* Selecting the logs mounts the panel for good, and schedules a load; leaving
\* them clears what is scheduled.
Select(t) ==
  /\ t # tab
  /\ tab' = t
  /\ timer' = (t = "logs")
  /\ UNCHANGED <<hostVars, dashboardVars, chat, panel, post, known, expanded, toggled, dropped>>

-----------------------------------------------------------------------------
(* The logs service and the logs panel.                                    *)

NoLogs == [loaded |-> FALSE, session |-> NoSession, upTo |-> 0]
Logs == [loaded : BOOLEAN, session : 0 .. MaxSessions, upTo : 0 .. MaxLog]

\* The entries of an answer, as their positions in the store: the groups of
\* the lifecycle, the dashboard and, if a session was asked for, the chat.
\* The store only grows, so that a position in a group, which the key of an
\* entry contains, stays that entry's.
Listed(data) ==
  {k \in 1 .. data.upTo : log[k].context # "CHAT" \/
                          (data.session # NoSession /\ log[k].session = data.session)}

IsError(k) == log[k].error

Unposted == [at |-> "none", data |-> NoLogs]

StartLoad ==
  /\ post' = [at |-> "network", data |-> [loaded |-> TRUE, session |-> chat.session, upTo |-> 0]]
  /\ panel' = Loading(panel, NoLogs)
  /\ dropped' = FALSE

\* Broken variant: a load in flight is started again.
LoadAgain == StartLoad

\* load(): a load in flight makes it return at once.
Load ==
  IF post.at = "none"
  THEN StartLoad
  ELSE dropped' = TRUE /\ UNCHANGED <<post, panel>>

TimerFires ==
  /\ timer
  /\ timer' = FALSE
  /\ Load
  /\ UNCHANGED <<hostVars, dashboardVars, tab, chat, known, expanded, toggled>>

RefreshLogs ==
  /\ tab = "logs"
  /\ panel.kind \in {"ready", "stale", "failed"}
  /\ Load
  /\ UNCHANGED <<hostVars, dashboardVars, tab, chat, timer, known, expanded, toggled>>

ListLogs ==
  /\ post.at = "network"
  /\ post' = [at |-> "answered", data |-> [post.data EXCEPT !.upTo = Len(log)]]
  /\ UNCHANGED <<hostVars, dashboardVars, tab, chat, timer, panel, known, expanded, toggled, dropped>>

\* Broken variant: every error of an answer is opened, the known ones too.
ReopenErrors(data) ==
  (expanded \cap Listed(data)) \cup {k \in Listed(data) : IsError(k)}

\* reconcileExpandedPayloads: what is gone is forgotten, new errors are opened.
Reconciled(data) ==
  (expanded \cap Listed(data)) \cup {k \in Listed(data) : IsError(k) /\ k \notin known}

ShowLogs ==
  /\ post.at = "answered"
  /\ expanded' = Reconciled(post.data)
  /\ known' = Listed(post.data)
  /\ panel' = [kind |-> "ready", data |-> post.data]
  /\ post' = Unposted
  /\ UNCHANGED <<hostVars, dashboardVars, tab, chat, timer, toggled, dropped>>

\* Broken variant: the failure is not rendered.
LogsFailSilently ==
  /\ post.at # "none"
  /\ post' = Unposted
  /\ UNCHANGED <<hostVars, dashboardVars, tab, chat, timer, panel, known, expanded, toggled, dropped>>

\* No runtime, an error of the API, or the fetch fails.
LogsFail ==
  /\ post.at # "none"
  /\ panel' = Unloaded(panel, NoLogs)
  /\ post' = Unposted
  /\ UNCHANGED <<hostVars, dashboardVars, tab, chat, timer, known, expanded, toggled, dropped>>

\* The payload button of a row.
Toggle(k) ==
  /\ tab = "logs" /\ panel.data.loaded
  /\ k \in Listed(panel.data)
  /\ expanded' = IF k \in expanded THEN expanded \ {k} ELSE expanded \cup {k}
  /\ toggled' = IF k \in toggled THEN toggled \ {k} ELSE toggled \cup {k}
  /\ UNCHANGED <<hostVars, dashboardVars, tab, chat, timer, panel, post, known, dropped>>

-----------------------------------------------------------------------------

\* The workspace is mounted: the dashboard's effect has sent its request.
Init ==
  /\ version = 1
  /\ log = <<>>
  /\ dashboard = [kind |-> "loading", data |-> Nothing]
  /\ get = Request(version)
  /\ tab = "dashboard"
  /\ chat = [session |-> NoSession, last |-> NoSession]
  /\ timer = FALSE
  /\ panel = [kind |-> "idle", data |-> NoLogs]
  /\ post = Unposted
  /\ known = {} /\ expanded = {}
  /\ toggled = {} /\ dropped = FALSE

DashboardSteps ==
  \/ StartReads \/ HostUnavailable \/ AnswerDashboard \/ ShowDashboard \/ DashboardFails
  \/ \E s \in Sections : ReadSucceeds(s) \/ ReadFails(s)
LogsSteps == ListLogs \/ ShowLogs \/ LogsFail

Next ==
  \/ DashboardSteps \/ LogsSteps \/ TimerFires
  \/ RefreshDashboard \/ RefreshLogs \/ Write \/ Interact \/ ChatSessionChanges
  \/ \E t \in {"dashboard", "chat", "logs"} : Select(t)
  \/ \E k \in 1 .. MaxLog : Toggle(k)

Spec == Init /\ [][Next]_vars

\* Every read ends (the transports time out), the API answers, and a fetch is
\* settled; Node and the browser run what is due.
Fairness == WF_vars(DashboardSteps) /\ WF_vars(LogsSteps) /\ WF_vars(TimerFires)

FairSpec == Spec /\ Fairness

-----------------------------------------------------------------------------
(* Properties                                                              *)

Kinds == {"loading", "ready", "refreshing", "stale", "failed"}

\* The types of the state; what is shown, and what is in flight, fit the kind
\* of state either panel is in.
TypeOK ==
  /\ version \in Versions
  /\ log \in Seq(Entries) /\ Len(log) <= MaxLog
  /\ dashboard \in [kind : Kinds, data : [Sections -> SectionValues]]
  /\ get \in [at : {"none", "network", "reading", "answered"}, since : Versions,
              sections : [Sections -> SectionValues], malformed : SUBSET Sections,
              answer : {"none", "ready", "partial", "DASHBOARD_FAILED", "HOST_UNAVAILABLE"}]
  /\ tab \in {"dashboard", "chat", "logs"}
  /\ chat \in [session : 0 .. MaxSessions, last : 0 .. MaxSessions]
  /\ timer \in BOOLEAN /\ (timer => tab = "logs")
  /\ panel \in [kind : Kinds \cup {"idle"}, data : Logs]
  /\ post \in [at : {"none", "network", "answered"}, data : Logs]
  /\ known \subseteq 1 .. Len(log) /\ expanded \subseteq known
  /\ dashboard.kind \in {"loading", "refreshing"} <=> get.at # "none"
  /\ panel.kind \in {"loading", "refreshing"} <=> post.at # "none"
  /\ dashboard.data = Nothing <=> dashboard.kind \in {"loading", "failed"}
  /\ panel.data.loaded <=> panel.kind \in {"ready", "refreshing", "stale"}

\* A loaded dashboard holds no section that is older than the click that asked
\* for it, and none made of a result with a malformed item, although the reads
\* run side by side with writes, other reads and failures of the load before
\* (getDashboard and its parsers, the component's load).
SectionsAreCurrent ==
  dashboard.kind = "ready" =>
    \A s \in Sections :
      dashboard.data[s].code = "ready" =>
        dashboard.data[s].version >= get.since /\ s \notin get.malformed

\* A section that was read reaches the browser whatever becomes of the others:
\* "one unavailable section does not delay the remaining dashboard data"
\* (financial-dashboard.ts), and an answer is "ready" only if all were.
SectionsFailAlone ==
  get.at = "answered" /\ (\E s \in Sections : get.sections[s].code = "ready") =>
    /\ get.answer \in {"ready", "partial"}
    /\ get.answer = "ready" <=> \A s \in Sections : get.sections[s].code = "ready"

\* What is shown as read was read: now, whole, and whatever else failed.
DashboardIsHonest == SectionsAreCurrent /\ SectionsFailAlone

\* Of the entries on the screen exactly the errors are open, but for what the
\* user opened or closed: an error is opened once, when it is first seen, and
\* stays closed after any number of refreshes, failed loads and changes of the
\* conversation (reconcileExpandedPayloads, knownEntries).
ErrorsOpenOnce ==
  panel.data.loaded =>
    \A k \in Listed(panel.data) : k \in expanded <=> (IsError(k) <=> k \notin toggled)

\* When the logs are on the screen, up to date as far as they say, and nothing
\* is scheduled, they are of the current conversation; unless the last load
\* was dropped because one for the conversation before was in flight (load's
\* inFlight, the effect).
PanelFollowsTheChat ==
  tab = "logs" /\ ~timer /\ ~dropped /\ panel.kind = "ready" =>
    panel.data.session = chat.session

\* No step takes away what a panel shows, and only a complete load replaces
\* it: not its failure, not a change of tab or conversation.
DataIsKept ==
  [][/\ dashboard.data # Nothing /\ dashboard'.data # dashboard.data => dashboard'.kind = "ready"
     /\ panel.data.loaded /\ panel'.data # panel.data => panel'.kind = "ready"]_vars

\* A load gets nearer to its end with every step it takes, and nothing starts
\* it again on the way: not a timer, not a button, not a change of conversation
\* (load's inFlight, mcp-logs-panel.tsx:166; the dashboard's disabled button).
StagesLeft(load) ==
  CASE load.at = "network" -> 3 [] load.at = "reading" -> 2 [] load.at = "answered" -> 1 [] OTHER -> 0

PendingReads(load) == {s \in Sections : load.sections[s].code = "pending"}

LoadsRunOut ==
  [][/\ get.at # "none" /\ get' # get =>
          \/ StagesLeft(get') < StagesLeft(get)
          \/ /\ StagesLeft(get') = StagesLeft(get)
             /\ PendingReads(get') \subseteq PendingReads(get)
             /\ PendingReads(get') # PendingReads(get)
     /\ post.at # "none" /\ post' # post => StagesLeft(post') < StagesLeft(post)]_vars

\* What either panel waits for comes to an end, whatever fails, so that its
\* button works again.
LoadsEnd ==
  /\ dashboard.kind \in {"loading", "refreshing"} ~> dashboard.kind \in {"ready", "stale", "failed"}
  /\ panel.kind \in {"loading", "refreshing"} ~> panel.kind \in {"ready", "stale", "failed"}
  /\ timer ~> ~timer
=============================================================================
