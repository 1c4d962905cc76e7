-------------------------- MODULE WorkspaceProofs ---------------------------
(***************************************************************************)
(* Theorems about Workspace for any number of sections, writes, chat       *)
(* sessions and log entries.  The state falls in three parts that meet     *)
(* little: what the Host keeps, the dashboard with its request, and the    *)
(* logs panel with its.                                                    *)
(***************************************************************************)
EXTENDS Workspace, TLAPS

HostOK ==
  /\ version \in Versions
  /\ log \in Seq(Entries) /\ Len(log) <= MaxLog
  /\ \A k \in 1 .. Len(log) : log[k].context = "CHAT" => log[k].session # NoSession

(* The request in flight saw no version older than its click, read nothing *)
(* malformed as something, and once answered says what became of its       *)
(* reads.                                                                  *)
GetOK ==
  /\ get \in [at : {"none", "network", "reading", "answered"}, since : Versions,
              sections : [Sections -> SectionValues], malformed : SUBSET Sections,
              answer : {"none", "ready", "partial", "DASHBOARD_FAILED", "HOST_UNAVAILABLE"}]
  /\ get.since <= version
  /\ get.malformed = {}
  /\ get.at = "network" => get.sections = Nothing
  /\ \A s \in Sections : get.sections[s].code = "ready" => get.sections[s].version >= get.since
  /\ get.at = "answered" =>
       /\ get.answer \in {"ready", "partial"} <=> \E s \in Sections : get.sections[s].code = "ready"
       /\ get.answer = "ready" <=> \A s \in Sections : get.sections[s].code = "ready"

DashboardOK ==
  /\ dashboard \in [kind : Kinds, data : [Sections -> SectionValues]]
  /\ dashboard.kind \in {"loading", "refreshing"} <=> get.at # "none"
  /\ dashboard.data = Nothing <=> dashboard.kind \in {"loading", "failed"}
  /\ dashboard.kind = "ready" =>
       \A s \in Sections :
         dashboard.data[s].code = "ready" => dashboard.data[s].version >= get.since

PanelTyped ==
  /\ tab \in {"dashboard", "chat", "logs"}
  /\ chat \in [session : 0 .. MaxSessions, last : 0 .. MaxSessions]
  /\ timer \in BOOLEAN /\ (timer => tab = "logs")
  /\ panel \in [kind : Kinds \cup {"idle"}, data : Logs]
  /\ post \in [at : {"none", "network", "answered"}, data : Logs]
  /\ known \subseteq 1 .. Len(log) /\ expanded \subseteq known
  /\ panel.kind \in {"loading", "refreshing"} <=> post.at # "none"
  /\ panel.data.loaded <=> panel.kind \in {"ready", "refreshing", "stale"}
  /\ panel.data.loaded \/ panel.data = NoLogs

(* Sessions are numbered in the order the browser had them, and the        *)
(* answers of the store grow.                                              *)
InOrder ==
  /\ chat.session <= chat.last /\ panel.data.session <= chat.last /\ post.data.session <= chat.last
  /\ panel.data.upTo <= Len(log) /\ post.data.upTo <= Len(log)
  /\ post.at # "none" => post.data.loaded
  /\ post.at = "answered" => panel.data.upTo <= post.data.upTo

(* A conversation the panel has left does not come back to it.             *)
Left(x) == x <= chat.last /\ x # chat.session /\ (post.at # "none" => x # post.data.session)

Opened ==
  /\ known = IF panel.data.loaded THEN Listed(panel.data) ELSE {}
  /\ \A k \in toggled :
       /\ panel.data.loaded /\ k \in 1 .. panel.data.upTo
       /\ log[k].context = "CHAT" => log[k].session = panel.data.session \/ Left(log[k].session)
  /\ /\ panel.data.loaded /\ panel.data.session # NoSession
     /\ post.at # "none" /\ post.data.session # panel.data.session
     => panel.data.session # chat.session

(* Whatever the panel waits for, if nothing is scheduled and the last load *)
(* was not dropped, is of the current conversation.                        *)
Following ==
  tab = "logs" /\ ~timer /\ ~dropped =>
    /\ post.at # "none" => post.data.session = chat.session
    /\ panel.kind = "ready" => panel.data.session = chat.session

PanelOK == PanelTyped /\ InOrder /\ Opened /\ ErrorsOpenOnce /\ Following

IInv == HostOK /\ GetOK /\ DashboardOK /\ PanelOK

LEMMA InitEstablishes == Init => IInv
<1>1. SUFFICES ASSUME Init
               PROVE  IInv
  OBVIOUS
<1>2. Nothing \in [Sections -> SectionValues] /\ (\A s \in Sections : Nothing[s].code = "none")
  BY BoundsAssumption DEF Nothing, Section, SectionValues, SectionCodes
<1>3. HostOK
  BY <1>1, BoundsAssumption DEF Init, HostOK, Versions
<1>4. GetOK
  BY <1>1, <1>2, SectionsAssumption, BoundsAssumption DEF Init, GetOK, Request, Versions
<1>5. DashboardOK
  BY <1>1, <1>2 DEF Init, DashboardOK, Request, Kinds
<1>6. PanelOK
  <2>1. NoLogs \in Logs
    BY BoundsAssumption DEF NoLogs, Logs, NoSession
  <2>2. PanelTyped
    <3>1. /\ panel \in [kind : Kinds \cup {"idle"}, data : Logs]
          /\ post \in [at : {"none", "network", "answered"}, data : Logs]
      BY <1>1, <2>1 DEF Init, Unposted
    <3>2. chat \in [session : 0 .. MaxSessions, last : 0 .. MaxSessions]
      BY <1>1, BoundsAssumption DEF Init, NoSession
    <3>3. known \subseteq 1 .. Len(log) /\ expanded \subseteq known
      BY <1>1 DEF Init
    <3>4. QED
      BY <1>1, <3>1, <3>2, <3>3 DEF Init, PanelTyped, Unposted, NoLogs
  <2>3. InOrder /\ Opened /\ ErrorsOpenOnce /\ Following
    BY <1>1 DEF Init, InOrder, Opened, ErrorsOpenOnce, Following, Unposted, NoLogs, NoSession
  <2>4. QED
    BY <2>2, <2>3 DEF PanelOK
<1>7. QED
  BY <1>3, <1>4, <1>5, <1>6 DEF IInv

-----------------------------------------------------------------------------
(* The Host: the log grows, and the panel does not notice before it asks.  *)

LEMMA LogGrows ==
  ASSUME HostOK, NEW e \in Entries, e.context = "CHAT" => e.session # NoSession,
         log' \in {log, Logged(e)}
  PROVE  /\ log' \in Seq(Entries) /\ Len(log') <= MaxLog /\ Len(log) <= Len(log')
         /\ \A k \in 1 .. Len(log) : log'[k] = log[k]
         /\ \A k \in 1 .. Len(log') : log'[k].context = "CHAT" => log'[k].session # NoSession
<1>1. CASE log' = log
  BY <1>1 DEF HostOK
<1>2. CASE log' = Append(log, e) /\ Len(log) < MaxLog
  BY <1>2, BoundsAssumption DEF HostOK
<1>3. QED
  BY <1>1, <1>2 DEF Logged

LEMMA PanelKept ==
  ASSUME HostOK, PanelOK, UNCHANGED <<tab, chat, panelVars>>,
         Len(log') \in Nat, Len(log) <= Len(log'), \A k \in 1 .. Len(log) : log'[k] = log[k]
  PROVE  PanelOK'
<1> USE DEF panelVars
<1>0. Len(log) \in Nat
  BY DEF HostOK
<1>1. PanelTyped'
  BY <1>0 DEF PanelOK, PanelTyped
<1>2. InOrder'
  BY <1>0 DEF PanelOK, PanelTyped, InOrder, Logs
<1>3. panel.data.upTo \in Nat /\ panel.data.upTo <= Len(log)
  BY DEF PanelOK, PanelTyped, InOrder, Logs
<1>4. \A k \in 1 .. panel.data.upTo : k \in 1 .. Len(log)
  BY <1>0, <1>3
<1>5. Listed(panel.data)' = Listed(panel.data)
  BY <1>4 DEF Listed
<1>6. \A k \in Listed(panel.data) : IsError(k)' = IsError(k)
  BY <1>4 DEF Listed, IsError
<1>7. Opened'
  BY <1>4, <1>5 DEF PanelOK, Opened, Left
<1>8. ErrorsOpenOnce'
  BY <1>5, <1>6 DEF PanelOK, ErrorsOpenOnce
<1>9. QED
  BY <1>1, <1>2, <1>7, <1>8 DEF PanelOK, Following

LEMMA WriteKept ==
  ASSUME IInv, Write
  PROVE  IInv'
<1>1. HostOK'
  BY BoundsAssumption DEF IInv, HostOK, Write, Versions
<1>2. GetOK'
  BY DEF IInv, HostOK, GetOK, Write, dashboardVars, Versions
<1>3. DashboardOK'
  BY DEF IInv, DashboardOK, Write, dashboardVars
<1>4. PanelOK'
  BY PanelKept DEF IInv, Write, HostOK
<1>5. QED
  BY <1>1, <1>2, <1>3, <1>4 DEF IInv

LEMMA InteractKept ==
  ASSUME IInv, Interact
  PROVE  IInv'
<1>1. PICK context \in {"HOST", "WEB_DASHBOARD", "CHAT"}, session \in 0 .. MaxSessions,
           error \in BOOLEAN :
         /\ context = "CHAT" <=> session # NoSession
         /\ log' = Logged(Entry(context, session, error))
  BY DEF Interact
<1> DEFINE e == Entry(context, session, error)
<1>2. e \in Entries /\ (e.context = "CHAT" => e.session # NoSession)
  BY <1>1 DEF Entry, Entries
<1>3. /\ log' \in Seq(Entries) /\ Len(log') <= MaxLog /\ Len(log) <= Len(log')
      /\ \A k \in 1 .. Len(log) : log'[k] = log[k]
      /\ \A k \in 1 .. Len(log') : log'[k].context = "CHAT" => log'[k].session # NoSession
  BY <1>1, <1>2, LogGrows DEF IInv
<1>4. HostOK'
  BY <1>3 DEF IInv, HostOK, Interact
<1>5. GetOK' /\ DashboardOK'
  BY DEF IInv, GetOK, DashboardOK, Interact, dashboardVars
<1>6. PanelOK'
  BY <1>3, PanelKept DEF IInv, Interact
<1>7. QED
  BY <1>4, <1>5, <1>6 DEF IInv

-----------------------------------------------------------------------------
(* The dashboard.                                                          *)

(* A section is ready or is not; the answer says which.                    *)
LEMMA AnswersTell ==
  ASSUME NEW sections, \A s \in Sections : sections[s].code # "pending"
  PROVE  /\ Outcome(sections) \in {"ready", "partial"} <=>
              \E s \in Sections : sections[s].code = "ready"
         /\ Outcome(sections) = "ready" <=> \A s \in Sections : sections[s].code = "ready"
         /\ Outcome(sections) \in {"ready", "partial", "DASHBOARD_FAILED"}
BY SectionsAssumption DEF Outcome, Failed

LEMMA SectionTypes ==
  /\ \A code \in SectionCodes : Section(code) \in SectionValues
  /\ \A code : Section(code).code = code
  /\ Nothing \in [Sections -> SectionValues]
  /\ \A s \in Sections : Nothing[s].code = "none"
BY BoundsAssumption DEF Section, Nothing, SectionValues, SectionCodes

LEMMA StartReadsKept ==
  ASSUME IInv, StartReads
  PROVE  IInv'
<1> USE DEF StartReads, hostVars
<1> DEFINE pending == [s \in Sections |-> Section("pending")]
<1>1. pending \in [Sections -> SectionValues] /\ \A s \in Sections : pending[s].code = "pending"
  BY SectionTypes DEF SectionCodes
<1>2. GetOK'
  BY <1>1 DEF IInv, GetOK
<1>3. DashboardOK'
  BY DEF IInv, GetOK, DashboardOK
<1>4. HostOK' /\ PanelOK'
  BY PanelKept DEF IInv, HostOK
<1>5. QED
  BY <1>2, <1>3, <1>4 DEF IInv

LEMMA HostUnavailableKept ==
  ASSUME IInv, HostUnavailable
  PROVE  IInv'
<1> USE DEF HostUnavailable, hostVars
<1>1. GetOK'
  BY SectionTypes, SectionsAssumption DEF IInv, GetOK
<1>2. DashboardOK'
  BY DEF IInv, GetOK, DashboardOK
<1>3. HostOK' /\ PanelOK'
  BY PanelKept DEF IInv, HostOK
<1>4. QED
  BY <1>1, <1>2, <1>3 DEF IInv

(* A read replaces its own section, with the version it saw or a failure.  *)
LEMMA ReadKept ==
  ASSUME IInv, NEW s \in Sections, NEW value \in SectionValues,
         value.code = "ready" => value.version >= get.since,
         get.at = "reading",
         get' = [get EXCEPT !.sections[s] = value],
         NEW e \in Entries, e.context = "WEB_DASHBOARD", log' \in {log, Logged(e)},
         UNCHANGED <<version, dashboard, tab, chat, panelVars>>
  PROVE  IInv'
<1>1. /\ log' \in Seq(Entries) /\ Len(log') <= MaxLog /\ Len(log) <= Len(log')
      /\ \A k \in 1 .. Len(log) : log'[k] = log[k]
      /\ \A k \in 1 .. Len(log') : log'[k].context = "CHAT" => log'[k].session # NoSession
  BY LogGrows DEF IInv
<1>2. HostOK'
  BY <1>1 DEF IInv, HostOK
<1>3. GetOK'
  BY DEF IInv, GetOK
<1>4. DashboardOK'
  BY DEF IInv, GetOK, DashboardOK
<1>5. PanelOK'
  BY <1>1, PanelKept DEF IInv
<1>6. QED
  BY <1>2, <1>3, <1>4, <1>5 DEF IInv

LEMMA ReadSucceedsKept ==
  ASSUME IInv, NEW s \in Sections, ReadSucceeds(s)
  PROVE  IInv'
<1>1. PICK result \in ToolResults :
        get' = [get EXCEPT !.sections[s] =
                  IF Parsed(result) THEN [code |-> "ready", version |-> version]
                  ELSE Section("INVALID_TOOL_RESPONSE"),
                !.malformed = @ \cup {x \in {s} : Parsed(result) /\ "malformed" \in result.items}]
  BY DEF ReadSucceeds
<1> DEFINE value == IF Parsed(result) THEN [code |-> "ready", version |-> version]
                    ELSE Section("INVALID_TOOL_RESPONSE")
           e == Entry("WEB_DASHBOARD", NoSession, FALSE)
<1>2. get' = [get EXCEPT !.sections[s] = value]
  BY <1>1 DEF Parsed, IInv, GetOK
<1>3. value \in SectionValues /\ (value.code = "ready" => value.version >= get.since)
  BY SectionTypes, BoundsAssumption
  DEF IInv, HostOK, GetOK, SectionValues, SectionCodes, Versions
<1>4. e \in Entries /\ e.context = "WEB_DASHBOARD"
  BY BoundsAssumption DEF Entry, Entries, NoSession
<1>5. QED
  BY <1>2, <1>3, <1>4, ReadKept DEF ReadSucceeds

LEMMA ReadFailsKept ==
  ASSUME IInv, NEW s \in Sections, ReadFails(s)
  PROVE  IInv'
<1> DEFINE e == Entry("WEB_DASHBOARD", NoSession, TRUE)
<1>1. e \in Entries /\ e.context = "WEB_DASHBOARD"
  BY BoundsAssumption DEF Entry, Entries, NoSession
<1>2. /\ Section("TOOL_FAILED") \in SectionValues
      /\ Section("TOOL_FAILED").code # "ready"
  BY SectionTypes DEF SectionCodes
<1>3. QED
  BY <1>1, <1>2, ReadKept DEF ReadFails

LEMMA AnswerDashboardKept ==
  ASSUME IInv, AnswerDashboard
  PROVE  IInv'
<1> USE DEF AnswerDashboard, hostVars
<1>1. GetOK'
  BY ZenonT(40), AnswersTell DEF IInv, GetOK
<1>2. DashboardOK'
  BY DEF IInv, GetOK, DashboardOK
<1>3. HostOK' /\ PanelOK'
  BY PanelKept DEF IInv, HostOK
<1>4. QED
  BY <1>1, <1>2, <1>3 DEF IInv

LEMMA RefreshDashboardKept ==
  ASSUME IInv, RefreshDashboard
  PROVE  IInv'
<1> USE DEF RefreshDashboard, hostVars
<1>1. GetOK'
  BY SectionTypes DEF IInv, HostOK, GetOK, Request, Versions
<1>2. DashboardOK'
  BY DEF IInv, GetOK, DashboardOK, Request, Loading, Kinds
<1>3. HostOK' /\ PanelOK'
  BY PanelKept DEF IInv, HostOK
<1>4. QED
  BY <1>1, <1>2, <1>3 DEF IInv

LEMMA ShowDashboardKept ==
  ASSUME IInv, ShowDashboard
  PROVE  IInv'
<1> USE DEF ShowDashboard, hostVars
<1>1. GetOK'
  BY DEF IInv, GetOK
<1>2. get.sections # Nothing
  BY SectionTypes DEF IInv, GetOK
<1>3. DashboardOK'
  BY <1>2 DEF IInv, GetOK, DashboardOK, Kinds
<1>4. HostOK' /\ PanelOK'
  BY PanelKept DEF IInv, HostOK
<1>5. QED
  BY <1>1, <1>3, <1>4 DEF IInv

LEMMA DashboardFailsKept ==
  ASSUME IInv, DashboardFails
  PROVE  IInv'
<1> USE DEF DashboardFails, hostVars
<1>1. GetOK'
  BY SectionTypes DEF IInv, GetOK, Request
<1>2. DashboardOK'
  BY DEF IInv, GetOK, DashboardOK, Request, Unloaded, Kinds
<1>3. HostOK' /\ PanelOK'
  BY PanelKept DEF IInv, HostOK
<1>4. QED
  BY <1>1, <1>2, <1>3 DEF IInv

-----------------------------------------------------------------------------
(* The logs panel and the chat tab.                                        *)

LEMMA Numbers ==
  ASSUME IInv
  PROVE  /\ chat.session \in Nat /\ chat.last \in Nat /\ Len(log) \in Nat
         /\ panel.data.session \in Nat /\ post.data.session \in Nat
         /\ panel.data.upTo \in Nat /\ post.data.upTo \in Nat
BY BoundsAssumption DEF IInv, HostOK, PanelOK, PanelTyped, Logs

(* What the panel's steps leave alone.                                     *)
LEMMA HostAndDashboardKept ==
  ASSUME IInv, UNCHANGED <<hostVars, dashboardVars>>
  PROVE  HostOK' /\ GetOK' /\ DashboardOK'
BY DEF IInv, HostOK, GetOK, DashboardOK, hostVars, dashboardVars

LEMMA ChatSessionChangesKept ==
  ASSUME IInv, ChatSessionChanges
  PROVE  IInv'
<1> USE DEF ChatSessionChanges, hostVars
<1>0. Len(log) \in Nat /\ HostOK' /\ GetOK' /\ DashboardOK'
  BY Numbers, HostAndDashboardKept
<1>a. /\ chat' \in [session : 0 .. MaxSessions, last : 0 .. MaxSessions]
      /\ chat'.session \in {chat.last + 1, NoSession} /\ chat'.session <= chat'.last
      /\ chat.last <= chat'.last
  BY Numbers, BoundsAssumption DEF IInv, PanelOK, PanelTyped, InOrder, NoSession
<1>b. \A k \in 1 .. panel.data.upTo :
        log[k].context = "CHAT" => log[k].session \in Nat /\ log[k].session # NoSession
  <2>1. \A k \in 1 .. panel.data.upTo : k \in 1 .. Len(log)
    BY Numbers DEF IInv, PanelOK, InOrder
  <2>2. \A k \in 1 .. Len(log) : log[k] \in Entries
    BY DEF IInv, HostOK
  <2>3. \A k \in 1 .. Len(log) : log[k].session \in Nat
    BY <2>2, BoundsAssumption DEF Entries
  <2>4. QED
    BY <2>1, <2>3 DEF IInv, HostOK
<1>c. \A x \in Nat : x # NoSession /\ Left(x) => Left(x)'
  BY Numbers, <1>a DEF Left
<1>1. PanelTyped'
  BY <1>0, Numbers, <1>a, <1>b, <1>c, BoundsAssumption DEF IInv, PanelOK, PanelTyped, Kinds
<1>2. InOrder'
  BY <1>0, Numbers, <1>a, <1>b, <1>c, BoundsAssumption DEF IInv, PanelOK, PanelTyped, InOrder
<1>3. Opened'
  BY <1>0, Numbers, <1>a, <1>b, <1>c, BoundsAssumption DEF IInv, PanelOK, PanelTyped, InOrder, Opened, Left, Listed, NoLogs
<1>4. ErrorsOpenOnce'
  BY <1>0, Numbers, <1>a, <1>b, <1>c, BoundsAssumption DEF IInv, PanelOK, PanelTyped, InOrder, Opened, ErrorsOpenOnce, Listed, IsError
<1>5. Following'
  BY <1>0, Numbers, <1>a, <1>b, <1>c, BoundsAssumption DEF IInv, PanelOK, PanelTyped, InOrder, Following
<1>6. QED
  BY <1>0, <1>1, <1>2, <1>3, <1>4, <1>5 DEF IInv, PanelOK

LEMMA SelectKept ==
  ASSUME IInv, NEW t \in {"dashboard", "chat", "logs"}, Select(t)
  PROVE  IInv'
<1> USE DEF Select, hostVars
<1>0. Len(log) \in Nat /\ HostOK' /\ GetOK' /\ DashboardOK'
  BY Numbers, HostAndDashboardKept
<1>1. PanelTyped'
  BY <1>0, BoundsAssumption DEF IInv, PanelOK, PanelTyped, Kinds
<1>2. InOrder'
  BY <1>0, BoundsAssumption DEF IInv, PanelOK, PanelTyped, InOrder
<1>3. Opened'
  BY <1>0, BoundsAssumption DEF IInv, PanelOK, PanelTyped, InOrder, Opened, Left, Listed
<1>4. ErrorsOpenOnce'
  BY <1>0, BoundsAssumption DEF IInv, PanelOK, PanelTyped, InOrder, Opened, ErrorsOpenOnce, Listed, IsError
<1>5. Following'
  BY <1>0, BoundsAssumption DEF IInv, PanelOK, PanelTyped, InOrder, Following
<1>6. QED
  BY <1>0, <1>1, <1>2, <1>3, <1>4, <1>5 DEF IInv, PanelOK

(* load() while nothing is in flight.                                      *)
LEMMA StartLoadKept ==
  ASSUME IInv, StartLoad, post.at = "none", timer' \in BOOLEAN, timer' => timer,
         UNCHANGED <<hostVars, dashboardVars, tab, chat, known, expanded, toggled>>
  PROVE  IInv'
<1> USE DEF StartLoad, hostVars
<1>0. Len(log) \in Nat /\ HostOK' /\ GetOK' /\ DashboardOK'
  BY Numbers, HostAndDashboardKept
<1>a. /\ post'.at = "network" /\ post'.data.session = chat.session
      /\ post'.data.loaded /\ post'.data.upTo = 0
      /\ post' \in [at : {"none", "network", "answered"}, data : Logs]
  BY BoundsAssumption DEF IInv, PanelOK, PanelTyped, Logs
<1>b. panel.data = NoLogs <=> ~panel.data.loaded
  BY DEF IInv, PanelOK, PanelTyped, NoLogs, Logs
<1>c. /\ panel' \in [kind : Kinds \cup {"idle"}, data : Logs] /\ panel'.data = panel.data
      /\ panel.data.loaded => panel'.kind = "refreshing"
      /\ ~panel.data.loaded => panel'.kind = "loading"
  BY <1>b DEF IInv, PanelOK, PanelTyped, Loading, Kinds
<1>1. PanelTyped'
  BY <1>0, Numbers, <1>a, <1>c, BoundsAssumption DEF IInv, PanelOK, PanelTyped, Kinds
<1>2. InOrder'
  BY <1>0, Numbers, <1>a, <1>c, BoundsAssumption DEF IInv, PanelOK, PanelTyped, InOrder
<1>3. Opened'
  BY <1>0, Numbers, <1>a, <1>c, BoundsAssumption DEF IInv, PanelOK, PanelTyped, InOrder, Opened, Left, Listed
<1>4. ErrorsOpenOnce'
  BY <1>0, Numbers, <1>a, <1>c, BoundsAssumption DEF IInv, PanelOK, PanelTyped, InOrder, Opened, ErrorsOpenOnce, Listed, IsError
<1>5. Following'
  BY <1>0, Numbers, <1>a, <1>c, BoundsAssumption DEF IInv, PanelOK, PanelTyped, InOrder, Following
<1>6. QED
  BY <1>0, <1>1, <1>2, <1>3, <1>4, <1>5 DEF IInv, PanelOK

LEMMA TimerFiresKept ==
  ASSUME IInv, TimerFires
  PROVE  IInv'
<1>1. CASE post.at = "none"
  BY <1>1, StartLoadKept DEF TimerFires, Load
<1>2. CASE post.at # "none"
  <2>1. HostOK' /\ GetOK' /\ DashboardOK'
    BY HostAndDashboardKept DEF TimerFires
  <2>2. PanelOK'
    BY ZenonT(40), <1>2 DEF TimerFires, Load, hostVars, IInv, PanelOK, PanelTyped, InOrder, Opened, Left,
       ErrorsOpenOnce, Following, Listed, IsError
  <2>3. QED
    BY <2>1, <2>2 DEF IInv
<1>3. QED
  BY <1>1, <1>2

LEMMA RefreshLogsKept ==
  ASSUME IInv, RefreshLogs
  PROVE  IInv'
<1>1. post.at = "none"
  BY DEF RefreshLogs, IInv, PanelOK, PanelTyped
<1>2. timer \in BOOLEAN
  BY DEF IInv, PanelOK, PanelTyped
<1>3. timer' = timer
  BY DEF RefreshLogs
<1>4. QED
  BY <1>1, <1>2, <1>3, StartLoadKept DEF RefreshLogs, Load

LEMMA ListLogsKept ==
  ASSUME IInv, ListLogs
  PROVE  IInv'
<1> USE DEF ListLogs, hostVars
<1>0. Len(log) \in Nat /\ HostOK' /\ GetOK' /\ DashboardOK'
  BY Numbers, HostAndDashboardKept
<1>a. /\ post' \in [at : {"none", "network", "answered"}, data : Logs]
      /\ post'.at = "answered" /\ post.at = "network"
      /\ post'.data.session = post.data.session /\ post'.data.upTo = Len(log)
      /\ post'.data.loaded = post.data.loaded
  BY Numbers DEF IInv, HostOK, PanelOK, PanelTyped, Logs
<1>1. PanelTyped'
  BY <1>0, Numbers, <1>a, BoundsAssumption DEF IInv, PanelOK, PanelTyped, Kinds
<1>2. InOrder'
  BY <1>0, Numbers, <1>a, BoundsAssumption DEF IInv, PanelOK, PanelTyped, InOrder
<1>3. Opened'
  BY <1>0, Numbers, <1>a, BoundsAssumption DEF IInv, PanelOK, PanelTyped, InOrder, Opened, Left, Listed
<1>4. ErrorsOpenOnce'
  BY <1>0, Numbers, <1>a, BoundsAssumption DEF IInv, PanelOK, PanelTyped, InOrder, Opened, ErrorsOpenOnce, Listed, IsError
<1>5. Following'
  BY <1>0, Numbers, <1>a, BoundsAssumption DEF IInv, PanelOK, PanelTyped, InOrder, Following
<1>6. QED
  BY <1>0, <1>1, <1>2, <1>3, <1>4, <1>5 DEF IInv, PanelOK

LEMMA LogsFailKept ==
  ASSUME IInv, LogsFail
  PROVE  IInv'
<1> USE DEF LogsFail, hostVars
<1>0. Len(log) \in Nat /\ HostOK' /\ GetOK' /\ DashboardOK'
  BY Numbers, HostAndDashboardKept
<1>a. Unposted \in [at : {"none", "network", "answered"}, data : Logs]
      /\ Unposted.at = "none" /\ Unposted.data.session = 0 /\ Unposted.data.upTo = 0
  BY BoundsAssumption DEF Unposted, NoLogs, NoSession, Logs
<1>b. panel.data = NoLogs <=> ~panel.data.loaded
  BY DEF IInv, PanelOK, PanelTyped, NoLogs, Logs
<1>c. /\ panel' \in [kind : Kinds \cup {"idle"}, data : Logs] /\ panel'.data = panel.data
      /\ panel.data.loaded => panel'.kind = "stale"
      /\ ~panel.data.loaded => panel'.kind = "failed"
  BY <1>b DEF IInv, PanelOK, PanelTyped, Unloaded, Kinds
<1>1. PanelTyped'
  BY <1>0, Numbers, <1>a, <1>c, BoundsAssumption DEF IInv, PanelOK, PanelTyped, Kinds
<1>2. InOrder'
  BY <1>0, Numbers, <1>a, <1>c, BoundsAssumption DEF IInv, PanelOK, PanelTyped, InOrder
<1>3. Opened'
  BY <1>0, Numbers, <1>a, <1>c, BoundsAssumption DEF IInv, PanelOK, PanelTyped, InOrder, Opened, Left, Listed
<1>4. ErrorsOpenOnce'
  BY <1>0, Numbers, <1>a, <1>c, BoundsAssumption DEF IInv, PanelOK, PanelTyped, InOrder, Opened, ErrorsOpenOnce, Listed, IsError
<1>5. Following'
  BY <1>0, Numbers, <1>a, <1>c, BoundsAssumption DEF IInv, PanelOK, PanelTyped, InOrder, Following
<1>6. QED
  BY <1>0, <1>1, <1>2, <1>3, <1>4, <1>5 DEF IInv, PanelOK

(* Of what is new on the screen exactly the errors are opened; what was    *)
(* known stays as it was, and nothing new was touched before.              *)
LEMMA ShowLogsKept ==
  ASSUME IInv, ShowLogs
  PROVE  IInv'
<1> USE DEF hostVars
<1> DEFINE new == Listed(post.data)
<1>0. HostOK' /\ GetOK' /\ DashboardOK'
  BY HostAndDashboardKept DEF ShowLogs
<1>1. /\ post.at = "answered" /\ post'.at = "none"
      /\ post'.data.session = 0 /\ post'.data.upTo = 0
      /\ post' \in [at : {"none", "network", "answered"}, data : Logs]
  BY BoundsAssumption DEF ShowLogs, Unposted, NoLogs, NoSession, Logs
<1>2. /\ panel' \in [kind : Kinds \cup {"idle"}, data : Logs]
      /\ panel'.kind = "ready" /\ panel'.data = post.data /\ post.data.loaded
  BY <1>1 DEF ShowLogs, IInv, PanelOK, PanelTyped, InOrder, Kinds
<1>3. known' = new /\ expanded' = Reconciled(post.data)
      /\ UNCHANGED <<log, tab, chat, timer, toggled, dropped>>
  BY DEF ShowLogs
<1>4. new \subseteq 1 .. Len(log) /\ expanded' \subseteq known'
  BY <1>3, Numbers DEF IInv, PanelOK, InOrder, Listed, Reconciled
<1>5. PanelTyped'
  BY <1>1, <1>2, <1>3, <1>4 DEF IInv, PanelOK, PanelTyped
<1>6. InOrder'
  BY <1>1, <1>2, <1>3, Numbers DEF IInv, PanelOK, InOrder
<1>7. \A k \in toggled : panel.data.loaded /\ k \in 1 .. panel.data.upTo /\ k \in 1 .. Len(log)
  BY Numbers DEF IInv, PanelOK, InOrder, Opened
(* A touched entry of a conversation is of the one shown next, or left.    *)
<1>8. ASSUME NEW k \in toggled, log[k].context = "CHAT", log[k].session # post.data.session
      PROVE  Left(log[k].session)'
  <2>1. log[k].session # NoSession
    BY <1>7, <1>8 DEF IInv, HostOK
  <2>2. CASE Left(log[k].session)
    BY <1>1, <1>3, <2>2 DEF Left
  <2>3. CASE log[k].session = panel.data.session
    <3>1. panel.data.session # chat.session
      BY <1>1, <1>7, <1>8, <2>1, <2>3 DEF IInv, PanelOK, Opened
    <3>2. QED
      BY <1>1, <1>3, <2>3, <3>1 DEF IInv, PanelOK, InOrder, Left
  <2>4. QED
    BY <1>8, <2>2, <2>3 DEF IInv, PanelOK, Opened
<1>9. Opened'
  <2>1. \A k \in toggled : k \in 1 .. post.data.upTo
    BY <1>1, <1>7, Numbers DEF IInv, PanelOK, InOrder
  <2>2. known' = Listed(panel.data)'
    BY <1>2, <1>3 DEF Listed
  <2>3. QED
    BY <1>1, <1>2, <1>3, <1>8, <2>1, <2>2 DEF Opened
<1>10. \A k \in new : k \notin known => k \notin toggled
  <2>1. SUFFICES ASSUME NEW k \in new, k \in toggled
                 PROVE  k \in known
    OBVIOUS
  <2>2. CASE log[k].context # "CHAT"
    BY <1>7, <2>1, <2>2 DEF IInv, PanelOK, Opened, Listed
  <2>3. CASE log[k].context = "CHAT"
    <3>1. log[k].session = post.data.session /\ post.data.session # NoSession
      BY <2>1, <2>3 DEF Listed
    <3>2. log[k].session = panel.data.session
      BY <1>1, <2>1, <2>3, <3>1 DEF IInv, PanelOK, Opened, Left
    <3>3. QED
      BY <1>7, <2>1, <3>1, <3>2 DEF IInv, PanelOK, Opened, Listed
  <2>4. QED
    BY <2>2, <2>3
<1>11. ErrorsOpenOnce'
  <2>1. \A k \in new : k \in expanded' <=> (IsError(k) <=> k \notin toggled)
    <3>1. SUFFICES ASSUME NEW k \in new
                   PROVE  k \in expanded' <=> (IsError(k) <=> k \notin toggled)
      OBVIOUS
    <3>2. CASE k \notin known
      BY <1>3, <1>10, <3>1, <3>2 DEF IInv, PanelOK, PanelTyped, Reconciled
    <3>3. CASE k \in known
      BY <1>3, <3>1, <3>3 DEF IInv, PanelOK, Opened, ErrorsOpenOnce, Reconciled
    <3>4. QED
      BY <3>2, <3>3
  <2>2. Listed(panel.data)' = new
    BY <1>2, <1>3 DEF Listed
  <2>3. \A k : IsError(k)' = IsError(k)
    BY <1>3 DEF IsError
  <2>4. QED
    BY <1>3, <2>1, <2>2, <2>3 DEF ErrorsOpenOnce
<1>12. Following'
  BY <1>1, <1>2, <1>3 DEF IInv, PanelOK, Following
<1>13. QED
  BY <1>0, <1>5, <1>6, <1>9, <1>11, <1>12 DEF IInv, PanelOK

LEMMA ToggleKept ==
  ASSUME IInv, NEW k \in 1 .. MaxLog, Toggle(k)
  PROVE  IInv'
<1>1. HostOK' /\ GetOK' /\ DashboardOK'
  BY HostAndDashboardKept DEF Toggle
<1>2. /\ panel.data.loaded /\ k \in Listed(panel.data) /\ k \in known
      /\ UNCHANGED <<log, tab, chat, timer, panel, post, known, dropped>>
  BY DEF Toggle, hostVars, IInv, PanelOK, Opened
<1>3. Listed(panel.data)' = Listed(panel.data) /\ \A q : IsError(q)' = IsError(q)
  BY <1>2 DEF Listed, IsError
<1>4. PanelTyped' /\ InOrder' /\ Following'
  BY <1>2 DEF Toggle, IInv, PanelOK, PanelTyped, InOrder, Following
<1>5. Opened'
  <2>1. k \in 1 .. panel.data.upTo
        /\ (log[k].context = "CHAT" => log[k].session = panel.data.session)
    BY <1>2 DEF Listed
  <2>2. toggled' \subseteq toggled \cup {k}
    BY DEF Toggle
  <2>3. QED
    BY <1>2, <1>3, <2>1, <2>2 DEF IInv, PanelOK, Opened, Left
<1>6. ErrorsOpenOnce'
  BY <1>2, <1>3 DEF Toggle, IInv, PanelOK, ErrorsOpenOnce
<1>7. QED
  BY <1>1, <1>4, <1>5, <1>6 DEF IInv, PanelOK

-----------------------------------------------------------------------------
LEMMA NextKeeps == IInv /\ [Next]_vars => IInv'
<1>1. SUFFICES ASSUME IInv, [Next]_vars
               PROVE  IInv'
  OBVIOUS
<1>2. CASE DashboardSteps
  BY <1>1, <1>2, StartReadsKept, HostUnavailableKept, AnswerDashboardKept, ShowDashboardKept,
     DashboardFailsKept, ReadSucceedsKept, ReadFailsKept
  DEF DashboardSteps
<1>3. CASE LogsSteps
  BY <1>1, <1>3, ListLogsKept, ShowLogsKept, LogsFailKept DEF LogsSteps
<1>4. CASE UNCHANGED vars
  <2>1. UNCHANGED <<hostVars, dashboardVars, tab, chat, panelVars>>
    BY <1>4 DEF vars, hostVars, dashboardVars, panelVars
  <2>2. Len(log') \in Nat /\ Len(log) <= Len(log')
    BY <1>1, <2>1, Numbers DEF hostVars
  <2>3. QED
    BY <1>1, <2>1, <2>2, HostAndDashboardKept, PanelKept DEF IInv, hostVars
<1>5. QED
  BY <1>1, <1>2, <1>3, <1>4, TimerFiresKept, RefreshDashboardKept, RefreshLogsKept, WriteKept,
     InteractKept, ChatSessionChangesKept, SelectKept, ToggleKept
  DEF Next

LEMMA Invariance == Spec => []IInv
<1>1. QED
  BY InitEstablishes, NextKeeps, PTL DEF Spec

-----------------------------------------------------------------------------
(* The theorems.                                                           *)

(* The types of the state; what a panel shows and what is in flight fit    *)
(* the kind of state it is in.                                             *)
THEOREM WorkspaceTypesCorrect == Spec => []TypeOK
<1>1. IInv => TypeOK
  BY DEF IInv, HostOK, GetOK, DashboardOK, PanelOK, PanelTyped, TypeOK
<1>2. QED
  BY <1>1, Invariance, PTL

(* What the dashboard shows as read was read after the click that asked    *)
(* for it, whole, and whatever became of the other sections.               *)
THEOREM DashboardTellsTheTruth == Spec => []DashboardIsHonest
<1>1. IInv => DashboardIsHonest
  BY DEF IInv, GetOK, DashboardOK, DashboardIsHonest, SectionsAreCurrent, SectionsFailAlone
<1>2. QED
  BY <1>1, Invariance, PTL

(* An error is opened once, however often the entries are loaded and       *)
(* whatever happens to the conversation meanwhile.                         *)
THEOREM ErrorsAreOpenedOnce == Spec => []ErrorsOpenOnce
<1>1. IInv => ErrorsOpenOnce
  BY DEF IInv, PanelOK
<1>2. QED
  BY <1>1, Invariance, PTL

(* Logs that are on the screen with nothing due are of the current         *)
(* conversation, unless the last load was dropped.                         *)
THEOREM LogsFollowTheChat == Spec => []PanelFollowsTheChat
<1>1. IInv => PanelFollowsTheChat
  BY DEF IInv, PanelOK, Following, PanelFollowsTheChat
<1>2. QED
  BY <1>1, Invariance, PTL

(* A step that changes what a panel shows is a complete load.              *)
LEMMA StepsKeepData ==
  ASSUME IInv, Next
  PROVE  /\ dashboard'.data # dashboard.data => dashboard'.kind = "ready"
         /\ panel'.data # panel.data => panel'.kind = "ready"
<1>1. /\ Loading(dashboard, Nothing).data = dashboard.data
      /\ Unloaded(dashboard, Nothing).data = dashboard.data
  BY DEF IInv, DashboardOK, Loading, Unloaded
<1>2. /\ Loading(panel, NoLogs).data = panel.data
      /\ Unloaded(panel, NoLogs).data = panel.data
  BY DEF IInv, PanelOK, PanelTyped, Loading, Unloaded
<1>3. CASE DashboardSteps
  <2>1. panel' = panel
    BY <1>3 DEF DashboardSteps, StartReads, HostUnavailable, AnswerDashboard, ShowDashboard,
       DashboardFails, ReadSucceeds, ReadFails, panelVars
  <2>2. dashboard' = dashboard \/ ShowDashboard \/ DashboardFails
    BY <1>3 DEF DashboardSteps, StartReads, HostUnavailable, AnswerDashboard, ReadSucceeds, ReadFails
  <2>3. QED
    BY <1>1, <2>1, <2>2 DEF ShowDashboard, DashboardFails
<1>4. CASE LogsSteps
  BY <1>2, <1>4 DEF LogsSteps, ListLogs, ShowLogs, LogsFail, dashboardVars
<1>5. CASE TimerFires \/ RefreshLogs
  BY <1>2, <1>5 DEF TimerFires, RefreshLogs, Load, StartLoad, dashboardVars
<1>6. QED
  BY <1>1, <1>3, <1>4, <1>5
  DEF Next, RefreshDashboard, Write, Interact, ChatSessionChanges, Select, Toggle, panelVars,
      dashboardVars

(* Nothing but a complete load replaces what a panel shows.                *)
THEOREM PanelsKeepTheirData == Spec => DataIsKept
<1>1. IInv /\ [Next]_vars =>
        [/\ dashboard.data # Nothing /\ dashboard'.data # dashboard.data => dashboard'.kind = "ready"
         /\ panel.data.loaded /\ panel'.data # panel.data => panel'.kind = "ready"]_vars
  BY StepsKeepData
<1>2. QED
  BY <1>1, Invariance, PTL DEF Spec, DataIsKept

(* A load in flight only moves towards its end.  The buttons are not there *)
(* while it is in flight, and a timer that fires finds it and returns.     *)
LEMMA ReadsGetNearer ==
  ASSUME IInv, DashboardSteps, get' # get
  PROVE  \/ StagesLeft(get') < StagesLeft(get)
         \/ /\ StagesLeft(get') = StagesLeft(get)
            /\ PendingReads(get') \subseteq PendingReads(get)
            /\ PendingReads(get') # PendingReads(get)
<1>1. get \in [at : {"none", "network", "reading", "answered"}, since : Versions,
               sections : [Sections -> SectionValues], malformed : SUBSET Sections,
               answer : {"none", "ready", "partial", "DASHBOARD_FAILED", "HOST_UNAVAILABLE"}]
  BY DEF IInv, GetOK
<1>2. CASE StartReads
  BY <1>1, <1>2 DEF StartReads, StagesLeft
<1>3. CASE HostUnavailable
  BY <1>1, <1>3 DEF HostUnavailable, StagesLeft
<1>4. CASE AnswerDashboard
  BY <1>1, <1>4 DEF AnswerDashboard, StagesLeft
<1>5. CASE ShowDashboard
  BY <1>1, <1>5 DEF ShowDashboard, StagesLeft
<1>6. CASE DashboardFails
  <2>1. get'.at = "none" /\ get.at # "none"
    BY <1>6 DEF DashboardFails, Request
  <2>2. QED
    BY <1>1, <2>1 DEF StagesLeft
<1>7. ASSUME NEW s \in Sections, ReadSucceeds(s) \/ ReadFails(s)
      PROVE  /\ StagesLeft(get') = StagesLeft(get)
             /\ PendingReads(get') \subseteq PendingReads(get)
             /\ PendingReads(get') # PendingReads(get)
  <2>1. PICK v : /\ v.code # "pending" /\ get'.at = get.at
                 /\ get'.sections = [get.sections EXCEPT ![s] = v]
    <3>1. CASE ReadSucceeds(s)
      <4>1. PICK result \in ToolResults :
              get' = [get EXCEPT !.sections[s] =
                        IF Parsed(result) THEN [code |-> "ready", version |-> version]
                        ELSE Section("INVALID_TOOL_RESPONSE"),
                      !.malformed = @ \cup {x \in {s} : Parsed(result) /\ "malformed" \in result.items}]
        BY <3>1 DEF ReadSucceeds
      <4> DEFINE v == IF Parsed(result) THEN [code |-> "ready", version |-> version]
                      ELSE Section("INVALID_TOOL_RESPONSE")
      <4>2. v.code # "pending"
        BY DEF Section
      <4>3. get'.at = get.at /\ get'.sections = [get.sections EXCEPT ![s] = v]
        BY <1>1, <4>1
      <4>4. QED
        BY <4>2, <4>3
    <3>2. CASE ReadFails(s)
      <4>1. get' = [get EXCEPT !.sections[s] = Section("TOOL_FAILED")]
        BY <3>2 DEF ReadFails
      <4>2. get'.at = get.at /\ get'.sections = [get.sections EXCEPT ![s] = Section("TOOL_FAILED")]
        BY <1>1, <4>1
      <4>3. Section("TOOL_FAILED").code # "pending"
        BY DEF Section
      <4>4. QED
        BY <4>2, <4>3
    <3>3. QED
      BY <1>7, <3>1, <3>2
  <2>2. get.sections[s].code = "pending" /\ get.sections \in [Sections -> SectionValues]
    BY <1>1, <1>7 DEF ReadSucceeds, ReadFails
  <2>3. s \in PendingReads(get) /\ s \notin PendingReads(get')
    BY <2>1, <2>2 DEF PendingReads
  <2>4. PendingReads(get') \subseteq PendingReads(get)
    BY <2>1, <2>2 DEF PendingReads
  <2>5. QED
    BY <2>1, <2>3, <2>4 DEF StagesLeft
<1>8. QED
  BY <1>2, <1>3, <1>4, <1>5, <1>6, <1>7 DEF DashboardSteps

LEMMA LogsGetNearer ==
  ASSUME IInv, LogsSteps
  PROVE  StagesLeft(post') < StagesLeft(post)
<1>1. CASE ListLogs
  BY <1>1 DEF ListLogs, StagesLeft
<1>2. CASE ShowLogs \/ LogsFail
  <2>1. post'.at = "none" /\ post.at \in {"network", "answered"}
    BY <1>2 DEF ShowLogs, LogsFail, Unposted, IInv, PanelOK, PanelTyped
  <2>2. QED
    BY <2>1 DEF StagesLeft
<1>3. QED
  BY <1>1, <1>2 DEF LogsSteps

LEMMA LoadsAreNotStartedAgain ==
  ASSUME IInv, Next
  PROVE  /\ get.at # "none" /\ get' # get => DashboardSteps
         /\ post.at # "none" /\ post' # post => LogsSteps
<1>1. CASE DashboardSteps
  BY <1>1 DEF DashboardSteps, StartReads, HostUnavailable, AnswerDashboard, ShowDashboard,
     DashboardFails, ReadSucceeds, ReadFails, panelVars
<1>2. CASE LogsSteps
  BY <1>2 DEF LogsSteps, ListLogs, ShowLogs, LogsFail, dashboardVars
<1>3. CASE TimerFires \/ RefreshLogs
  BY <1>3 DEF TimerFires, RefreshLogs, Load, dashboardVars
<1>4. CASE RefreshDashboard
  BY <1>4 DEF RefreshDashboard, panelVars, IInv, DashboardOK
<1>5. QED
  BY <1>1, <1>2, <1>3, <1>4
  DEF Next, Write, Interact, ChatSessionChanges, Select, Toggle, panelVars, dashboardVars

(* The loads of both panels have a bounded number of steps left, for any   *)
(* sections, writes, conversations and entries.                            *)
THEOREM LoadsHaveAnEnd == Spec => LoadsRunOut
<1>1. IInv /\ [Next]_vars =>
        [/\ get.at # "none" /\ get' # get =>
              \/ StagesLeft(get') < StagesLeft(get)
              \/ /\ StagesLeft(get') = StagesLeft(get)
                 /\ PendingReads(get') \subseteq PendingReads(get)
                 /\ PendingReads(get') # PendingReads(get)
         /\ post.at # "none" /\ post' # post => StagesLeft(post') < StagesLeft(post)]_vars
  BY ReadsGetNearer, LogsGetNearer, LoadsAreNotStartedAgain
<1>2. QED
  BY <1>1, Invariance, PTL DEF Spec, LoadsRunOut
=============================================================================
