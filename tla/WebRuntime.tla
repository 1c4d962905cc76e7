---------------------------- MODULE WebRuntime -----------------------------
(***************************************************************************)
(* The Web Host's one runtime per process: the manager's promises and      *)
(* runtimes, the Finance runtime that the dashboard needs, the extension   *)
(* with Filesystem and Git that chat needs, and the tool registry both     *)
(* share.  Node runs a handler up to its next await; the awaits are the    *)
(* starts of the three servers, their tools/list, and the cleanup.         *)
(*                                                                         *)
(* Finance runtimes and their extensions are numbered in the order of      *)
(* their creation; 0 is undefined.                                         *)
(***************************************************************************)
EXTENDS Naturals

CONSTANTS
  MaxStarts,  \* runtimes the process creates
  MaxCloses   \* calls of close()

ASSUME MaxStartsAssumption == MaxStarts \in Nat
ASSUME MaxClosesAssumption == MaxCloses \in Nat

Servers == {"finance", "filesystem", "git"}
Starts == 1 .. MaxStarts

VARIABLES
  start,     \* [Starts -> StartRecords]: every runtime and the start of it
  registry,  \* [Starts -> SUBSET Servers]: by Finance runtime, who is in its registry
  last,      \* the runtimes created so far
  financePromise, financeRuntime, hostPromise, hostRuntime,
  closes,    \* calls of close() so far
  raced      \* history: one of them overlapped a start

manager == <<financePromise, financeRuntime, hostPromise, hostRuntime>>
runtimeVars == <<start, registry, last, manager, closes, raced>>

\* "on": the runtimes it is built on, closed with it, itself included.
FinancePhases == {"starting", "discovering"}
HostPhases == {"waiting", "filesystem", "git", "registerFilesystem", "registerGit"}
StartRecords ==
  [kind : {"none", "finance", "host"},
   phase : {"none", "cleaning", "up", "failed"} \cup FinancePhases \cup HostPhases,
   base : 0 .. MaxStarts,
   on : SUBSET Starts,
   clients : SUBSET Servers]

NoStart == [kind |-> "none", phase |-> "none", base |-> 0, on |-> {}, clients |-> {}]

InFlight(a) == start[a].phase \in FinancePhases \cup HostPhases \cup {"cleaning"}

\* The Finance runtime at the bottom of a, whose registry a uses.
Root(a) == CHOOSE f \in start[a].on : start[f].kind = "finance"

RuntimeInit ==
  /\ start = [a \in Starts |-> NoStart]
  /\ registry = [a \in Starts |-> {}]
  /\ last = 0
  /\ financePromise = 0 /\ financeRuntime = 0
  /\ hostPromise = 0 /\ hostRuntime = 0
  /\ closes = 0
  /\ raced = FALSE

-----------------------------------------------------------------------------
(* Starting.                                                               *)

FinanceStart(a) == [kind |-> "finance", phase |-> "starting", base |-> 0,
                    on |-> {a}, clients |-> {}]

\* The base is a Finance promise that may still be pending; "on" is complete
\* once it is fulfilled.
HostStart(b) == [kind |-> "host", phase |-> "waiting", base |-> b,
                 on |-> {}, clients |-> {}]

\* The runtime or promise getFinance() returns; 0 if it creates one.
Foundation == IF hostRuntime # 0 THEN hostRuntime ELSE financePromise

GetFinance ==
  /\ Foundation = 0
  /\ last < MaxStarts
  /\ last' = last + 1
  /\ start' = [start EXCEPT ![last + 1] = FinanceStart(last + 1)]
  /\ financePromise' = last + 1
  /\ UNCHANGED <<registry, financeRuntime, hostPromise, hostRuntime, closes, raced>>

\* Broken variant: without the shared promise every request extends anew.
GetHostUnshared(p) ==
  /\ Foundation # 0 /\ last < MaxStarts
  /\ p = last + 1
  /\ start' = [start EXCEPT ![p] = HostStart(Foundation)]
  /\ last' = p
  /\ hostPromise' = p
  /\ UNCHANGED <<registry, financePromise, financeRuntime, hostRuntime, closes, raced>>

\* getHost() returns the promise of start p.
GetHost(p) ==
  \/ /\ hostPromise # 0
     /\ p = hostPromise
     /\ UNCHANGED runtimeVars
  \/ /\ hostPromise = 0 /\ Foundation # 0 /\ last < MaxStarts
     /\ p = last + 1
     /\ start' = [start EXCEPT ![p] = HostStart(Foundation)]
     /\ last' = p
     /\ hostPromise' = p
     /\ UNCHANGED <<registry, financePromise, financeRuntime, hostRuntime, closes, raced>>
  \/ /\ hostPromise = 0 /\ Foundation = 0 /\ last + 1 < MaxStarts
     /\ p = last + 2
     /\ start' = [start EXCEPT ![last + 1] = FinanceStart(last + 1),
                               ![p] = HostStart(last + 1)]
     /\ last' = p
     /\ financePromise' = last + 1
     /\ hostPromise' = p
     /\ UNCHANGED <<registry, financeRuntime, hostRuntime, closes, raced>>

\* The current await of a start ends well.
Becomes(a, phase, clients) ==
  start' = [start EXCEPT ![a].phase = phase, ![a].clients = clients]

FinanceClientStarted(a) ==
  /\ start[a].phase = "starting"
  /\ Becomes(a, "discovering", {"finance"})
  /\ UNCHANGED <<registry, last, manager, closes, raced>>

FinanceUp(a) ==
  /\ start[a].phase = "discovering"
  /\ Becomes(a, "up", {"finance"})
  /\ registry' = [registry EXCEPT ![a] = {"finance"}]
  /\ financeRuntime' = a
  /\ UNCHANGED <<last, financePromise, hostPromise, hostRuntime, closes, raced>>

ExtensionBegins(a) ==
  /\ start[a].phase = "waiting"
  /\ start[start[a].base].phase = "up"
  /\ start' = [start EXCEPT ![a].phase = "filesystem",
                            ![a].on = {a} \cup start[start[a].base].on]
  /\ UNCHANGED <<registry, last, manager, closes, raced>>

FilesystemStarted(a) ==
  /\ start[a].phase = "filesystem"
  /\ Becomes(a, "git", {"filesystem"})
  /\ UNCHANGED <<registry, last, manager, closes, raced>>

GitStarted(a) ==
  /\ start[a].phase = "git"
  /\ Becomes(a, "registerFilesystem", {"filesystem", "git"})
  /\ UNCHANGED <<registry, last, manager, closes, raced>>

\* registerServer: all of a server's tools or none; a server or a tool that is
\* there already is refused (FailExtension).
FilesystemRegistered(a) ==
  /\ start[a].phase = "registerFilesystem"
  /\ "filesystem" \notin registry[Root(a)]
  /\ registry' = [registry EXCEPT ![Root(a)] = @ \cup {"filesystem"}]
  /\ Becomes(a, "registerGit", start[a].clients)
  /\ UNCHANGED <<last, manager, closes, raced>>

\* The last server completes the catalog, and the runtime is published.
HostUp(a) ==
  /\ start[a].phase = "registerGit"
  /\ "git" \notin registry[Root(a)]
  /\ registry' = [registry EXCEPT ![Root(a)] = @ \cup {"git"}]
  /\ Becomes(a, "up", start[a].clients)
  /\ hostRuntime' = a
  /\ financeRuntime' = a
  /\ UNCHANGED <<last, financePromise, hostPromise, closes, raced>>

-----------------------------------------------------------------------------
(* Failing: the catch blocks, which unregister, close what was started,    *)
(* and, in the manager, forget the promise.                                *)

\* Broken variant: the registry keeps the tools of the servers it closes.
FailExtensionRegistered(a) ==
  /\ start[a].phase \in HostPhases \ {"waiting"}
  /\ Becomes(a, "cleaning", start[a].clients)
  /\ UNCHANGED <<registry, last, manager, closes, raced>>

FailExtension(a) ==
  /\ start[a].phase \in HostPhases \ {"waiting"}
  /\ registry' = [registry EXCEPT ![Root(a)] = @ \ {"git", "filesystem"}]
  /\ Becomes(a, "cleaning", start[a].clients)
  /\ UNCHANGED <<last, manager, closes, raced>>

FailFinance(a) ==
  /\ start[a].phase \in FinancePhases
  /\ Becomes(a, "cleaning", start[a].clients)
  /\ UNCHANGED <<registry, last, manager, closes, raced>>

\* The clients are closed; the promise is rejected, and forgotten if it is
\* still the manager's.
Failed(a) ==
  /\ \/ start[a].phase = "cleaning"
     \/ start[a].phase = "waiting" /\ start[start[a].base].phase = "failed"
  /\ Becomes(a, "failed", {})
  /\ financePromise' = IF financePromise = a THEN 0 ELSE financePromise
  /\ hostPromise' = IF hostPromise = a THEN 0 ELSE hostPromise
  /\ UNCHANGED <<registry, last, financeRuntime, hostRuntime, closes, raced>>

-----------------------------------------------------------------------------
(* close(), on SIGINT and SIGTERM: whatever is published is closed, and    *)
(* everything is forgotten; a start in flight does not notice.             *)

Owned == IF hostRuntime # 0 THEN hostRuntime ELSE financeRuntime
OwnedStarts == IF Owned = 0 THEN {} ELSE start[Owned].on

\* Broken variant: only what the Finance runtime started is closed.
CloseFinanceOnly ==
  /\ closes < MaxCloses
  /\ closes' = closes + 1
  /\ raced' = (raced \/ \E a \in Starts : InFlight(a))
  /\ start' = [a \in Starts |->
                 IF a \in OwnedStarts /\ start[a].kind = "finance"
                 THEN [start[a] EXCEPT !.clients = {}] ELSE start[a]]
  /\ financePromise' = 0 /\ financeRuntime' = 0
  /\ hostPromise' = 0 /\ hostRuntime' = 0
  /\ UNCHANGED <<registry, last>>

CloseRuntime ==
  /\ closes < MaxCloses
  /\ closes' = closes + 1
  /\ raced' = (raced \/ \E a \in Starts : InFlight(a))
  /\ start' = [a \in Starts |->
                 IF a \in OwnedStarts THEN [start[a] EXCEPT !.clients = {}] ELSE start[a]]
  /\ financePromise' = 0 /\ financeRuntime' = 0
  /\ hostPromise' = 0 /\ hostRuntime' = 0
  /\ UNCHANGED <<registry, last>>

-----------------------------------------------------------------------------
StartProceeds(a) ==
  \/ FinanceClientStarted(a) \/ FinanceUp(a) \/ ExtensionBegins(a)
  \/ FilesystemStarted(a) \/ GitStarted(a) \/ FilesystemRegistered(a) \/ HostUp(a)
  \/ FailFinance(a) \/ FailExtension(a) \/ Failed(a)

RuntimeNext ==
  \/ GetFinance
  \/ \E p \in Starts : GetHost(p)
  \/ CloseRuntime
  \/ \E a \in Starts : StartProceeds(a)

RuntimeSpec == RuntimeInit /\ [][RuntimeNext]_runtimeVars

-----------------------------------------------------------------------------
(* Properties.                                                             *)

RuntimeTypes ==
  /\ start \in [Starts -> StartRecords]
  /\ \A a \in Starts : start[a].phase = "waiting" => start[a].base # 0
  /\ registry \in [Starts -> SUBSET Servers]
  /\ last \in 0 .. MaxStarts
  /\ financePromise \in 0 .. MaxStarts /\ financeRuntime \in 0 .. MaxStarts
  /\ hostPromise \in 0 .. MaxStarts /\ hostRuntime \in 0 .. MaxStarts
  /\ closes \in 0 .. MaxCloses
  /\ raced \in BOOLEAN

\* One runtime per process: however requests of the dashboard and of the chat
\* overlap, fail and are repeated, each server is started once at a time.
OneClientPerServer ==
  ~raced => \A a, b \in Starts : start[a].clients \cap start[b].clients # {} => a = b

\* Nothing is left running that close() would not stop: each client belongs to
\* the runtime the manager holds or to a start in flight.  (A close() that
\* overlaps a start breaks this: the start publishes what nobody closes.)
NothingIsOrphaned ==
  ~raced => \A a \in Starts : start[a].clients # {} => InFlight(a) \/ a \in OwnedStarts

\* The two together: the servers that run are those of one runtime, and no more.
ServersFollowTheRuntime == OneClientPerServer /\ NothingIsOrphaned

\* A runtime in use offers no tool whose server it closed, and the chat's
\* runtime offers the tools of all three.
CatalogIsAlive ==
  ~raced =>
    /\ \A a \in OwnedStarts : start[a].kind = "finance" =>
         \A s \in registry[a] : \E b \in Starts : a \in start[b].on /\ s \in start[b].clients
    /\ hostRuntime # 0 => registry[Root(hostRuntime)] = Servers
=============================================================================
