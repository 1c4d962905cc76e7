--------------------------- MODULE WebChatProofs ----------------------------
(***************************************************************************)
(* Theorems about WebRuntime and WebChat.  First the runtime by itself,    *)
(* for any number of starts and closes: each server has one client at      *)
(* most, close() stops whatever runs, and the catalog is that of the       *)
(* servers that run.  All three are about processes in which no close()    *)
(* overlapped a start (raced), and so is everything in that part but the   *)
(* types.  Then the Host around it, for any number of requests, sessions,  *)
(* proposals and restarts: an operation is started at most once, the cards *)
(* on the screen can be relied upon, and a click runs its card.            *)
(***************************************************************************)
EXTENDS WebChat, TLAPS

-----------------------------------------------------------------------------
(* The web runtime (module WebRuntime).                                    *)

Extending == HostPhases \ {"waiting"}

(* Starts in the order of their creation, each with what its kind has.     *)
ShapeOf(a) ==
  /\ a > last => start[a] = NoStart /\ registry[a] = {}
  /\ start[a].kind = "none" => start[a].phase = "none"
  /\ start[a].kind = "finance" =>
       /\ start[a].phase \in FinancePhases \cup {"cleaning", "up", "failed"}
       /\ start[a].on = {a}
  /\ start[a].kind = "host" =>
       /\ start[a].phase \in HostPhases \cup {"cleaning", "up", "failed"}
       /\ start[a].base \in Starts
       /\ start[start[a].base].kind = "finance"
       /\ start[a].phase \in Extending \cup {"cleaning", "up"} =>
            /\ start[a].on = {a, start[a].base}
            /\ start[start[a].base].phase = "up"

Shaped == \A a \in Starts : ShapeOf(a)

(* The promises are those of the starts in flight, and of what is up; a    *)
(* Host start whose Finance start failed has yet to notice.                *)
Promised ==
  /\ \A a \in Starts : InFlight(a) =>
       a = IF start[a].kind = "finance" THEN financePromise ELSE hostPromise
  /\ financePromise # 0 =>
       start[financePromise].kind = "finance" /\ start[financePromise].phase # "failed"
  /\ hostPromise # 0 =>
       /\ start[hostPromise].kind = "host" /\ start[hostPromise].phase # "failed"
       /\ \/ start[hostPromise].base = financePromise
          \/ /\ start[hostPromise].phase = "waiting"
             /\ start[start[hostPromise].base].phase = "failed"

IsUp(p) == p # 0 /\ start[p].phase = "up"

(* What is published is what the promises are fulfilled with.              *)
Published ==
  /\ hostRuntime = IF IsUp(hostPromise) THEN hostPromise ELSE 0
  /\ financeRuntime = IF IsUp(hostPromise) THEN hostPromise
                      ELSE IF IsUp(financePromise) THEN financePromise ELSE 0

(* Who has which clients.                                                  *)
Connected ==
  \A a \in Starts :
    /\ start[a].clients \subseteq
         IF start[a].kind = "finance" THEN {"finance"} ELSE {"filesystem", "git"}
    /\ start[a].phase \in {"none", "waiting", "failed"} => start[a].clients = {}
    /\ start[a].phase = "up" /\ a \notin {financePromise, hostPromise} => start[a].clients = {}
    /\ a = financePromise /\ start[a].phase = "up" => "finance" \in start[a].clients
    /\ \/ start[a].phase \in {"registerFilesystem", "registerGit"}
       \/ a = hostPromise /\ start[a].phase = "up"
       => {"filesystem", "git"} \subseteq start[a].clients

(* The registry has the servers whose registration came about.             *)
Cataloged ==
  financePromise # 0 =>
    /\ start[financePromise].phase # "up" => registry[financePromise] = {}
    /\ start[financePromise].phase = "up" =>
         /\ "finance" \in registry[financePromise]
         /\ "filesystem" \in registry[financePromise] <=>
              hostPromise # 0 /\ start[hostPromise].phase \in {"registerGit", "up"}
         /\ "git" \in registry[financePromise] <=> IsUp(hostPromise)

Tidy == Shaped /\ Promised /\ Published /\ Connected /\ Cataloged

RInv == RuntimeTypes /\ (raced \/ Tidy)

Phases == {"none", "cleaning", "up", "failed"} \cup FinancePhases \cup HostPhases

LEMMA InitEstablishes == RuntimeInit => RInv
<1>1. SUFFICES ASSUME RuntimeInit
               PROVE  RInv
  OBVIOUS
<1>2. NoStart \in StartRecords
  BY MaxStartsAssumption DEF NoStart, StartRecords
<1>3. RuntimeTypes
  <2>1. start \in [Starts -> StartRecords] /\ registry \in [Starts -> SUBSET Servers]
    BY <1>1, <1>2 DEF RuntimeInit
  <2>2. /\ last \in 0 .. MaxStarts /\ closes \in 0 .. MaxCloses /\ raced \in BOOLEAN
        /\ financePromise \in 0 .. MaxStarts /\ financeRuntime \in 0 .. MaxStarts
        /\ hostPromise \in 0 .. MaxStarts /\ hostRuntime \in 0 .. MaxStarts
    <3>1. 0 \in 0 .. MaxStarts /\ 0 \in 0 .. MaxCloses
      BY MaxStartsAssumption, MaxClosesAssumption
    <3>2. raced \in BOOLEAN
      BY <1>1 DEF RuntimeInit
    <3>3. QED
      BY <1>1, <3>1, <3>2 DEF RuntimeInit
  <2>3. \A a \in Starts : start[a].phase # "waiting"
    BY <1>1 DEF RuntimeInit, NoStart
  <2>4. QED
    BY <2>1, <2>2, <2>3 DEF RuntimeTypes
<1>4. \A a \in Starts : start[a] = NoStart /\ registry[a] = {}
  BY <1>1 DEF RuntimeInit
<1>5. Shaped /\ Promised /\ Connected
  BY <1>1, <1>4 DEF RuntimeInit, Shaped, ShapeOf, Promised, Connected, NoStart, InFlight,
     FinancePhases, HostPhases
<1>6. Published /\ Cataloged
  BY <1>1 DEF RuntimeInit, Published, Cataloged, IsUp
<1>7. QED
  BY <1>3, <1>5, <1>6 DEF RInv, Tidy

(* What a change of phase leaves alone.                                    *)
LEMMA Becoming ==
  ASSUME RuntimeTypes, NEW a \in Starts, NEW phase \in Phases, NEW clients \in SUBSET Servers,
         Becomes(a, phase, clients)
  PROVE  /\ start' \in [Starts -> StartRecords]
         /\ \A b \in Starts :
              /\ start'[b].kind = start[b].kind
              /\ start'[b].base = start[b].base
              /\ start'[b].on = start[b].on
              /\ start'[b].phase = IF b = a THEN phase ELSE start[b].phase
              /\ start'[b].clients = IF b = a THEN clients ELSE start[b].clients
              /\ b # a => start'[b] = start[b]
<1> DEFINE new == [start[a] EXCEPT !.phase = phase, !.clients = clients]
<1>1. start' = [start EXCEPT ![a] = new]
  BY DEF Becomes, RuntimeTypes
<1>2. start[a] \in StartRecords
  BY DEF RuntimeTypes
<1>3. /\ new \in StartRecords
      /\ new.kind = start[a].kind /\ new.base = start[a].base /\ new.on = start[a].on
      /\ new.phase = phase /\ new.clients = clients
  BY <1>2 DEF StartRecords, Phases
<1> HIDE DEF new
<1>4. QED
  BY <1>1, <1>3 DEF RuntimeTypes

(* The Finance runtime at the bottom of an extension.                      *)
LEMMA RootIsBase ==
  ASSUME RuntimeTypes, Shaped, NEW a \in Starts, start[a].kind = "host",
         start[a].on = {a, start[a].base}
  PROVE  Root(a) = start[a].base
BY DEF Root, Shaped, ShapeOf

LEMMA StartKinds ==
  ASSUME RuntimeTypes, Shaped, NEW a \in Starts
  PROVE  /\ start[a].phase \in FinancePhases => start[a].kind = "finance"
         /\ start[a].phase \in HostPhases => start[a].kind = "host"
         /\ start[a].phase # "none" => start[a].kind \in {"finance", "host"} /\ ~(a > last)
BY DEF Shaped, ShapeOf, RuntimeTypes, StartRecords, NoStart, FinancePhases, HostPhases

LEMMA PromiseTypes ==
  ASSUME RuntimeTypes
  PROVE  /\ last \in Nat /\ last <= MaxStarts
         /\ financePromise \in 0 .. MaxStarts /\ hostPromise \in 0 .. MaxStarts
         /\ financePromise # 0 => financePromise \in Starts
         /\ hostPromise # 0 => hostPromise \in Starts
         /\ financeRuntime \in 0 .. MaxStarts /\ hostRuntime \in 0 .. MaxStarts
BY MaxStartsAssumption DEF RuntimeTypes, Starts

(* Starts change in P only, where they keep what others rely upon.         *)
LEMMA ShapeExtends ==
  ASSUME Shaped, NEW P \in SUBSET Starts,
         \A q \in Starts \ P :
           start'[q] = start[q] /\ (q > last' => q > last /\ registry'[q] = registry[q]),
         \A q \in P :
           /\ start[q].kind = "finance" => start'[q].kind = "finance"
           /\ start[q].phase = "up" => start'[q].phase = "up"
           /\ ShapeOf(q)'
  PROVE  Shaped'
<1>1. SUFFICES ASSUME NEW q \in Starts \ P
               PROVE  ShapeOf(q)'
  BY DEF Shaped
<1>2. ShapeOf(q) /\ start'[q] = start[q]
  BY <1>1 DEF Shaped
<1>3. ASSUME start[q].kind = "host"
      PROVE  /\ start'[start[q].base].kind = "finance"
             /\ start[start[q].base].phase = "up" => start'[start[q].base].phase = "up"
  BY <1>2, <1>3 DEF ShapeOf
<1>4. QED
  BY <1>1, <1>2, <1>3 DEF ShapeOf

(* A change of phase within its kind keeps the shape.                      *)
LEMMA ShapeKept ==
  ASSUME RuntimeTypes, Shaped, NEW a \in Starts, NEW phase,
         \A q \in Starts :
           /\ start'[q].kind = start[q].kind
           /\ start'[q].base = start[q].base
           /\ start'[q].on = start[q].on
           /\ start'[q].phase = IF q = a THEN phase ELSE start[q].phase
           /\ q # a => start'[q] = start[q],
         last' = last, \A q \in Starts : q > last => registry'[q] = {},
         start[a].phase \notin {"none", "up"},
         start[a].kind = "finance" => phase \in FinancePhases \cup {"cleaning", "up", "failed"},
         start[a].kind = "host" =>
           /\ phase \in HostPhases \cup {"cleaning", "up", "failed"}
           /\ start[a].phase \notin Extending => phase = "failed"
  PROVE  Shaped'
<1>1. ~(a > last) /\ start[a].kind # "none"
  BY StartKinds
<1>2. SUFFICES ASSUME NEW q \in Starts
               PROVE  /\ q > last => start'[q] = NoStart /\ registry'[q] = {}
                      /\ start'[q].kind = "none" => start'[q].phase = "none"
                      /\ start'[q].kind = "finance" =>
                           /\ start'[q].phase \in FinancePhases \cup {"cleaning", "up", "failed"}
                           /\ start'[q].on = {q}
                      /\ start'[q].kind = "host" =>
                           /\ start'[q].phase \in HostPhases \cup {"cleaning", "up", "failed"}
                           /\ start'[q].base \in Starts
                           /\ start'[start'[q].base].kind = "finance"
                           /\ start'[q].phase \in Extending \cup {"cleaning", "up"} =>
                                /\ start'[q].on = {q, start'[q].base}
                                /\ start'[start'[q].base].phase = "up"
  BY DEF Shaped, ShapeOf, Extending, FinancePhases, HostPhases
<1>3. /\ q > last => start'[q] = NoStart /\ registry'[q] = {}
      /\ start'[q].kind = "none" => start'[q].phase = "none"
      /\ start'[q].kind = "finance" =>
           /\ start'[q].phase \in FinancePhases \cup {"cleaning", "up", "failed"}
           /\ start'[q].on = {q}
  BY <1>1 DEF Shaped, ShapeOf
<1>4. ASSUME start[q].kind = "host"
      PROVE  /\ start'[q].phase \in HostPhases \cup {"cleaning", "up", "failed"}
             /\ start[q].base \in Starts
             /\ start'[start[q].base].kind = "finance"
  BY <1>4 DEF Shaped, ShapeOf
<1>5. ASSUME start[q].kind = "host", start'[q].phase \in Extending \cup {"cleaning", "up"}
      PROVE  /\ start[q].on = {q, start[q].base}
             /\ start'[start[q].base].phase = "up"
  <2>1. start[q].phase \in Extending \cup {"cleaning", "up"}
    BY <1>5 DEF Extending, HostPhases
  <2>2. start[q].on = {q, start[q].base} /\ start[start[q].base].phase = "up"
        /\ start[q].base \in Starts
    BY <1>5, <2>1 DEF Shaped, ShapeOf
  <2>3. QED
    BY <2>2
<1>6. QED
  BY <1>3, <1>4, <1>5

(* A Finance start in flight is the one that was promised, and nothing is  *)
(* built on it yet.                                                        *)
LEMMA FinanceInFlight ==
  ASSUME RuntimeTypes, Tidy, NEW a \in Starts, start[a].phase \in FinancePhases
  PROVE  /\ a = financePromise /\ a # hostPromise /\ start[a].kind = "finance" /\ ~(a > last)
         /\ hostPromise # 0 => start[hostPromise].phase \notin Extending \cup {"up"}
<1>1. start[a].kind = "finance" /\ ~(a > last)
  BY StartKinds DEF Tidy, FinancePhases
<1>2. a = financePromise
  BY <1>1 DEF Tidy, Promised, InFlight
<1>3. a # hostPromise
  BY <1>1, PromiseTypes DEF Tidy, Promised, Starts
<1>4. ASSUME hostPromise # 0, start[hostPromise].phase \in Extending \cup {"up"}
      PROVE  FALSE
  <2>1. hostPromise \in Starts /\ start[hostPromise].kind = "host"
    BY <1>4, PromiseTypes DEF Tidy, Promised
  <2>2. start[hostPromise].base = financePromise
    BY <1>4 DEF Tidy, Promised, Extending
  <2>3. start[financePromise].phase = "up"
    BY <1>4, <2>1, <2>2 DEF Tidy, Shaped, ShapeOf
  <2>4. QED
    BY <1>2, <2>3 DEF FinancePhases
<1>5. QED
  BY <1>1, <1>2, <1>3, <1>4

(* An extension in flight is the one that was promised, of the Finance     *)
(* runtime that was.                                                       *)
LEMMA ExtensionInFlight ==
  ASSUME RuntimeTypes, Tidy, NEW a \in Starts, start[a].phase \in Extending
  PROVE  /\ a = hostPromise /\ a # financePromise /\ start[a].kind = "host" /\ ~(a > last)
         /\ financePromise \in Starts /\ start[a].base = financePromise
         /\ start[a].on = {a, financePromise} /\ start[financePromise].phase = "up"
         /\ start[financePromise].kind = "finance"
         /\ Root(a) = financePromise
<1>1. start[a].kind = "host" /\ ~(a > last)
  BY StartKinds DEF Tidy, Extending, HostPhases
<1>2. a = hostPromise
  BY <1>1 DEF Tidy, Promised, InFlight, Extending
<1>3. start[a].base = financePromise
  BY <1>1, <1>2, PromiseTypes DEF Tidy, Promised, Extending, Starts
<1>4. /\ start[a].base \in Starts /\ start[start[a].base].kind = "finance"
      /\ start[a].on = {a, start[a].base} /\ start[start[a].base].phase = "up"
  BY <1>1 DEF Tidy, Shaped, ShapeOf
<1>5. Root(a) = financePromise
  BY <1>1, <1>3, <1>4, RootIsBase DEF Tidy
<1>6. QED
  BY <1>1, <1>2, <1>3, <1>4, <1>5

-----------------------------------------------------------------------------
LEMMA FinanceClientStartedKept ==
  ASSUME RuntimeTypes, NEW a \in Starts, FinanceClientStarted(a)
  PROVE  RuntimeTypes' /\ (Tidy /\ ~raced' => Tidy')
<1> USE PromiseTypes, MaxStartsAssumption
<1>a. /\ start[a].phase = "starting"
      /\ UNCHANGED <<registry, last, financePromise, financeRuntime, hostPromise, hostRuntime, closes, raced>>
  BY DEF FinanceClientStarted, manager
<1>b. /\ start' \in [Starts -> StartRecords]
      /\ \A q \in Starts :
           /\ start'[q].kind = start[q].kind
           /\ start'[q].base = start[q].base
           /\ start'[q].on = start[q].on
           /\ start'[q].phase = IF q = a THEN "discovering" ELSE start[q].phase
           /\ start'[q].clients = IF q = a THEN {"finance"} ELSE start[q].clients
           /\ q # a => start'[q] = start[q]
  <2>1. {"finance"} \in SUBSET Servers /\ "discovering" \in Phases
    BY DEF RuntimeTypes, StartRecords, Servers, Phases, FinancePhases, HostPhases
  <2>2. QED
    BY <2>1, Becoming DEF FinanceClientStarted
<1>1. RuntimeTypes'
  BY <1>a, <1>b DEF RuntimeTypes
<1>2. ASSUME Tidy, ~raced'
      PROVE  Tidy'
  <2> USE DEF FinancePhases, HostPhases
  <2>a. /\ start[a].phase \in FinancePhases => start[a].kind = "finance"
        /\ start[a].phase \in HostPhases => start[a].kind = "host"
        /\ start[a].phase # "none" => ~(a > last)
    BY <1>2, StartKinds DEF Tidy
  <2>r. last' = last /\ \A q \in Starts : q > last => registry'[q] = {}
    BY <1>a, <1>2 DEF Tidy, Shaped, ShapeOf
  <2>d. start[a].phase = "starting"
    BY <1>a
  <2>1. Shaped'
    <3>1. /\ start[a].phase \notin {"none", "up"}
          /\ start[a].kind = "finance" => "discovering" \in FinancePhases \cup {"cleaning", "up", "failed"}
          /\ start[a].kind = "host" =>
               /\ "discovering" \in HostPhases \cup {"cleaning", "up", "failed"}
               /\ start[a].phase \notin Extending => "discovering" = "failed"
      BY <1>b, <2>a, <2>d, <2>r DEF Extending
    <3>2. QED
      BY <1>b, <2>r, <3>1, <1>2, ShapeKept DEF Tidy
  <2>2. Promised'
    BY <1>a, <1>b, <2>a, <1>2 DEF Tidy, RuntimeTypes, Shaped, ShapeOf, Promised, InFlight
  <2>3. Published'
    BY <1>a, <1>b, <2>a, <1>2 DEF Tidy, Shaped, ShapeOf, Promised, Published, IsUp
  <2>4. Connected'
    BY <1>a, <1>b, <2>a, <1>2 DEF Tidy, Shaped, ShapeOf, Promised, Connected
  <2>5. Cataloged'
    BY <1>a, <1>b, <2>a, <1>2 DEF Tidy, RuntimeTypes, Shaped, ShapeOf, Promised, Cataloged, IsUp
  <2>6. QED
    BY <2>1, <2>2, <2>3, <2>4, <2>5 DEF Tidy
<1>3. QED
  BY <1>1, <1>2

LEMMA FilesystemStartedKept ==
  ASSUME RuntimeTypes, NEW a \in Starts, FilesystemStarted(a)
  PROVE  RuntimeTypes' /\ (Tidy /\ ~raced' => Tidy')
<1> USE PromiseTypes, MaxStartsAssumption
<1>a. /\ start[a].phase = "filesystem"
      /\ UNCHANGED <<registry, last, financePromise, financeRuntime, hostPromise, hostRuntime, closes, raced>>
  BY DEF FilesystemStarted, manager
<1>b. /\ start' \in [Starts -> StartRecords]
      /\ \A q \in Starts :
           /\ start'[q].kind = start[q].kind
           /\ start'[q].base = start[q].base
           /\ start'[q].on = start[q].on
           /\ start'[q].phase = IF q = a THEN "git" ELSE start[q].phase
           /\ start'[q].clients = IF q = a THEN {"filesystem"} ELSE start[q].clients
           /\ q # a => start'[q] = start[q]
  <2>1. {"filesystem"} \in SUBSET Servers /\ "git" \in Phases
    BY DEF RuntimeTypes, StartRecords, Servers, Phases, FinancePhases, HostPhases
  <2>2. QED
    BY <2>1, Becoming DEF FilesystemStarted
<1>1. RuntimeTypes'
  BY <1>a, <1>b DEF RuntimeTypes
<1>2. ASSUME Tidy, ~raced'
      PROVE  Tidy'
  <2> USE DEF FinancePhases, HostPhases
  <2>a. /\ start[a].phase \in FinancePhases => start[a].kind = "finance"
        /\ start[a].phase \in HostPhases => start[a].kind = "host"
        /\ start[a].phase # "none" => ~(a > last)
    BY <1>2, StartKinds DEF Tidy
  <2>r. last' = last /\ \A q \in Starts : q > last => registry'[q] = {}
    BY <1>a, <1>2 DEF Tidy, Shaped, ShapeOf
  <2>d. start[a].phase = "filesystem"
    BY <1>a
  <2>1. Shaped'
    <3>1. /\ start[a].phase \notin {"none", "up"}
          /\ start[a].kind = "finance" => "git" \in FinancePhases \cup {"cleaning", "up", "failed"}
          /\ start[a].kind = "host" =>
               /\ "git" \in HostPhases \cup {"cleaning", "up", "failed"}
               /\ start[a].phase \notin Extending => "git" = "failed"
      BY <1>b, <2>a, <2>d, <2>r DEF Extending
    <3>2. QED
      BY <1>b, <2>r, <3>1, <1>2, ShapeKept DEF Tidy
  <2>2. Promised'
    BY <1>a, <1>b, <2>a, <1>2 DEF Tidy, RuntimeTypes, Shaped, ShapeOf, Promised, InFlight
  <2>3. Published'
    BY <1>a, <1>b, <2>a, <1>2 DEF Tidy, Shaped, ShapeOf, Promised, Published, IsUp
  <2>4. Connected'
    BY <1>a, <1>b, <2>a, <1>2 DEF Tidy, Shaped, ShapeOf, Promised, Connected
  <2>5. Cataloged'
    BY <1>a, <1>b, <2>a, <1>2 DEF Tidy, RuntimeTypes, Shaped, ShapeOf, Promised, Cataloged, IsUp
  <2>6. QED
    BY <2>1, <2>2, <2>3, <2>4, <2>5 DEF Tidy
<1>3. QED
  BY <1>1, <1>2

LEMMA GitStartedKept ==
  ASSUME RuntimeTypes, NEW a \in Starts, GitStarted(a)
  PROVE  RuntimeTypes' /\ (Tidy /\ ~raced' => Tidy')
<1> USE PromiseTypes, MaxStartsAssumption
<1>a. /\ start[a].phase = "git"
      /\ UNCHANGED <<registry, last, financePromise, financeRuntime, hostPromise, hostRuntime, closes, raced>>
  BY DEF GitStarted, manager
<1>b. /\ start' \in [Starts -> StartRecords]
      /\ \A q \in Starts :
           /\ start'[q].kind = start[q].kind
           /\ start'[q].base = start[q].base
           /\ start'[q].on = start[q].on
           /\ start'[q].phase = IF q = a THEN "registerFilesystem" ELSE start[q].phase
           /\ start'[q].clients = IF q = a THEN {"filesystem", "git"} ELSE start[q].clients
           /\ q # a => start'[q] = start[q]
  <2>1. {"filesystem", "git"} \in SUBSET Servers /\ "registerFilesystem" \in Phases
    BY DEF RuntimeTypes, StartRecords, Servers, Phases, FinancePhases, HostPhases
  <2>2. QED
    BY <2>1, Becoming DEF GitStarted
<1>1. RuntimeTypes'
  BY <1>a, <1>b DEF RuntimeTypes
<1>2. ASSUME Tidy, ~raced'
      PROVE  Tidy'
  <2> USE DEF FinancePhases, HostPhases
  <2>a. /\ start[a].phase \in FinancePhases => start[a].kind = "finance"
        /\ start[a].phase \in HostPhases => start[a].kind = "host"
        /\ start[a].phase # "none" => ~(a > last)
    BY <1>2, StartKinds DEF Tidy
  <2>r. last' = last /\ \A q \in Starts : q > last => registry'[q] = {}
    BY <1>a, <1>2 DEF Tidy, Shaped, ShapeOf
  <2>d. start[a].phase = "git"
    BY <1>a
  <2>1. Shaped'
    <3>1. /\ start[a].phase \notin {"none", "up"}
          /\ start[a].kind = "finance" => "registerFilesystem" \in FinancePhases \cup {"cleaning", "up", "failed"}
          /\ start[a].kind = "host" =>
               /\ "registerFilesystem" \in HostPhases \cup {"cleaning", "up", "failed"}
               /\ start[a].phase \notin Extending => "registerFilesystem" = "failed"
      BY <1>b, <2>a, <2>d, <2>r DEF Extending
    <3>2. QED
      BY <1>b, <2>r, <3>1, <1>2, ShapeKept DEF Tidy
  <2>2. Promised'
    BY <1>a, <1>b, <2>a, <1>2 DEF Tidy, RuntimeTypes, Shaped, ShapeOf, Promised, InFlight
  <2>3. Published'
    BY <1>a, <1>b, <2>a, <1>2 DEF Tidy, Shaped, ShapeOf, Promised, Published, IsUp
  <2>4. Connected'
    BY <1>a, <1>b, <2>a, <1>2 DEF Tidy, Shaped, ShapeOf, Promised, Connected
  <2>5. Cataloged'
    BY <1>a, <1>b, <2>a, <1>2 DEF Tidy, RuntimeTypes, Shaped, ShapeOf, Promised, Cataloged, IsUp
  <2>6. QED
    BY <2>1, <2>2, <2>3, <2>4, <2>5 DEF Tidy
<1>3. QED
  BY <1>1, <1>2

LEMMA FinanceUpKept ==
  ASSUME RuntimeTypes, NEW a \in Starts, FinanceUp(a)
  PROVE  RuntimeTypes' /\ (Tidy /\ ~raced' => Tidy')
<1> USE PromiseTypes, MaxStartsAssumption
<1>a. /\ start[a].phase = "discovering"
      /\ registry' = [registry EXCEPT ![a] = {"finance"}]
      /\ financeRuntime' = a
      /\ UNCHANGED <<last, financePromise, hostPromise, hostRuntime, closes, raced>>
  BY DEF FinanceUp
<1>c. "finance" \in Servers
  BY DEF Servers
<1>b. /\ start' \in [Starts -> StartRecords]
      /\ \A q \in Starts :
           /\ start'[q].kind = start[q].kind
           /\ start'[q].base = start[q].base
           /\ start'[q].on = start[q].on
           /\ start'[q].phase = IF q = a THEN "up" ELSE start[q].phase
           /\ start'[q].clients = IF q = a THEN {"finance"} ELSE start[q].clients
           /\ q # a => start'[q] = start[q]
  <2>1. {"finance"} \in SUBSET Servers /\ "up" \in Phases
    BY DEF RuntimeTypes, StartRecords, Servers, Phases, FinancePhases, HostPhases
  <2>2. QED
    BY <2>1, Becoming DEF FinanceUp
<1>1. RuntimeTypes'
  <2>1. registry' \in [Starts -> SUBSET Servers]
    BY <1>a, <1>c DEF RuntimeTypes
  <2>2. \A q \in Starts : start'[q].phase = "waiting" => start'[q].base # 0
    BY <1>b DEF RuntimeTypes
  <2>3. /\ last' \in 0 .. MaxStarts /\ financePromise' \in 0 .. MaxStarts
        /\ financeRuntime' \in 0 .. MaxStarts /\ hostPromise' \in 0 .. MaxStarts
        /\ hostRuntime' \in 0 .. MaxStarts /\ closes' \in 0 .. MaxCloses /\ raced' \in BOOLEAN
    BY <1>a DEF RuntimeTypes, Starts
  <2>4. QED
    BY <1>b, <2>1, <2>2, <2>3 DEF RuntimeTypes
<1>2. ASSUME Tidy, ~raced'
      PROVE  Tidy'
  <2> USE DEF FinancePhases, HostPhases
  <2>a. /\ start[a].phase \in FinancePhases => start[a].kind = "finance"
        /\ start[a].phase \in HostPhases => start[a].kind = "host"
        /\ start[a].phase # "none" => ~(a > last)
    BY <1>2, StartKinds DEF Tidy
  <2>b. /\ a = financePromise /\ a # hostPromise /\ start[a].kind = "finance" /\ a # 0
        /\ hostPromise # 0 => start[hostPromise].phase \notin {"registerGit", "up"}
    BY <1>a, <1>2, FinanceInFlight DEF Extending, Starts
  <2>r. last' = last /\ \A q \in Starts : q > last => registry'[q] = {}
    BY <1>a, <2>a, <2>b, <1>2 DEF Tidy, Shaped, ShapeOf, RuntimeTypes, Starts
  <2>d. start[a].phase = "discovering" /\ UNCHANGED <<financePromise, hostPromise>>
    BY <1>a
  <2>e. \A q \in Starts : InFlight(q)' => q # a /\ InFlight(q)
    BY <1>b DEF InFlight
  <2>f. hostPromise # 0 =>
          /\ start'[hostPromise].kind = "host" /\ start'[hostPromise].phase # "failed"
          /\ \/ start'[hostPromise].base = financePromise
             \/ /\ start'[hostPromise].phase = "waiting"
                /\ start'[start'[hostPromise].base].phase = "failed"
    BY <1>b, <2>b, <2>d, <1>2 DEF Tidy, Shaped, ShapeOf, Promised
  <2>g. start'[financePromise].kind = "finance" /\ start'[financePromise].phase # "failed"
    BY <1>b, <2>b
  <2>1. Shaped'
    <3>1. /\ start[a].phase \notin {"none", "up"}
          /\ start[a].kind = "finance" => "up" \in FinancePhases \cup {"cleaning", "up", "failed"}
          /\ start[a].kind = "host" =>
               /\ "up" \in HostPhases \cup {"cleaning", "up", "failed"}
               /\ start[a].phase \notin Extending => "up" = "failed"
      BY <1>b, <2>a, <2>b, <2>d, <2>r DEF Extending
    <3>2. QED
      BY <1>b, <2>r, <3>1, <1>2, ShapeKept DEF Tidy
  <2>2. Promised'
    BY <1>b, <2>b, <2>d, <2>e, <2>f, <2>g, <1>2 DEF Tidy, RuntimeTypes, Shaped, ShapeOf, Promised, InFlight
  <2>3. Published'
    BY <1>a, <1>b, <2>a, <2>b, <1>2 DEF Tidy, Shaped, ShapeOf, Promised, Published, IsUp
  <2>4. Connected'
    BY <1>a, <1>b, <2>a, <2>b, <1>2 DEF Tidy, Shaped, ShapeOf, Promised, Connected
  <2>5. Cataloged'
    <3>1. /\ financePromise' = a /\ a # 0 /\ start'[a].phase = "up"
          /\ hostPromise' = hostPromise /\ hostPromise' # a
          /\ hostPromise' # 0 => start'[hostPromise'].phase \notin {"registerGit", "up"}
      BY <1>a, <1>b, <2>b
    <3>2. registry'[financePromise'] = {"finance"}
      BY <1>a, <3>1 DEF RuntimeTypes
    <3>3. QED
      BY <3>1, <3>2 DEF Cataloged, IsUp
  <2>6. QED
    BY <2>1, <2>2, <2>3, <2>4, <2>5 DEF Tidy
<1>3. QED
  BY <1>1, <1>2

LEMMA FailFinanceKept ==
  ASSUME RuntimeTypes, NEW a \in Starts, FailFinance(a)
  PROVE  RuntimeTypes' /\ (Tidy /\ ~raced' => Tidy')
<1> USE PromiseTypes, MaxStartsAssumption
<1>a. /\ start[a].phase \in FinancePhases
      /\ UNCHANGED <<registry, last, financePromise, financeRuntime, hostPromise, hostRuntime, closes, raced>>
  BY DEF FailFinance, manager
<1>b. /\ start' \in [Starts -> StartRecords]
      /\ \A q \in Starts :
           /\ start'[q].kind = start[q].kind
           /\ start'[q].base = start[q].base
           /\ start'[q].on = start[q].on
           /\ start'[q].phase = IF q = a THEN "cleaning" ELSE start[q].phase
           /\ start'[q].clients = IF q = a THEN start[a].clients ELSE start[q].clients
           /\ q # a => start'[q] = start[q]
  <2>1. start[a].clients \in SUBSET Servers /\ "cleaning" \in Phases
    BY DEF RuntimeTypes, StartRecords, Servers, Phases, FinancePhases, HostPhases
  <2>2. QED
    BY <2>1, Becoming DEF FailFinance
<1>1. RuntimeTypes'
  BY <1>a, <1>b DEF RuntimeTypes
<1>2. ASSUME Tidy, ~raced'
      PROVE  Tidy'
  <2> USE DEF FinancePhases, HostPhases
  <2>a. /\ start[a].phase \in FinancePhases => start[a].kind = "finance"
        /\ start[a].phase \in HostPhases => start[a].kind = "host"
        /\ start[a].phase # "none" => ~(a > last)
    BY <1>2, StartKinds DEF Tidy
  <2>r. last' = last /\ \A q \in Starts : q > last => registry'[q] = {}
    BY <1>a, <1>2 DEF Tidy, Shaped, ShapeOf
  <2>d. start[a].phase \in FinancePhases
    BY <1>a
  <2>1. Shaped'
    <3>1. /\ start[a].phase \notin {"none", "up"}
          /\ start[a].kind = "finance" => "cleaning" \in FinancePhases \cup {"cleaning", "up", "failed"}
          /\ start[a].kind = "host" =>
               /\ "cleaning" \in HostPhases \cup {"cleaning", "up", "failed"}
               /\ start[a].phase \notin Extending => "cleaning" = "failed"
      BY <1>b, <2>a, <2>d, <2>r DEF Extending
    <3>2. QED
      BY <1>b, <2>r, <3>1, <1>2, ShapeKept DEF Tidy
  <2>2. Promised'
    BY <1>a, <1>b, <2>a, <1>2 DEF Tidy, RuntimeTypes, Shaped, ShapeOf, Promised, InFlight
  <2>3. Published'
    BY <1>a, <1>b, <2>a, <1>2 DEF Tidy, Shaped, ShapeOf, Promised, Published, IsUp
  <2>4. Connected'
    BY <1>a, <1>b, <2>a, <1>2 DEF Tidy, Shaped, ShapeOf, Promised, Connected
  <2>5. Cataloged'
    BY <1>a, <1>b, <2>a, <1>2 DEF Tidy, RuntimeTypes, Shaped, ShapeOf, Promised, Cataloged, IsUp
  <2>6. QED
    BY <2>1, <2>2, <2>3, <2>4, <2>5 DEF Tidy
<1>3. QED
  BY <1>1, <1>2

LEMMA FilesystemRegisteredKept ==
  ASSUME RuntimeTypes, NEW a \in Starts, FilesystemRegistered(a)
  PROVE  RuntimeTypes' /\ (Tidy /\ ~raced' => Tidy')
<1> USE PromiseTypes, MaxStartsAssumption
<1>a. /\ start[a].phase = "registerFilesystem"
      /\ registry' = [registry EXCEPT ![Root(a)] = @ \cup {"filesystem"}]
      /\ UNCHANGED <<last, financePromise, financeRuntime, hostPromise, hostRuntime, closes, raced>>
  BY DEF FilesystemRegistered, manager
<1>c. "filesystem" \in Servers
  BY DEF Servers
<1>b. /\ start' \in [Starts -> StartRecords]
      /\ \A q \in Starts :
           /\ start'[q].kind = start[q].kind
           /\ start'[q].base = start[q].base
           /\ start'[q].on = start[q].on
           /\ start'[q].phase = IF q = a THEN "registerGit" ELSE start[q].phase
           /\ start'[q].clients = IF q = a THEN start[a].clients ELSE start[q].clients
           /\ q # a => start'[q] = start[q]
  <2>1. start[a].clients \in SUBSET Servers /\ "registerGit" \in Phases
    BY DEF RuntimeTypes, StartRecords, Servers, Phases, FinancePhases, HostPhases
  <2>2. QED
    BY <2>1, Becoming DEF FilesystemRegistered
<1>1. RuntimeTypes'
  BY ZenonT(40), <1>a, <1>b, <1>c DEF RuntimeTypes
<1>2. ASSUME Tidy, ~raced'
      PROVE  Tidy'
  <2> USE DEF FinancePhases, HostPhases
  <2>a. /\ start[a].phase \in FinancePhases => start[a].kind = "finance"
        /\ start[a].phase \in HostPhases => start[a].kind = "host"
        /\ start[a].phase # "none" => ~(a > last)
    BY <1>2, StartKinds DEF Tidy
  <2>b. /\ a = hostPromise /\ a # financePromise /\ start[a].kind = "host"
        /\ financePromise \in Starts /\ start[a].base = financePromise
        /\ start[a].on = {a, financePromise} /\ start[financePromise].phase = "up"
        /\ start[financePromise].kind = "finance"
        /\ Root(a) = financePromise
        /\ a # 0 /\ financePromise # 0 /\ ~(financePromise > last)
    BY <1>a, <1>2, ExtensionInFlight, StartKinds DEF Tidy, Extending, Starts
  <2>r. last' = last /\ \A q \in Starts : q > last => registry'[q] = {}
    BY <1>a, <2>a, <2>b, <1>2 DEF Tidy, Shaped, ShapeOf, RuntimeTypes, Starts
  <2>d. start[a].phase \in HostPhases \ {"waiting"}
    BY <1>a
  <2>1. Shaped'
    <3>1. /\ start[a].phase \notin {"none", "up"}
          /\ start[a].kind = "finance" => "registerGit" \in FinancePhases \cup {"cleaning", "up", "failed"}
          /\ start[a].kind = "host" =>
               /\ "registerGit" \in HostPhases \cup {"cleaning", "up", "failed"}
               /\ start[a].phase \notin Extending => "registerGit" = "failed"
      BY <1>b, <2>a, <2>b, <2>d, <2>r DEF Extending
    <3>2. QED
      BY <1>b, <2>r, <3>1, <1>2, ShapeKept DEF Tidy
  <2>2. Promised'
    BY <1>a, <1>b, <2>a, <2>b, <1>2 DEF Tidy, RuntimeTypes, Shaped, ShapeOf, Promised, InFlight
  <2>3. Published'
    BY <1>a, <1>b, <2>a, <2>b, <1>2 DEF Tidy, Shaped, ShapeOf, Promised, Published, IsUp
  <2>4. Connected'
    BY <1>a, <1>b, <2>a, <2>b, <1>2 DEF Tidy, Shaped, ShapeOf, Promised, Connected
  <2>5. Cataloged'
    BY <1>a, <1>b, <2>a, <2>b, <1>2 DEF Tidy, RuntimeTypes, Shaped, ShapeOf, Promised, Cataloged, IsUp
  <2>6. QED
    BY <2>1, <2>2, <2>3, <2>4, <2>5 DEF Tidy
<1>3. QED
  BY <1>1, <1>2

LEMMA HostUpKept ==
  ASSUME RuntimeTypes, NEW a \in Starts, HostUp(a)
  PROVE  RuntimeTypes' /\ (Tidy /\ ~raced' => Tidy')
<1> USE PromiseTypes, MaxStartsAssumption
<1>a. /\ start[a].phase = "registerGit"
      /\ registry' = [registry EXCEPT ![Root(a)] = @ \cup {"git"}]
      /\ hostRuntime' = a /\ financeRuntime' = a
      /\ UNCHANGED <<last, financePromise, hostPromise, closes, raced>>
  BY DEF HostUp
<1>c. "git" \in Servers
  BY DEF Servers
<1>b. /\ start' \in [Starts -> StartRecords]
      /\ \A q \in Starts :
           /\ start'[q].kind = start[q].kind
           /\ start'[q].base = start[q].base
           /\ start'[q].on = start[q].on
           /\ start'[q].phase = IF q = a THEN "up" ELSE start[q].phase
           /\ start'[q].clients = IF q = a THEN start[a].clients ELSE start[q].clients
           /\ q # a => start'[q] = start[q]
  <2>1. start[a].clients \in SUBSET Servers /\ "up" \in Phases
    BY DEF RuntimeTypes, StartRecords, Servers, Phases, FinancePhases, HostPhases
  <2>2. QED
    BY <2>1, Becoming DEF HostUp
<1>1. RuntimeTypes'
  <2>1. registry' \in [Starts -> SUBSET Servers]
    BY <1>a, <1>c DEF RuntimeTypes
  <2>2. a \in 0 .. MaxStarts
    BY DEF Starts
  <2>3. QED
    BY <1>a, <1>b, <2>1, <2>2 DEF RuntimeTypes
<1>2. ASSUME Tidy, ~raced'
      PROVE  Tidy'
  <2> USE DEF FinancePhases, HostPhases
  <2>a. /\ start[a].phase \in FinancePhases => start[a].kind = "finance"
        /\ start[a].phase \in HostPhases => start[a].kind = "host"
        /\ start[a].phase # "none" => ~(a > last)
    BY <1>2, StartKinds DEF Tidy
  <2>b. /\ a = hostPromise /\ a # financePromise /\ start[a].kind = "host"
        /\ financePromise \in Starts /\ start[a].base = financePromise
        /\ start[a].on = {a, financePromise} /\ start[financePromise].phase = "up"
        /\ start[financePromise].kind = "finance"
        /\ Root(a) = financePromise
        /\ a # 0 /\ financePromise # 0 /\ ~(financePromise > last)
    BY <1>a, <1>2, ExtensionInFlight, StartKinds DEF Tidy, Extending, Starts
  <2>r. last' = last /\ \A q \in Starts : q > last => registry'[q] = {}
    BY <1>a, <2>a, <2>b, <1>2 DEF Tidy, Shaped, ShapeOf, RuntimeTypes, Starts
  <2>d. start[a].phase \in HostPhases \ {"waiting"}
    BY <1>a
  <2>1. Shaped'
    <3>1. /\ start[a].phase \notin {"none", "up"}
          /\ start[a].kind = "finance" => "up" \in FinancePhases \cup {"cleaning", "up", "failed"}
          /\ start[a].kind = "host" =>
               /\ "up" \in HostPhases \cup {"cleaning", "up", "failed"}
               /\ start[a].phase \notin Extending => "up" = "failed"
      BY <1>b, <2>a, <2>b, <2>d, <2>r DEF Extending
    <3>2. QED
      BY <1>b, <2>r, <3>1, <1>2, ShapeKept DEF Tidy
  <2>2. Promised'
    BY <1>a, <1>b, <2>a, <2>b, <1>2 DEF Tidy, RuntimeTypes, Shaped, ShapeOf, Promised, InFlight
  <2>3. Published'
    BY <1>a, <1>b, <2>a, <2>b, <1>2 DEF Tidy, Shaped, ShapeOf, Promised, Published, IsUp
  <2>4. Connected'
    BY <1>a, <1>b, <2>a, <2>b, <1>2 DEF Tidy, Shaped, ShapeOf, Promised, Connected
  <2>5. Cataloged'
    BY <1>a, <1>b, <2>a, <2>b, <1>2 DEF Tidy, RuntimeTypes, Shaped, ShapeOf, Promised, Cataloged, IsUp
  <2>6. QED
    BY <2>1, <2>2, <2>3, <2>4, <2>5 DEF Tidy
<1>3. QED
  BY <1>1, <1>2

LEMMA FailExtensionKept ==
  ASSUME RuntimeTypes, NEW a \in Starts, FailExtension(a)
  PROVE  RuntimeTypes' /\ (Tidy /\ ~raced' => Tidy')
<1> USE PromiseTypes, MaxStartsAssumption
<1>a. /\ start[a].phase \in HostPhases \ {"waiting"}
      /\ registry' = [registry EXCEPT ![Root(a)] = @ \ {"git", "filesystem"}]
      /\ UNCHANGED <<last, financePromise, financeRuntime, hostPromise, hostRuntime, closes, raced>>
  BY DEF FailExtension, manager
<1>b. /\ start' \in [Starts -> StartRecords]
      /\ \A q \in Starts :
           /\ start'[q].kind = start[q].kind
           /\ start'[q].base = start[q].base
           /\ start'[q].on = start[q].on
           /\ start'[q].phase = IF q = a THEN "cleaning" ELSE start[q].phase
           /\ start'[q].clients = IF q = a THEN start[a].clients ELSE start[q].clients
           /\ q # a => start'[q] = start[q]
  <2>1. start[a].clients \in SUBSET Servers /\ "cleaning" \in Phases
    BY DEF RuntimeTypes, StartRecords, Servers, Phases, FinancePhases, HostPhases
  <2>2. QED
    BY <2>1, Becoming DEF FailExtension
<1>1. RuntimeTypes'
  BY <1>a, <1>b DEF RuntimeTypes
<1>2. ASSUME Tidy, ~raced'
      PROVE  Tidy'
  <2> USE DEF FinancePhases, HostPhases
  <2>a. /\ start[a].phase \in FinancePhases => start[a].kind = "finance"
        /\ start[a].phase \in HostPhases => start[a].kind = "host"
        /\ start[a].phase # "none" => ~(a > last)
    BY <1>2, StartKinds DEF Tidy
  <2>b. /\ a = hostPromise /\ a # financePromise /\ start[a].kind = "host"
        /\ financePromise \in Starts /\ start[a].base = financePromise
        /\ start[a].on = {a, financePromise} /\ start[financePromise].phase = "up"
        /\ start[financePromise].kind = "finance"
        /\ Root(a) = financePromise
        /\ a # 0 /\ financePromise # 0 /\ ~(financePromise > last)
    BY <1>a, <1>2, ExtensionInFlight, StartKinds DEF Tidy, Extending, Starts
  <2>r. last' = last /\ \A q \in Starts : q > last => registry'[q] = {}
    BY <1>a, <2>a, <2>b, <1>2 DEF Tidy, Shaped, ShapeOf, RuntimeTypes, Starts
  <2>d. start[a].phase \in HostPhases \ {"waiting"}
    BY <1>a
  <2>1. Shaped'
    <3>1. /\ start[a].phase \notin {"none", "up"}
          /\ start[a].kind = "finance" => "cleaning" \in FinancePhases \cup {"cleaning", "up", "failed"}
          /\ start[a].kind = "host" =>
               /\ "cleaning" \in HostPhases \cup {"cleaning", "up", "failed"}
               /\ start[a].phase \notin Extending => "cleaning" = "failed"
      BY <1>b, <2>a, <2>b, <2>d, <2>r DEF Extending
    <3>2. QED
      BY <1>b, <2>r, <3>1, <1>2, ShapeKept DEF Tidy
  <2>2. Promised'
    BY <1>a, <1>b, <2>a, <2>b, <1>2 DEF Tidy, RuntimeTypes, Shaped, ShapeOf, Promised, InFlight
  <2>3. Published'
    BY <1>a, <1>b, <2>a, <2>b, <1>2 DEF Tidy, Shaped, ShapeOf, Promised, Published, IsUp
  <2>4. Connected'
    BY <1>a, <1>b, <2>a, <2>b, <1>2 DEF Tidy, Shaped, ShapeOf, Promised, Connected
  <2>5. Cataloged'
    BY <1>a, <1>b, <2>a, <2>b, <1>2 DEF Tidy, RuntimeTypes, Shaped, ShapeOf, Promised, Cataloged, IsUp
  <2>6. QED
    BY <2>1, <2>2, <2>3, <2>4, <2>5 DEF Tidy
<1>3. QED
  BY <1>1, <1>2

LEMMA FailedKept ==
  ASSUME RuntimeTypes, NEW a \in Starts, Failed(a)
  PROVE  RuntimeTypes' /\ (Tidy /\ ~raced' => Tidy')
<1> USE PromiseTypes, MaxStartsAssumption
<1>a. /\ \/ start[a].phase = "cleaning"
         \/ start[a].phase = "waiting" /\ start[start[a].base].phase = "failed"
      /\ financePromise' = IF financePromise = a THEN 0 ELSE financePromise
      /\ hostPromise' = IF hostPromise = a THEN 0 ELSE hostPromise
      /\ UNCHANGED <<registry, last, financeRuntime, hostRuntime, closes, raced>>
  BY DEF Failed
<1>b. /\ start' \in [Starts -> StartRecords]
      /\ \A q \in Starts :
           /\ start'[q].kind = start[q].kind
           /\ start'[q].base = start[q].base
           /\ start'[q].on = start[q].on
           /\ start'[q].phase = IF q = a THEN "failed" ELSE start[q].phase
           /\ start'[q].clients = IF q = a THEN {} ELSE start[q].clients
           /\ q # a => start'[q] = start[q]
  <2>1. {} \in SUBSET Servers /\ "failed" \in Phases
    BY DEF RuntimeTypes, StartRecords, Servers, Phases, FinancePhases, HostPhases
  <2>2. QED
    BY <2>1, Becoming DEF Failed
<1>1. RuntimeTypes'
  BY <1>a, <1>b DEF RuntimeTypes
<1>2. ASSUME Tidy, ~raced'
      PROVE  Tidy'
  <2> USE DEF FinancePhases, HostPhases
  <2>a. /\ start[a].phase \in FinancePhases => start[a].kind = "finance"
        /\ start[a].phase \in HostPhases => start[a].kind = "host"
        /\ start[a].phase # "none" => ~(a > last)
    BY <1>2, StartKinds DEF Tidy
  <2>b. /\ start[a].kind = "finance" => a = financePromise /\ a # hostPromise
        /\ start[a].kind = "host" => a = hostPromise /\ a # financePromise
        /\ start[a].kind \in {"finance", "host"}
    <3>1. InFlight(a) /\ start[a].kind \in {"finance", "host"}
      BY <1>a, <1>2, StartKinds DEF Tidy, InFlight
    <3>2. QED
      BY <3>1, <1>2 DEF Tidy, Promised, Starts
  <2>c. start[a].kind = "finance" /\ hostPromise # 0 => start[hostPromise].phase = "waiting"
    <3>1. SUFFICES ASSUME start[a].kind = "finance", hostPromise # 0,
                          start[hostPromise].phase # "waiting"
                   PROVE  FALSE
      OBVIOUS
    <3>2. start[hostPromise].base = a /\ start[a].phase = "cleaning"
      BY <1>a, <1>2, <2>b, <3>1 DEF Tidy, Shaped, ShapeOf, Promised
    <3>3. start[a].phase = "up"
      BY <1>2, <3>1, <3>2 DEF Tidy, Shaped, ShapeOf, Promised, Extending
    <3>4. QED
      BY <3>2, <3>3
  <2>r. last' = last /\ \A q \in Starts : q > last => registry'[q] = {}
    BY <1>a, <1>2 DEF Tidy, Shaped, ShapeOf
  <2>e. start[a].phase \in {"cleaning", "waiting"}
    BY <1>a
  <2>d. \A q \in Starts \ {a} : q \in {financePromise, hostPromise} => q \in {financePromise, hostPromise}'
    BY <1>a
  <2>f. /\ start'[a].phase = "failed" /\ start'[a].clients = {}
        /\ financePromise' \in {0, financePromise} /\ hostPromise' \in {0, hostPromise}
    BY <1>a, <1>b
  <2>g. \A q \in Starts \ {a} : start'[q] = start[q]
    BY <1>b
  <2>1. Shaped'
    <3>1. /\ start[a].phase \notin {"none", "up"}
          /\ start[a].kind = "finance" => "failed" \in FinancePhases \cup {"cleaning", "up", "failed"}
          /\ start[a].kind = "host" =>
               /\ "failed" \in HostPhases \cup {"cleaning", "up", "failed"}
               /\ start[a].phase \notin Extending => "failed" = "failed"
      BY <1>b, <2>a, <2>e, <2>r DEF Extending
    <3>2. QED
      BY <1>b, <2>r, <3>1, <1>2, ShapeKept DEF Tidy
  <2>2. Promised'
    BY <1>a, <1>b, <2>a, <2>b, <2>c, <1>2 DEF Tidy, RuntimeTypes, Shaped, ShapeOf, Promised, InFlight
  <2>3. Published'
    BY <1>a, <1>b, <2>a, <2>b, <2>c, <1>2 DEF Tidy, Shaped, ShapeOf, Promised, Published, IsUp
  <2>4. Connected'
    <3>1. SUFFICES ASSUME NEW q \in Starts
                   PROVE  /\ start'[q].clients \subseteq
                               IF start'[q].kind = "finance" THEN {"finance"} ELSE {"filesystem", "git"}
                          /\ start'[q].phase \in {"none", "waiting", "failed"} => start'[q].clients = {}
                          /\ start'[q].phase = "up" /\ q \notin {financePromise', hostPromise'} =>
                               start'[q].clients = {}
                          /\ q = financePromise' /\ start'[q].phase = "up" => "finance" \in start'[q].clients
                          /\ \/ start'[q].phase \in {"registerFilesystem", "registerGit"}
                             \/ q = hostPromise' /\ start'[q].phase = "up"
                             => {"filesystem", "git"} \subseteq start'[q].clients
      BY DEF Connected
    <3>2. CASE q = a
      BY <2>f, <3>2
    <3>3. CASE q # a
      <4>1. /\ q = financePromise' => q = financePromise
            /\ q = hostPromise' => q = hostPromise
            /\ q \in {financePromise, hostPromise} => q \in {financePromise', hostPromise'}
            /\ start'[q] = start[q]
        BY <1>a, <2>g, <3>3 DEF Starts
      <4>2. QED
        BY <1>2, <4>1 DEF Tidy, Connected
    <3>4. QED
      BY <3>2, <3>3
  <2>5. Cataloged'
    BY <1>a, <1>b, <2>a, <2>b, <2>c, <1>2 DEF Tidy, RuntimeTypes, Shaped, ShapeOf, Promised, Cataloged, IsUp
  <2>6. QED
    BY <2>1, <2>2, <2>3, <2>4, <2>5 DEF Tidy
<1>3. QED
  BY <1>1, <1>2

LEMMA ExtensionBeginsKept ==
  ASSUME RuntimeTypes, NEW a \in Starts, ExtensionBegins(a)
  PROVE  RuntimeTypes' /\ (Tidy /\ ~raced' => Tidy')
<1> USE PromiseTypes, MaxStartsAssumption
<1>a. /\ start[a].phase = "waiting" /\ start[start[a].base].phase = "up"
      /\ UNCHANGED <<registry, last, closes, raced>>
      /\ UNCHANGED <<financePromise, financeRuntime, hostPromise, hostRuntime>>
  BY DEF ExtensionBegins, manager
<1>b. /\ start' \in [Starts -> StartRecords]
      /\ \A q \in Starts :
           /\ start'[q].kind = start[q].kind
           /\ start'[q].base = start[q].base
           /\ start'[q].phase = IF q = a THEN "filesystem" ELSE start[q].phase
           /\ start'[q].clients = start[q].clients
           /\ q # a => start'[q] = start[q]
      /\ start[a].base \in Starts => start'[a].on = {a} \cup start[start[a].base].on
  <2> DEFINE new == [start[a] EXCEPT !.phase = "filesystem", !.on = {a} \cup start[start[a].base].on]
  <2>1. start' = [start EXCEPT ![a] = new] /\ start[a] \in StartRecords
    BY DEF ExtensionBegins, RuntimeTypes
  <2>2. {a} \cup start[start[a].base].on \in SUBSET Starts
    <3>1. start[a].base \in Starts
      BY <1>a, <2>1 DEF RuntimeTypes, StartRecords, Starts
    <3>2. start[start[a].base] \in StartRecords
      BY <3>1 DEF RuntimeTypes
    <3>3. QED
      BY <3>2 DEF StartRecords
  <2>3. /\ new \in StartRecords
        /\ new.kind = start[a].kind /\ new.base = start[a].base /\ new.clients = start[a].clients
        /\ new.phase = "filesystem" /\ new.on = {a} \cup start[start[a].base].on
    BY <2>1, <2>2 DEF StartRecords, HostPhases
  <2> HIDE DEF new
  <2>4. QED
    BY <2>1, <2>3 DEF RuntimeTypes
<1>1. RuntimeTypes'
  BY <1>a, <1>b DEF RuntimeTypes
<1>2. ASSUME Tidy, ~raced'
      PROVE  Tidy'
  <2> USE DEF FinancePhases, HostPhases
  <2>b. /\ start[a].kind = "host" /\ a = hostPromise /\ a # financePromise /\ a # 0
        /\ start[a].base = financePromise /\ financePromise \in Starts /\ financePromise # 0
        /\ ~(a > last)
    <3>1. start[a].kind = "host" /\ ~(a > last)
      BY <1>a, <1>2, StartKinds DEF Tidy
    <3>2. a = hostPromise
      BY <1>a, <1>2, <3>1 DEF Tidy, Promised, InFlight
    <3>3. QED
      BY <1>a, <1>2, <3>1, <3>2 DEF Tidy, Shaped, ShapeOf, Promised, Starts
  <2>c. /\ start[financePromise].kind = "finance" /\ start[financePromise].phase = "up"
        /\ start'[a].on = {a, start[a].base}
    BY <1>a, <1>b, <1>2, <2>b DEF Tidy, Shaped, ShapeOf
  <2>1. Shaped'
    <3>1. ShapeOf(a)'
      BY <1>a, <1>b, <2>b, <2>c DEF ShapeOf
    <3>2. \A q \in Starts \ {a} :
            start'[q] = start[q] /\ (q > last' => q > last /\ registry'[q] = registry[q])
      BY <1>a, <1>b
    <3>3. {a} \in SUBSET Starts /\ start[a].phase # "up" /\ start[a].kind # "finance"
      BY <1>a, <2>b
    <3>4. QED
      BY <3>1, <3>2, <3>3, <1>2, ShapeExtends DEF Tidy
  <2>2. Promised'
    BY <1>a, <1>b, <2>b, <2>c, <1>2 DEF Tidy, RuntimeTypes, Shaped, ShapeOf, Promised, InFlight
  <2>3. Published'
    BY <1>a, <1>b, <2>b, <2>c, <1>2 DEF Tidy, Shaped, ShapeOf, Promised, Published, IsUp
  <2>4. Connected'
    BY <1>a, <1>b, <2>b, <2>c, <1>2 DEF Tidy, Shaped, ShapeOf, Promised, Connected
  <2>5. Cataloged'
    BY <1>a, <1>b, <2>b, <2>c, <1>2 DEF Tidy, RuntimeTypes, Shaped, ShapeOf, Promised, Cataloged, IsUp
  <2>6. QED
    BY <2>1, <2>2, <2>3, <2>4, <2>5 DEF Tidy
<1>3. QED
  BY <1>1, <1>2

-----------------------------------------------------------------------------
(* New starts.                                                             *)

LEMMA NewTypes ==
  /\ \A a \in Starts : FinanceStart(a) \in StartRecords
  /\ \A b \in Starts : HostStart(b) \in StartRecords
BY MaxStartsAssumption DEF FinanceStart, HostStart, StartRecords, Starts, FinancePhases, HostPhases

(* Starts are created for the promises that were 0.                        *)
LEMMA NewStarts ==
  ASSUME RuntimeTypes, Tidy, hostRuntime = 0,
         NEW P \in SUBSET Starts,
         last' \in Nat, last <= last',
         \A q \in P : q > last /\ q <= last' /\ q \in {financePromise', hostPromise'},
         \A q \in Starts \ P : start'[q] = start[q],
         UNCHANGED <<registry, financeRuntime, hostRuntime>>,
         \/ financePromise' = financePromise
         \/ financePromise = 0 /\ financePromise' \in P
              /\ start'[financePromise'] = FinanceStart(financePromise'),
         \/ hostPromise' = hostPromise
         \/ /\ hostPromise = 0 /\ hostPromise' \in P
            /\ financePromise' \in Starts
            /\ start'[hostPromise'] = HostStart(financePromise')
  PROVE  Tidy'
<1> USE PromiseTypes, MaxStartsAssumption
<1>1. \A q \in P : start[q] = NoStart /\ registry[q] = {} /\ q # financePromise /\ q # hostPromise
  BY DEF Tidy, Shaped, ShapeOf, Promised, NoStart, Starts
<1>2. ASSUME NEW q \in P
      PROVE  \/ /\ q = financePromise' /\ financePromise = 0
                /\ start'[q] = FinanceStart(q)
             \/ /\ q = hostPromise' /\ hostPromise = 0 /\ financePromise' \in Starts
                /\ start'[q] = HostStart(financePromise')
  BY <1>1
<1>3. ASSUME NEW q \in P
      PROVE  /\ start'[q].clients = {} /\ InFlight(q)'
             /\ \/ /\ q = financePromise' /\ start'[q].kind = "finance" /\ start'[q].on = {q}
                   /\ start'[q].phase = "starting"
                \/ /\ q = hostPromise' /\ start'[q].kind = "host" /\ start'[q].base = financePromise'
                   /\ start'[q].phase = "waiting" /\ financePromise' \in Starts
  <2>1. CASE q = financePromise' /\ start'[q] = FinanceStart(q)
    BY <2>1 DEF FinanceStart, InFlight, FinancePhases
  <2>2. CASE q = hostPromise' /\ financePromise' \in Starts /\ start'[q] = HostStart(financePromise')
    BY <2>2 DEF HostStart, InFlight, HostPhases
  <2>3. QED
    BY <1>2, <2>1, <2>2
<1>4. financePromise' # 0 =>
        /\ financePromise' \in Starts /\ start'[financePromise'].kind = "finance"
        /\ start'[financePromise'].phase # "failed"
  <2>1. CASE financePromise' = financePromise /\ financePromise # 0
    <3>1. financePromise \in Starts \ P
      BY <1>1, <2>1
    <3>2. QED
      BY <2>1, <3>1 DEF Tidy, Promised
  <2>2. CASE financePromise' \in P /\ start'[financePromise'] = FinanceStart(financePromise')
    BY <2>2 DEF FinanceStart
  <2>3. QED
    BY <2>1, <2>2
<1>5. hostPromise' # 0 =>
        /\ hostPromise' \in Starts /\ start'[hostPromise'].kind = "host"
        /\ start'[hostPromise'].phase # "failed"
        /\ \/ start'[hostPromise'].base = financePromise'
           \/ /\ start'[hostPromise'].phase = "waiting"
              /\ start'[start'[hostPromise'].base].phase = "failed"
  <2>1. CASE hostPromise' = hostPromise /\ hostPromise # 0
    <3>1. hostPromise \in Starts \ P /\ start'[hostPromise] = start[hostPromise]
      BY <1>1, <2>1
    <3>2. /\ start[hostPromise].kind = "host" /\ start[hostPromise].phase # "failed"
          /\ start[hostPromise].base \in Starts
          /\ start[start[hostPromise].base].kind = "finance"
      BY <2>1, <3>1 DEF Tidy, Promised, Shaped, ShapeOf
    <3>3. start[hostPromise].base \in Starts \ P
      BY <1>1, <3>2 DEF NoStart
    <3>4. start[hostPromise].base = financePromise => financePromise' = financePromise
      BY <3>2 DEF Starts
    <3>5. \/ start[hostPromise].base = financePromise
          \/ start[hostPromise].phase = "waiting" /\ start[start[hostPromise].base].phase = "failed"
      BY <2>1 DEF Tidy, Promised
    <3>6. QED
      BY <2>1, <3>1, <3>2, <3>3, <3>4, <3>5
  <2>2. CASE hostPromise' \in P /\ start'[hostPromise'] = HostStart(financePromise')
    BY <2>2 DEF HostStart
  <2>3. QED
    BY <2>1, <2>2
<1>6. \A q \in Starts \ P : q > last' => q > last
  BY DEF Starts
<1>7. Shaped'
  <2>1. ASSUME NEW q \in P
        PROVE  /\ start[q].kind # "finance" /\ start[q].phase # "up"
               /\ ShapeOf(q)'
    <3>1. ~(q > last') /\ q \in Starts
      BY DEF Starts
    <3>2. start[q].kind # "finance" /\ start[q].phase # "up"
      BY <1>1 DEF NoStart
    <3>3. CASE start'[q].kind = "finance" /\ start'[q].phase = "starting" /\ start'[q].on = {q}
      BY <3>1, <3>2, <3>3 DEF ShapeOf, FinancePhases
    <3>4. CASE start'[q].kind = "host" /\ start'[q].base = financePromise'
                 /\ start'[q].phase = "waiting" /\ financePromise' \in Starts
      <4>1. financePromise' # 0
        BY <3>4 DEF Starts
      <4>2. QED
        BY <1>4, <3>1, <3>2, <3>4, <4>1 DEF ShapeOf, HostPhases, Extending
    <3>5. QED
      BY <1>3, <3>3, <3>4
  <2>2. \A q \in Starts \ P :
          start'[q] = start[q] /\ (q > last' => q > last /\ registry'[q] = registry[q])
    BY <1>6
  <2>3. QED
    BY <2>1, <2>2, ShapeExtends DEF Tidy
<1>8. Promised'
  <2>1. ASSUME NEW q \in Starts, InFlight(q)'
        PROVE  q = IF start'[q].kind = "finance" THEN financePromise' ELSE hostPromise'
    <3>1. CASE q \in P
      BY <1>3, <3>1
    <3>2. CASE q \notin P
      <4>1. start'[q] = start[q] /\ InFlight(q) /\ q # 0
        BY <2>1, <3>2 DEF InFlight, Starts
      <4>2. QED
        BY <4>1 DEF Tidy, Promised
    <3>3. QED
      BY <3>1, <3>2
  <2>2. QED
    BY <1>4, <1>5, <2>1 DEF Promised
<1>9. IsUp(hostPromise)' = IsUp(hostPromise) /\ IsUp(financePromise)' = IsUp(financePromise)
  <2>1. \A q \in P : start'[q].phase # "up"
    BY <1>3
  <2>2. hostPromise # 0 => start'[hostPromise] = start[hostPromise]
    BY <1>1
  <2>3. financePromise # 0 => start'[financePromise] = start[financePromise]
    BY <1>1
  <2>4. QED
    BY <2>1, <2>2, <2>3 DEF IsUp
<1>10. ~IsUp(hostPromise)
  BY DEF Tidy, Published, IsUp
<1>11. Published'
  <2>1. IsUp(financePromise) => financePromise' = financePromise
    BY DEF IsUp
  <2>2. QED
    BY <1>9, <1>10, <2>1 DEF Tidy, Published
<1>12. Connected'
  <2>1. ASSUME NEW q \in P
        PROVE  /\ start'[q].clients = {} /\ start'[q].phase \in {"starting", "waiting"}
               /\ q = financePromise' => start'[q].phase # "up"
    BY <1>3
  <2>2. ASSUME NEW q \in Starts \ P
        PROVE  /\ start'[q] = start[q]
               /\ q = financePromise' => q = financePromise
               /\ q = hostPromise' => q = hostPromise
               /\ q \in {financePromise, hostPromise} => q \in {financePromise', hostPromise'}
    BY DEF Starts
  <2>3. SUFFICES ASSUME NEW q \in Starts
                 PROVE  /\ start'[q].clients \subseteq
                             IF start'[q].kind = "finance" THEN {"finance"} ELSE {"filesystem", "git"}
                        /\ start'[q].phase \in {"none", "waiting", "failed"} => start'[q].clients = {}
                        /\ start'[q].phase = "up" /\ q \notin {financePromise', hostPromise'} =>
                             start'[q].clients = {}
                        /\ q = financePromise' /\ start'[q].phase = "up" => "finance" \in start'[q].clients
                        /\ \/ start'[q].phase \in {"registerFilesystem", "registerGit"}
                           \/ q = hostPromise' /\ start'[q].phase = "up"
                           => {"filesystem", "git"} \subseteq start'[q].clients
    BY DEF Connected
  <2>4. CASE q \in P
    BY <2>1, <2>4
  <2>5. CASE q \notin P
    BY <2>2, <2>5 DEF Tidy, Connected
  <2>6. QED
    BY <2>4, <2>5
<1>13. Cataloged'
  <2>1. SUFFICES ASSUME financePromise' # 0
                 PROVE  /\ start'[financePromise'].phase # "up" => registry[financePromise'] = {}
                        /\ start'[financePromise'].phase = "up" =>
                             /\ "finance" \in registry[financePromise']
                             /\ "filesystem" \in registry[financePromise'] <=>
                                  hostPromise' # 0 /\ start'[hostPromise'].phase \in {"registerGit", "up"}
                             /\ "git" \in registry[financePromise'] <=> IsUp(hostPromise)'
    BY DEF Cataloged
  <2>2. CASE financePromise' \in P
    BY <1>1, <1>3, <2>2
  <2>3. CASE financePromise' \notin P
    <3>1. /\ financePromise' = financePromise /\ financePromise \in Starts
          /\ start'[financePromise] = start[financePromise]
      BY <2>1, <2>3
    <3>2. (hostPromise' # 0 /\ start'[hostPromise'].phase \in {"registerGit", "up"}) <=>
            (hostPromise # 0 /\ start[hostPromise].phase \in {"registerGit", "up"})
      <4>1. CASE hostPromise' = hostPromise
        BY <1>1, <4>1
      <4>2. CASE hostPromise = 0 /\ hostPromise' \in P
        BY <1>3, <4>2
      <4>3. QED
        BY <4>1, <4>2
    <3>3. QED
      BY <1>9, <2>1, <3>1, <3>2 DEF Tidy, Cataloged
  <2>4. QED
    BY <2>2, <2>3
<1>14. QED
  BY <1>7, <1>8, <1>11, <1>12, <1>13 DEF Tidy

LEMMA GetFinanceKept ==
  ASSUME RuntimeTypes, GetFinance
  PROVE  RuntimeTypes' /\ (Tidy /\ ~raced' => Tidy')
<1> DEFINE f == last + 1
<1> USE PromiseTypes, MaxStartsAssumption
<1>1. /\ f \in Starts /\ f # 0 /\ f > last /\ f <= last' /\ last <= last'
      /\ last' = f /\ last' \in Nat /\ last' \in 0 .. MaxStarts
      /\ f \in 0 .. MaxStarts
  BY DEF GetFinance, Starts
<1>2. /\ start' \in [Starts -> StartRecords]
      /\ start'[f] = FinanceStart(f)
      /\ \A q \in Starts : q # f => start'[q] = start[q]
  BY <1>1, NewTypes DEF GetFinance, RuntimeTypes
<1>3. /\ financePromise = 0 /\ hostRuntime = 0 /\ financePromise' = f
      /\ UNCHANGED <<registry, financeRuntime, hostPromise, hostRuntime, closes, raced>>
  BY <1>1 DEF GetFinance, Foundation
<1> HIDE DEF f
<1>4. RuntimeTypes'
  <2>1. start'[f].phase # "waiting"
    BY <1>2 DEF FinanceStart
  <2>2. QED
    BY <1>1, <1>2, <1>3, <2>1 DEF RuntimeTypes
<1>5. ASSUME Tidy
      PROVE  Tidy'
  <2>1. \A q \in {f} : q > last /\ q <= last' /\ q \in {financePromise', hostPromise'}
    BY <1>1, <1>3
  <2>2. \A q \in Starts \ {f} : start'[q] = start[q]
    BY <1>2
  <2>3. {f} \in SUBSET Starts
    BY <1>1
  <2>4. financePromise = 0 /\ financePromise' \in {f}
          /\ start'[financePromise'] = FinanceStart(financePromise')
    BY <1>2, <1>3
  <2>5. QED
    BY <1>1, <1>3, <1>5, <2>1, <2>2, <2>3, <2>4, NewStarts
<1>6. QED
  BY <1>4, <1>5

LEMMA GetHostKept ==
  ASSUME RuntimeTypes, NEW p \in Starts, GetHost(p)
  PROVE  RuntimeTypes' /\ (Tidy /\ ~raced' => Tidy')
<1> USE PromiseTypes, MaxStartsAssumption
<1>1. CASE UNCHANGED runtimeVars
  <2>1. RuntimeTypes'
    BY <1>1 DEF RuntimeTypes, runtimeVars, manager
  <2>2. ASSUME Tidy
        PROVE  Tidy'
    BY <1>1, <2>2 DEF Tidy, Shaped, ShapeOf, Promised, Published, Connected, Cataloged, IsUp,
       InFlight, runtimeVars, manager
  <2>3. QED
    BY <2>1, <2>2
<1>2. CASE /\ hostPromise = 0 /\ Foundation # 0 /\ last < MaxStarts
           /\ p = last + 1
           /\ start' = [start EXCEPT ![p] = HostStart(Foundation)]
           /\ last' = p
           /\ hostPromise' = p
           /\ UNCHANGED <<registry, financePromise, financeRuntime, hostRuntime, closes, raced>>
  <2>1. /\ p > last /\ p <= last' /\ last <= last' /\ last' \in Nat /\ last' \in 0 .. MaxStarts
        /\ p \in 0 .. MaxStarts
    BY <1>2 DEF Starts
  <2>2. Foundation \in Starts /\ Foundation # 0
    BY <1>2 DEF Foundation, Starts
  <2>3. /\ start' \in [Starts -> StartRecords]
        /\ start'[p] = HostStart(Foundation)
        /\ \A q \in Starts : q # p => start'[q] = start[q]
    BY <1>2, <2>2, NewTypes DEF RuntimeTypes
  <2>4. RuntimeTypes'
    <3>1. start'[p].base # 0
      BY <2>2, <2>3 DEF HostStart
    <3>2. QED
      BY <1>2, <2>1, <2>3, <3>1 DEF RuntimeTypes
  <2>5. ASSUME Tidy
        PROVE  Tidy'
    <3>1. hostRuntime = 0 /\ Foundation = financePromise /\ financePromise' \in Starts
      BY <1>2, <2>2, <2>5 DEF Tidy, Published, IsUp, Foundation
    <3>2. \A q \in {p} : q > last /\ q <= last' /\ q \in {financePromise', hostPromise'}
      BY <1>2, <2>1
    <3>3. \A q \in Starts \ {p} : start'[q] = start[q]
      BY <2>3
    <3>4. {p} \in SUBSET Starts
      OBVIOUS
    <3>5. /\ hostPromise = 0 /\ hostPromise' \in {p} /\ financePromise' \in Starts
          /\ start'[hostPromise'] = HostStart(financePromise')
      BY <1>2, <2>3, <3>1
    <3>6. QED
      BY <1>2, <2>1, <2>5, <3>1, <3>2, <3>3, <3>4, <3>5, NewStarts
  <2>6. QED
    BY <2>4, <2>5
<1>3. CASE /\ hostPromise = 0 /\ Foundation = 0 /\ last + 1 < MaxStarts
           /\ p = last + 2
           /\ start' = [start EXCEPT ![last + 1] = FinanceStart(last + 1),
                                     ![p] = HostStart(last + 1)]
           /\ last' = p
           /\ financePromise' = last + 1
           /\ hostPromise' = p
           /\ UNCHANGED <<registry, financeRuntime, hostRuntime, closes, raced>>
  <2> DEFINE f == last + 1
  <2>1. /\ f > last /\ f <= last' /\ p > last /\ p <= last' /\ last <= last' /\ f # p /\ f # 0
        /\ last' \in Nat /\ last' \in 0 .. MaxStarts
        /\ f \in Starts /\ f \in 0 .. MaxStarts /\ p \in 0 .. MaxStarts
    BY <1>3 DEF Starts
  <2>2. /\ start' \in [Starts -> StartRecords]
        /\ start'[p] = HostStart(f)
        /\ start'[f] = FinanceStart(f)
        /\ \A q \in Starts : q # p /\ q # f => start'[q] = start[q]
    BY <1>3, <2>1, NewTypes DEF RuntimeTypes
  <2>3. financePromise' = f
    BY <1>3
  <2> HIDE DEF f
  <2>4. RuntimeTypes'
    <3>1. start'[p].base # 0 /\ start'[f].phase # "waiting"
      BY <2>1, <2>2 DEF HostStart, FinanceStart
    <3>2. QED
      BY <1>3, <2>1, <2>2, <2>3, <3>1 DEF RuntimeTypes
  <2>5. ASSUME Tidy
        PROVE  Tidy'
    <3>1. hostRuntime = 0 /\ financePromise = 0
      BY <1>3 DEF Foundation
    <3>2. \A q \in {f, p} : q > last /\ q <= last' /\ q \in {financePromise', hostPromise'}
      BY <1>3, <2>1, <2>3
    <3>3. \A q \in Starts \ {f, p} : start'[q] = start[q]
      BY <2>2
    <3>4. {f, p} \in SUBSET Starts
      BY <2>1
    <3>5. /\ financePromise = 0 /\ financePromise' \in {f, p}
          /\ start'[financePromise'] = FinanceStart(financePromise')
      BY <2>2, <2>3, <3>1
    <3>6. /\ hostPromise = 0 /\ hostPromise' \in {f, p} /\ financePromise' \in Starts
          /\ start'[hostPromise'] = HostStart(financePromise')
      BY <1>3, <2>1, <2>2, <2>3
    <3>7. QED
      BY <1>3, <2>1, <2>5, <3>1, <3>2, <3>3, <3>4, <3>5, <3>6, NewStarts
  <2>6. QED
    BY <2>4, <2>5
<1>4. QED
  BY <1>1, <1>2, <1>3 DEF GetHost

-----------------------------------------------------------------------------
(* close() with nothing in flight finds everything published.              *)
LEMMA CloseRuntimeKept ==
  ASSUME RuntimeTypes, CloseRuntime
  PROVE  RuntimeTypes' /\ (Tidy /\ ~raced' => Tidy')
<1> USE PromiseTypes, MaxStartsAssumption, MaxClosesAssumption
<1>1. /\ closes' = closes + 1 /\ closes < MaxCloses
      /\ raced' = (raced \/ \E a \in Starts : InFlight(a))
      /\ financePromise' = 0 /\ financeRuntime' = 0 /\ hostPromise' = 0 /\ hostRuntime' = 0
      /\ UNCHANGED <<registry, last>>
  BY DEF CloseRuntime
<1>2. /\ start' \in [Starts -> StartRecords]
      /\ \A q \in Starts :
           /\ start'[q].kind = start[q].kind /\ start'[q].phase = start[q].phase
           /\ start'[q].base = start[q].base /\ start'[q].on = start[q].on
           /\ start'[q].clients = IF q \in OwnedStarts THEN {} ELSE start[q].clients
           /\ q \notin OwnedStarts => start'[q] = start[q]
           /\ start[q] = NoStart => start'[q] = NoStart
  <2>1. start' = [q \in Starts |->
                    IF q \in OwnedStarts THEN [start[q] EXCEPT !.clients = {}] ELSE start[q]]
    BY DEF CloseRuntime
  <2>2. ASSUME NEW r \in StartRecords
        PROVE  /\ [r EXCEPT !.clients = {}] \in StartRecords
               /\ [r EXCEPT !.clients = {}].kind = r.kind
               /\ [r EXCEPT !.clients = {}].phase = r.phase
               /\ [r EXCEPT !.clients = {}].base = r.base
               /\ [r EXCEPT !.clients = {}].on = r.on
               /\ [r EXCEPT !.clients = {}].clients = {}
    BY DEF StartRecords
  <2>3. [NoStart EXCEPT !.clients = {}] = NoStart
    BY DEF NoStart
  <2>4. \A q \in Starts : start[q] \in StartRecords
    BY DEF RuntimeTypes
  <2>5. QED
    BY <2>1, <2>2, <2>3, <2>4
<1>3. RuntimeTypes'
  <2>1. raced' \in BOOLEAN /\ closes' \in 0 .. MaxCloses /\ 0 \in 0 .. MaxStarts
    BY <1>1 DEF RuntimeTypes
  <2>2. QED
    BY <1>1, <1>2, <2>1 DEF RuntimeTypes
<1>4. ASSUME Tidy, ~raced'
      PROVE  Tidy'
  <2>1. \A q \in Starts : ~InFlight(q)
    BY <1>1, <1>4
  <2>2. Shaped'
    BY <1>1, <1>2, <1>4 DEF Tidy, Shaped, ShapeOf
  <2>3. Promised'
    BY <1>1, <1>2, <2>1 DEF Promised, InFlight
  <2>4. Published' /\ Cataloged'
    BY <1>1 DEF Published, Cataloged, IsUp
  <2>5. ASSUME NEW q \in Starts, start[q].phase = "up", start[q].clients # {}
        PROVE  q \in OwnedStarts
    <3>1. q \in {financePromise, hostPromise} /\ q # 0
      BY <1>4, <2>5 DEF Tidy, Connected, Starts
    <3>2. CASE hostPromise = 0
      BY <1>4, <2>5, <3>1, <3>2 DEF Tidy, Promised, Published, IsUp, Shaped, ShapeOf, Owned, OwnedStarts
    <3>3. CASE hostPromise # 0
      <4>1. hostPromise \in Starts /\ start[hostPromise].kind = "host"
        BY <1>4, <3>3 DEF Tidy, Promised
      <4>2. start[hostPromise].phase = "up"
        BY <1>4, <2>1, <3>3, <4>1 DEF Tidy, Promised, Shaped, ShapeOf, InFlight
      <4>3. hostRuntime = hostPromise
        BY <1>4, <3>3, <4>2 DEF Tidy, Published, IsUp
      <4>4. start[hostPromise].on = {hostPromise, financePromise}
        BY <1>4, <3>3, <4>1, <4>2 DEF Tidy, Promised, Shaped, ShapeOf
      <4>5. QED
        BY <3>1, <3>3, <4>3, <4>4 DEF Owned, OwnedStarts
    <3>4. QED
      BY <3>2, <3>3
  <2>6. Connected'
    <3>1. \A q \in Starts : start[q].phase \notin {"registerFilesystem", "registerGit"}
      BY <2>1 DEF InFlight, HostPhases
    <3>2. \A q \in Starts : q # 0
      BY DEF Starts
    <3>3. \A q \in Starts : start[q].phase = "up" => start'[q].clients = {}
      BY <1>2, <2>5
    <3>4. QED
      BY <1>1, <1>2, <1>4, <3>1, <3>2, <3>3 DEF Tidy, Connected
  <2>7. QED
    BY <2>2, <2>3, <2>4, <2>6 DEF Tidy
<1>5. QED
  BY <1>3, <1>4

-----------------------------------------------------------------------------
LEMMA StepKept ==
  ASSUME RuntimeTypes, [RuntimeNext]_runtimeVars
  PROVE  RuntimeTypes' /\ (Tidy /\ ~raced' => Tidy')
<1>1. CASE GetFinance
  BY <1>1, GetFinanceKept
<1>2. CASE \E p \in Starts : GetHost(p)
  BY <1>2, GetHostKept
<1>3. CASE CloseRuntime
  BY <1>3, CloseRuntimeKept
<1>4. CASE \E a \in Starts : StartProceeds(a)
  <2>1. PICK a \in Starts : StartProceeds(a)
    BY <1>4
  <2>2. CASE FinanceClientStarted(a) \/ FinanceUp(a) \/ FailFinance(a)
    BY <2>2, FinanceClientStartedKept, FinanceUpKept, FailFinanceKept
  <2>3. CASE ExtensionBegins(a) \/ FilesystemStarted(a) \/ GitStarted(a)
    BY <2>3, ExtensionBeginsKept, FilesystemStartedKept, GitStartedKept
  <2>4. CASE FilesystemRegistered(a) \/ HostUp(a)
    BY <2>4, FilesystemRegisteredKept, HostUpKept
  <2>5. CASE FailExtension(a) \/ Failed(a)
    BY <2>5, FailExtensionKept, FailedKept
  <2>6. QED
    BY <2>1, <2>2, <2>3, <2>4, <2>5 DEF StartProceeds
<1>5. CASE UNCHANGED runtimeVars
  <2>1. RuntimeTypes'
    BY <1>5 DEF RuntimeTypes, runtimeVars, manager
  <2>2. ASSUME Tidy
        PROVE  Tidy'
    BY <1>5, <2>2 DEF Tidy, Shaped, ShapeOf, Promised, Published, Connected, Cataloged, IsUp,
       InFlight, runtimeVars, manager
  <2>3. QED
    BY <2>1, <2>2
<1>6. QED
  BY <1>1, <1>2, <1>3, <1>4, <1>5 DEF RuntimeNext

LEMMA StepKeeps == RInv /\ [RuntimeNext]_runtimeVars => RInv'
<1>1. SUFFICES ASSUME RInv, [RuntimeNext]_runtimeVars
               PROVE  RInv'
  OBVIOUS
<1>2. raced => raced'
  <2>1. CASE CloseRuntime
    BY <2>1 DEF CloseRuntime
  <2>2. RuntimeNext => CloseRuntime \/ UNCHANGED raced
    BY DEF RuntimeNext, GetFinance, GetHost, runtimeVars, StartProceeds, FinanceClientStarted, FinanceUp,
       ExtensionBegins, FilesystemStarted, GitStarted, FilesystemRegistered, HostUp, FailFinance,
       FailExtension, Failed
  <2>3. QED
    BY <1>1, <2>1, <2>2 DEF runtimeVars
<1>3. RuntimeTypes' /\ (Tidy /\ ~raced' => Tidy')
  BY <1>1, StepKept DEF RInv
<1>4. QED
  BY <1>1, <1>2, <1>3 DEF RInv

LEMMA RuntimeInvariant == RuntimeSpec => []RInv
BY InitEstablishes, StepKeeps, PTL DEF RuntimeSpec

(* Of the starts that are up, those with clients are what the manager holds. *)
LEMMA UpIsOwned ==
  ASSUME RuntimeTypes, Tidy, NEW a \in Starts, start[a].clients # {}, ~InFlight(a)
  PROVE  /\ a \in {financePromise, hostPromise} /\ start[a].phase = "up"
         /\ a \in OwnedStarts
<1> USE PromiseTypes
<1>1. start[a].phase = "up"
  <2>1. start[a] \in StartRecords
    BY DEF RuntimeTypes
  <2>2. QED
    BY <2>1 DEF StartRecords, InFlight, Tidy, Connected
<1>2. a \in {financePromise, hostPromise} /\ a # 0
  BY <1>1 DEF Tidy, Connected, Starts
<1>3. CASE IsUp(hostPromise)
  <2>1. hostPromise \in Starts /\ start[hostPromise].kind = "host" /\ hostRuntime = hostPromise
    BY <1>3 DEF Tidy, Promised, Published, IsUp
  <2>2. start[hostPromise].on = {hostPromise, financePromise}
    BY <1>3, <2>1 DEF Tidy, Promised, Shaped, ShapeOf, IsUp
  <2>3. QED
    BY <1>1, <1>2, <1>3, <2>1, <2>2 DEF Owned, OwnedStarts, IsUp
<1>4. CASE ~IsUp(hostPromise)
  <2>1. a = financePromise /\ hostRuntime = 0 /\ financeRuntime = a /\ start[a].kind = "finance"
    BY <1>1, <1>2, <1>4 DEF Tidy, Promised, Published, IsUp
  <2>2. start[a].on = {a}
    BY <2>1 DEF Tidy, Shaped, ShapeOf
  <2>3. QED
    BY <1>1, <1>2, <2>1, <2>2 DEF Owned, OwnedStarts
<1>5. QED
  BY <1>3, <1>4

LEMMA RunningIsPromised ==
  ASSUME RuntimeTypes, Tidy, NEW a \in Starts, start[a].clients # {}
  PROVE  a = IF start[a].kind = "finance" THEN financePromise ELSE hostPromise
<1> USE PromiseTypes
<1>1. CASE InFlight(a)
  BY <1>1 DEF Tidy, Promised
<1>2. CASE ~InFlight(a)
  <2>1. a \in {financePromise, hostPromise} /\ a # 0
    BY <1>2, UpIsOwned DEF Starts
  <2>2. QED
    BY <2>1 DEF Tidy, Promised
<1>3. QED
  BY <1>1, <1>2

-----------------------------------------------------------------------------
(* The runtime's state is well typed, whatever close() overlaps.           *)
THEOREM RuntimeTypesCorrect == RuntimeSpec => []RuntimeTypes
<1>1. RInv => RuntimeTypes
  BY DEF RInv
<1>2. QED
  BY <1>1, RuntimeInvariant, PTL

LEMMA ServersFollow == RInv => ServersFollowTheRuntime
<1>1. SUFFICES ASSUME RuntimeTypes, Tidy
               PROVE  ServersFollowTheRuntime
  BY DEF RInv, ServersFollowTheRuntime, OneClientPerServer, NothingIsOrphaned
<1>2. ASSUME NEW a \in Starts, NEW b \in Starts, start[a].clients \cap start[b].clients # {}
      PROVE  a = b
  <2>1. /\ a = IF start[a].kind = "finance" THEN financePromise ELSE hostPromise
        /\ b = IF start[b].kind = "finance" THEN financePromise ELSE hostPromise
    BY <1>1, <1>2, RunningIsPromised
  <2>2. (start[a].kind = "finance") = (start[b].kind = "finance")
    BY <1>1, <1>2 DEF Tidy, Connected
  <2>3. QED
    BY <2>1, <2>2
<1>3. ASSUME NEW a \in Starts, start[a].clients # {}
      PROVE  InFlight(a) \/ a \in OwnedStarts
  BY <1>1, <1>3, UpIsOwned
<1>4. QED
  BY <1>2, <1>3 DEF ServersFollowTheRuntime, OneClientPerServer, NothingIsOrphaned

(* Each server has one client at most, and it is the manager's, however    *)
(* often and in whatever order runtimes are asked for, started, failed,    *)
(* closed and started again.                                               *)
THEOREM OneRuntime == RuntimeSpec => []ServersFollowTheRuntime
BY ServersFollow, RuntimeInvariant, PTL

LEMMA CatalogAlive == RInv => CatalogIsAlive
<1>1. SUFFICES ASSUME RuntimeTypes, Tidy
               PROVE  CatalogIsAlive
  BY DEF RInv, CatalogIsAlive
<1> USE PromiseTypes
<1>2. CASE IsUp(hostPromise)
  <2>1. hostPromise \in Starts /\ start[hostPromise].kind = "host" /\ hostRuntime = hostPromise
    BY <1>1, <1>2 DEF Tidy, Promised, Published, IsUp
  <2>2. /\ start[hostPromise].on = {hostPromise, financePromise}
        /\ start[hostPromise].base = financePromise
        /\ financePromise \in Starts /\ start[financePromise].phase = "up"
        /\ start[financePromise].kind = "finance" /\ financePromise # 0
    BY <1>1, <1>2, <2>1 DEF Tidy, Promised, Shaped, ShapeOf, IsUp, Starts
  <2>3. registry[financePromise] = Servers
    <3>1. Servers \subseteq registry[financePromise]
      BY <1>1, <1>2, <2>1, <2>2 DEF Tidy, Cataloged, IsUp, Servers
    <3>2. registry[financePromise] \subseteq Servers
      BY <1>1, <2>2 DEF RuntimeTypes
    <3>3. QED
      BY <3>1, <3>2
  <2>4. Root(hostPromise) = financePromise
    BY <1>1, <2>1, <2>2, RootIsBase DEF Tidy
  <2>5. OwnedStarts = {hostPromise, financePromise}
    BY <2>1, <2>2 DEF Owned, OwnedStarts, Starts
  <2>6. ASSUME NEW s \in Servers
        PROVE  \E b \in Starts : financePromise \in start[b].on /\ s \in start[b].clients
    <3>1. CASE s = "finance"
      <4>1. financePromise \in start[financePromise].on /\ "finance" \in start[financePromise].clients
        BY <1>1, <2>2 DEF Tidy, Shaped, ShapeOf, Connected
      <4>2. QED
        BY <2>2, <3>1, <4>1
    <3>2. CASE s \in {"filesystem", "git"}
      <4>1. financePromise \in start[hostPromise].on /\ {"filesystem", "git"} \subseteq start[hostPromise].clients
        BY <1>1, <1>2, <2>1, <2>2 DEF Tidy, Connected, IsUp
      <4>2. QED
        BY <2>1, <3>2, <4>1
    <3>3. QED
      BY <3>1, <3>2 DEF Servers
  <2>7. QED
    BY <2>1, <2>2, <2>3, <2>4, <2>5, <2>6 DEF CatalogIsAlive
<1>3. CASE ~IsUp(hostPromise)
  <2>1. hostRuntime = 0 /\ financeRuntime = IF IsUp(financePromise) THEN financePromise ELSE 0
    BY <1>1, <1>3 DEF Tidy, Published
  <2>2. CASE ~IsUp(financePromise)
    BY <2>1, <2>2 DEF CatalogIsAlive, OwnedStarts, Owned
  <2>3. CASE IsUp(financePromise)
    <3>1. /\ financePromise \in Starts /\ financePromise # 0 /\ start[financePromise].phase = "up"
          /\ start[financePromise].kind = "finance"
      BY <1>1, <2>3 DEF Tidy, Promised, IsUp
    <3>2. start[financePromise].on = {financePromise}
      BY <1>1, <3>1 DEF Tidy, Shaped, ShapeOf
    <3>3. OwnedStarts = {financePromise}
      BY <2>1, <2>3, <3>1, <3>2 DEF Owned, OwnedStarts
    <3>4. ASSUME NEW s \in registry[financePromise]
          PROVE  \E b \in Starts : financePromise \in start[b].on /\ s \in start[b].clients
      <4>1. CASE s = "finance"
        BY <1>1, <3>1, <3>2, <4>1 DEF Tidy, Connected
      <4>2. CASE s = "git"
        BY <1>1, <1>3, <3>1, <3>4, <4>2 DEF Tidy, Cataloged
      <4>3. CASE s = "filesystem"
        <5>1. /\ hostPromise \in Starts /\ start[hostPromise].kind = "host"
              /\ start[hostPromise].phase = "registerGit"
          BY <1>1, <1>3, <3>1, <3>4, <4>3 DEF Tidy, Cataloged, Promised, IsUp
        <5>2. /\ start[hostPromise].on = {hostPromise, financePromise}
              /\ "filesystem" \in start[hostPromise].clients
          BY <1>1, <5>1 DEF Tidy, Promised, Shaped, ShapeOf, Connected, Extending, HostPhases, Starts
        <5>3. QED
          BY <4>3, <5>1, <5>2
      <4>4. s \in Servers
        BY <1>1, <3>1, <3>4 DEF RuntimeTypes
      <4>5. QED
        BY <4>1, <4>2, <4>3, <4>4 DEF Servers
    <3>5. QED
      BY <2>1, <3>3, <3>4 DEF CatalogIsAlive
  <2>4. QED
    BY <2>2, <2>3
<1>4. QED
  BY <1>2, <1>3

(* The registry of the runtime in use names only servers whose client is   *)
(* open, and all three of them once chat can use it.                       *)
THEOREM CatalogStaysAlive == RuntimeSpec => []CatalogIsAlive
BY CatalogAlive, RuntimeInvariant, PTL

-----------------------------------------------------------------------------
(* The chat API and the browser's chat (module WebChat).                   *)

(* An operation waits in one session at most, and is executed by one       *)
(* request at most.                                                        *)
Stored ==
  /\ \A s \in Sessions : pending[s] # NoProposal => op[pending[s]].st = "pending"
  /\ \A s, t \in Sessions : pending[s] = pending[t] /\ pending[s] # NoProposal => s = t
  /\ \A i \in Requests : req[i].at = "write" =>
       req[i].about \in Proposals /\ op[req[i].about].st = "running"
  /\ \A i, j \in Requests :
       req[i].at = "write" /\ req[j].at = "write" /\ req[i].about = req[j].about => i = j
  /\ \A p \in Proposals : card[p] # "none" => op[p].st # "unused"

(* A session is held by the one turn or write in progress, and then        *)
(* nothing is pending in it.                                               *)
Held ==
  /\ \A s \in Sessions : home[s] = 0 \/ s \in busy => pending[s] = NoProposal
  /\ \A s \in busy : home[s] # 0
  /\ \A i \in Requests : req[i].at \in {"turn", "write"} => req[i].sid \in busy
  /\ \A i, j \in Requests :
       req[i].at \in {"turn", "write"} /\ req[j].at \in {"turn", "write"} /\ req[i].sid = req[j].sid
       => i = j

(* Where requests are, and which session the one in flight is about.       *)
Flights ==
  /\ \A i \in Requests :
       /\ i > posted => req[i].at = "none"
       /\ req[i].at # "none" => req[i].says \in Decisions \cup Messages
       /\ req[i].at = "runtime" => req[i].via # 0
       /\ req[i].at = "turn" => req[i].says \in Messages
       /\ req[i].at = "answered" => inFlight = i
  /\ inFlight # 0 =>
       /\ req[inFlight].at # "none"
       /\ \/ req[inFlight].sid = sessionId
          \/ /\ sessionId = 0
             /\ req[inFlight].says \in Messages
             /\ req[inFlight].at \notin {"network", "runtime"}

IsDeciding(p) == card[p] \in {"confirming", "cancelling"}

(* One card at most is not decided; it is being decided by the request in  *)
(* flight, or nothing is in flight.                                        *)
OneCard ==
  /\ \A p \in Proposals :
       /\ card[p] \in Active => sessionId # 0
       /\ IsDeciding(p) => inFlight # 0 /\ req[inFlight].says \in Decisions
       /\ card[p] = "pending" => inFlight = 0
  /\ \A p, q \in Proposals : card[p] \in Active /\ card[q] \in Active => p = q
  /\ inFlight # 0 /\ req[inFlight].says \in Decisions => \E p \in Proposals : IsDeciding(p)

(* What a proposal needs to be shown.                                      *)
Shown ==
  inFlight # 0 /\ req[inFlight].at = "answered" /\ req[inFlight].answer = "required" =>
    /\ req[inFlight].sid # 0
    /\ req[inFlight].about \in Proposals
    /\ op[req[inFlight].about].st # "unused"

(* A card in error has no operation in the session of the tab.             *)
InError ==
  /\ \A p \in Proposals, s \in Sessions : card[p] = "error" /\ pending[s] = p =>
       s # sessionId /\ (inFlight # 0 => s # req[inFlight].sid)
  /\ inFlight # 0 /\ req[inFlight].at = "answered" /\ req[inFlight].answer = "CONFIRMATION_NOT_FOUND" =>
       \A p \in Proposals, s \in Sessions : IsDeciding(p) /\ pending[s] = p => s # req[inFlight].sid

(* If no proposal strays, the card that is not decided and the operation   *)
(* its session has pending are the same, and so is what is answered.       *)
Agreed ==
  "proposal" \notin stray =>
    /\ inFlight # 0 /\ req[inFlight].at = "answered" /\ req[inFlight].answer = "required" =>
         pending[req[inFlight].sid] \in {req[inFlight].about, NoProposal}
    /\ \A p \in Proposals :
         /\ card[p] \in Active => pending[sessionId] \in {p, NoProposal}
         /\ IsDeciding(p) /\ req[inFlight].at = "write" => req[inFlight].about = p
         /\ IsDeciding(p) /\ req[inFlight].at = "answered"
              /\ req[inFlight].answer \in Outcomes \cup {"cancelled"} =>
              op[p].st = req[inFlight].answer
         /\ card[p] = "confirmed" => op[p].st = "succeeded"
         /\ card[p] \in {"rejected", "unknown", "cancelled"} => op[p].st = card[p]

Clicks ==
  /\ \A p \in Proposals : IsDeciding(p) /\ req[inFlight].says = "confirm" => p \in clicked
  /\ ClickRunsItsCard

IInv == TypeOK /\ Stored /\ Held /\ Flights /\ OneCard /\ Shown /\ InError /\ Agreed /\ Clicks

LEMMA Zero == 0 \notin Requests /\ 0 \notin Sessions /\ 0 \notin Starts /\ Requests \subseteq Nat
BY DEF Requests, Sessions, Starts

LEMMA Typed ==
  ASSUME TypeOK
  PROVE  /\ inFlight # 0 => inFlight \in Requests
         /\ sessionId # 0 => sessionId \in Sessions
         /\ \A i \in Requests :
              /\ req[i] \in RequestRecords
              /\ req[i].says \in {"none"} \cup Decisions \cup Messages
              /\ req[i].about \in Proposals \cup {NoProposal}
              /\ req[i].sid \in 0 .. MaxSessions
              /\ req[i].sid # 0 => req[i].sid \in Sessions
              /\ req[i].via \in 0 .. MaxStarts
              /\ req[i].answer \in Answers
         /\ \A s \in Sessions : pending[s] # NoProposal => pending[s] \in Proposals
         /\ \A p \in Proposals : op[p] \in OpRecords /\ card[p] \in CardStates
<1>1. inFlight # 0 => inFlight \in Requests
  BY MaxRequestsAssumption DEF TypeOK, Requests
<1>2. sessionId # 0 => sessionId \in Sessions
  BY MaxSessionsAssumption DEF TypeOK, Sessions
<1>3. ASSUME NEW i \in Requests
      PROVE  /\ req[i] \in RequestRecords
             /\ req[i].says \in {"none"} \cup Decisions \cup Messages
             /\ req[i].about \in Proposals \cup {NoProposal}
             /\ req[i].sid \in 0 .. MaxSessions
             /\ req[i].sid # 0 => req[i].sid \in Sessions
             /\ req[i].via \in 0 .. MaxStarts
             /\ req[i].answer \in Answers
  <2>1. req[i] \in RequestRecords
    BY DEF TypeOK
  <2>2. QED
    BY <2>1, MaxSessionsAssumption DEF RequestRecords, Sessions
<1>4. QED
  BY <1>1, <1>2, <1>3 DEF TypeOK

(* No request is a request as well.                                        *)
LEMMA NoRequestTyped == NoRequest \in RequestRecords
BY MaxSessionsAssumption, MaxStartsAssumption DEF NoRequest, RequestRecords, Answers

(* An answer reaches the request in flight, and no other.                  *)
LEMMA Answering ==
  ASSUME TypeOK, NEW i \in Requests, NEW a \in Answers, NEW p \in Proposals \cup {NoProposal},
         Answer(i, a, p, req[i].sid)
  PROVE  /\ req' \in [Requests -> RequestRecords]
         /\ \A j \in Requests \ {i} : req'[j] = req[j]
         /\ inFlight # i => req'[i] = NoRequest
         /\ inFlight = i =>
              /\ req'[i].says = req[i].says /\ req'[i].sid = req[i].sid /\ req'[i].via = req[i].via
              /\ req'[i].at = "answered" /\ req'[i].answer = a
              /\ req'[i].about = IF p = NoProposal THEN req[i].about ELSE p
<1> DEFINE told == [req[i] EXCEPT !.at = "answered", !.answer = a, !.sid = req[i].sid,
                                  !.about = IF p = NoProposal THEN req[i].about ELSE p]
<1>1. req[i] \in RequestRecords
  BY Typed
<1>2. /\ told \in RequestRecords
      /\ told.says = req[i].says /\ told.sid = req[i].sid /\ told.via = req[i].via
      /\ told.at = "answered" /\ told.answer = a
      /\ told.about = IF p = NoProposal THEN req[i].about ELSE p
  BY <1>1 DEF RequestRecords
<1>3. CASE inFlight # i
  <2>1. req' = [req EXCEPT ![i] = NoRequest]
    BY <1>3 DEF Answer
  <2>2. QED
    BY <1>3, <2>1, NoRequestTyped DEF TypeOK
<1>4. CASE inFlight = i
  <2>1. req' = [req EXCEPT ![i] = told]
    BY <1>4 DEF Answer
  <2>2. QED
    <3> HIDE DEF told
    <3>1. QED
      BY <1>2, <1>4, <2>1 DEF TypeOK
<1>5. QED
  BY <1>3, <1>4

LEMMA RuntimeSame == RuntimeTypes /\ UNCHANGED runtimeVars => RuntimeTypes'
BY StepKept

-----------------------------------------------------------------------------
(* Answers.                                                                *)

(* An error, or a turn that ends without a proposal.                       *)
LEMMA RefusedKept ==
  ASSUME IInv, NEW i \in Requests, req[i].at \in {"runtime", "turn"},
         NEW a \in Errors \cup {"completed"}, Answer(i, a, NoProposal, req[i].sid),
         a = "CONFIRMATION_NOT_FOUND" => req[i].sid \in Sessions /\ pending[req[i].sid] = NoProposal,
         busy' = IF req[i].at = "runtime" THEN busy ELSE busy \ {req[i].sid},
         stray' \in {stray, stray \cup {"decision"}},
         UNCHANGED runtimeVars, UNCHANGED <<sessionId, inFlight, posted, card, clicked, home, pending, op>>
  PROVE  IInv'
<1> USE Zero, NoProposalAssumption
<1>0. TypeOK /\ Stored /\ Held /\ Flights /\ OneCard
      /\ Shown /\ InError /\ Agreed /\ Clicks
  BY DEF IInv
<1>t. /\ inFlight # 0 => inFlight \in Requests
      /\ sessionId # 0 => sessionId \in Sessions
      /\ \A j \in Requests :
           /\ req[j] \in RequestRecords
           /\ req[j].sid # 0 => req[j].sid \in Sessions
           /\ req[j].about \in Proposals \cup {NoProposal}
      /\ \A s \in Sessions : pending[s] # NoProposal => pending[s] \in Proposals
  BY <1>0, Typed
<1>a. /\ req' \in [Requests -> RequestRecords]
      /\ \A j \in Requests \ {i} : req'[j] = req[j]
      /\ inFlight # i => req'[i] = NoRequest
      /\ inFlight = i =>
           /\ req'[i].says = req[i].says /\ req'[i].sid = req[i].sid /\ req'[i].via = req[i].via
           /\ req'[i].at = "answered" /\ req'[i].answer = a
           /\ req'[i].about = req[i].about
      /\ inFlight # i =>
           /\ req'[i].says = "none" /\ req'[i].at = "none" /\ req'[i].sid = 0
  <2>1. a \in Answers /\ NoProposal \in Proposals \cup {NoProposal}
    BY DEF Answers, Errors
  <2>2. QED
    BY <1>0, <2>1, Answering DEF NoRequest
<1>b. a \notin Outcomes \cup {"cancelled", "required"}
  BY DEF Errors, Outcomes
<1>c. inFlight # 0 =>
        /\ req'[inFlight].sid = req[inFlight].sid /\ req'[inFlight].says = req[inFlight].says
        /\ inFlight # i => req'[inFlight] = req[inFlight]
  BY <1>a, <1>t
<1>d. ("proposal" \notin stray' => "proposal" \notin stray) /\ (stray' = {} => stray = {})
  OBVIOUS
<1>1. TypeOK'
  BY <1>0, <1>a, RuntimeSame DEF TypeOK
<1>2. Stored'
  BY <1>0, <1>t, <1>a, <1>b, <1>c, <1>d DEF Stored
<1>3. Held'
  BY <1>0, <1>t, <1>a, <1>b, <1>c, <1>d DEF Held
<1>4. Flights'
  BY <1>0, <1>t, <1>a, <1>b, <1>c, <1>d DEF Flights
<1>5. OneCard'
  BY <1>0, <1>t, <1>a, <1>b, <1>c, <1>d DEF OneCard, IsDeciding
<1>6. Shown'
  BY <1>0, <1>t, <1>a, <1>b, <1>c, <1>d DEF Shown
<1>7. InError'
  BY <1>0, <1>t, <1>a, <1>b, <1>c, <1>d DEF InError, IsDeciding
<1>8. Agreed'
  BY <1>0, <1>t, <1>a, <1>b, <1>c, <1>d DEF Agreed, OneCard, IsDeciding
<1>9. Clicks'
  BY <1>0, <1>t, <1>a, <1>b, <1>c, <1>d DEF Clicks, OneCard, IsDeciding, ClickRunsItsCard
<1>10. QED
  BY <1>1, <1>2, <1>3, <1>4, <1>5, <1>6, <1>7, <1>8, <1>9 DEF IInv

(* The reminder names what is pending.                                     *)
LEMMA RemindKept ==
  ASSUME IInv, NEW i \in Requests, Remind(i)
  PROVE  IInv'
<1> USE Zero, NoProposalAssumption
<1>0. TypeOK /\ Stored /\ Held /\ Flights /\ OneCard
      /\ Shown /\ InError /\ Agreed /\ Clicks
  BY DEF IInv
<1>t. /\ inFlight # 0 => inFlight \in Requests
      /\ sessionId # 0 => sessionId \in Sessions
      /\ \A j \in Requests :
           /\ req[j] \in RequestRecords
           /\ req[j].sid # 0 => req[j].sid \in Sessions
           /\ req[j].about \in Proposals \cup {NoProposal}
      /\ \A s \in Sessions : pending[s] # NoProposal => pending[s] \in Proposals
  BY <1>0, Typed
<1> DEFINE p == Pending(i)
<1>u. /\ UNCHANGED runtimeVars /\ UNCHANGED <<sessionId, inFlight, posted, card, clicked, home, pending, busy, op>>
      /\ stray' \in {stray, stray \cup {"decision"}}
      /\ req[i].at = "runtime" /\ req[i].says = "other" /\ Known(i) /\ p # NoProposal
      /\ Answer(i, "required", p, req[i].sid)
  BY DEF Remind, TakesUp, browser, sessions
<1>k. /\ req[i].sid \in Sessions /\ home[req[i].sid] = req[i].via /\ req[i].via # 0
      /\ p \in Proposals /\ pending[req[i].sid] = p /\ op[p].st = "pending" /\ req[i].sid \notin busy
  <2>1. req[i].sid \in Sessions /\ home[req[i].sid] = req[i].via /\ pending[req[i].sid] = p
    <3>1. req[i].sid # 0 /\ home[req[i].sid] = req[i].via
      BY <1>u DEF Known
    <3>2. req[i].sid \in Sessions
      BY <1>t, <3>1
    <3>3. QED
      BY <3>1, <3>2 DEF Pending
  <2>2. req[i].via # 0
    BY <1>0, <1>u DEF Flights
  <2>3. p \in Proposals /\ op[p].st = "pending" /\ req[i].sid \notin busy
    <3> HIDE DEF p
    <3>1. QED
      BY <1>0, <1>t, <1>u, <2>1 DEF Stored, Held
  <2>4. QED
    BY <2>1, <2>2, <2>3
<1>a. /\ req' \in [Requests -> RequestRecords]
      /\ \A j \in Requests \ {i} : req'[j] = req[j]
      /\ inFlight # i => req'[i] = NoRequest
      /\ inFlight = i =>
           /\ req'[i].says = req[i].says /\ req'[i].sid = req[i].sid /\ req'[i].via = req[i].via
           /\ req'[i].at = "answered" /\ req'[i].answer = "required"
           /\ req'[i].about = IF p = NoProposal THEN req[i].about ELSE p
      /\ inFlight # i =>
           /\ req'[i].says = "none" /\ req'[i].at = "none" /\ req'[i].sid = 0
  <2>1. "required" \in Answers
    BY DEF Answers
  <2>2. QED
    BY <1>0, <1>k, <1>u, <2>1, Answering DEF NoRequest
<1> HIDE DEF p
<1>b. inFlight = i => req'[i].about = p
  BY <1>a, <1>k
<1>s. "required" \notin Outcomes \cup {"cancelled", "CONFIRMATION_NOT_FOUND"}
  BY DEF Outcomes
<1>c. inFlight # 0 =>
        /\ req'[inFlight].sid = req[inFlight].sid /\ req'[inFlight].says = req[inFlight].says
        /\ inFlight # i => req'[inFlight] = req[inFlight]
  BY <1>a, <1>t
<1>d. ("proposal" \notin stray' => "proposal" \notin stray) /\ (stray' = {} => stray = {})
  BY <1>u
<1>1. TypeOK'
  BY <1>0, <1>a, <1>u, RuntimeSame DEF TypeOK
<1>2. Stored'
  BY <1>0, <1>t, <1>u, <1>k, <1>a, <1>b, <1>c, <1>d, <1>s DEF Stored
<1>3. Held'
  BY <1>0, <1>t, <1>u, <1>k, <1>a, <1>b, <1>c, <1>d, <1>s DEF Held
<1>4. Flights'
  BY <1>0, <1>t, <1>u, <1>k, <1>a, <1>b, <1>c, <1>d, <1>s DEF Flights
<1>5. OneCard'
  BY <1>0, <1>t, <1>u, <1>k, <1>a, <1>b, <1>c, <1>d, <1>s DEF OneCard, IsDeciding
<1>6. Shown'
  BY <1>0, <1>t, <1>u, <1>k, <1>a, <1>b, <1>c, <1>d, <1>s DEF Shown
<1>7. InError'
  BY <1>0, <1>t, <1>u, <1>k, <1>a, <1>b, <1>c, <1>d, <1>s DEF InError, IsDeciding
<1>8. Agreed'
  BY <1>0, <1>t, <1>u, <1>k, <1>a, <1>b, <1>c, <1>d, <1>s DEF Agreed, OneCard, IsDeciding
<1>9. Clicks'
  BY <1>0, <1>t, <1>u, <1>k, <1>a, <1>b, <1>c, <1>d, <1>s DEF Clicks, OneCard, IsDeciding, ClickRunsItsCard
<1>10. QED
  BY <1>1, <1>2, <1>3, <1>4, <1>5, <1>6, <1>7, <1>8, <1>9 DEF IInv

(* The operation of the session is dropped.                                *)
LEMMA CancelKept ==
  ASSUME IInv, NEW i \in Requests, Cancel(i)
  PROVE  IInv'
<1> USE Zero, NoProposalAssumption
<1>0. TypeOK /\ Stored /\ Held /\ Flights /\ OneCard
      /\ Shown /\ InError /\ Agreed /\ Clicks
  BY DEF IInv
<1>t. /\ inFlight # 0 => inFlight \in Requests
      /\ sessionId # 0 => sessionId \in Sessions
      /\ \A j \in Requests :
           /\ req[j] \in RequestRecords
           /\ req[j].sid # 0 => req[j].sid \in Sessions
           /\ req[j].about \in Proposals \cup {NoProposal}
      /\ \A s \in Sessions : pending[s] # NoProposal => pending[s] \in Proposals
  BY <1>0, Typed
<1> DEFINE p == Pending(i)
<1>u. /\ UNCHANGED runtimeVars /\ UNCHANGED <<sessionId, inFlight, posted, card, clicked, home, busy>>
      /\ stray' \in {stray, stray \cup {"decision"}}
      /\ req[i].at = "runtime" /\ req[i].says \in {"cancel", "no"} /\ Known(i) /\ p # NoProposal
      /\ pending' = [pending EXCEPT ![req[i].sid] = NoProposal]
      /\ op' = [op EXCEPT ![p].st = "cancelled"]
      /\ Answer(i, "cancelled", p, req[i].sid)
  BY DEF Cancel, TakesUp, browser
<1>k. /\ req[i].sid \in Sessions /\ home[req[i].sid] = req[i].via /\ req[i].via # 0
      /\ p \in Proposals /\ pending[req[i].sid] = p /\ op[p].st = "pending" /\ req[i].sid \notin busy
  <2>1. req[i].sid \in Sessions /\ home[req[i].sid] = req[i].via /\ pending[req[i].sid] = p
    <3>1. req[i].sid # 0 /\ home[req[i].sid] = req[i].via
      BY <1>u DEF Known
    <3>2. req[i].sid \in Sessions
      BY <1>t, <3>1
    <3>3. QED
      BY <3>1, <3>2 DEF Pending
  <2>2. req[i].via # 0
    BY <1>0, <1>u DEF Flights
  <2>3. p \in Proposals /\ op[p].st = "pending" /\ req[i].sid \notin busy
    <3> HIDE DEF p
    <3>1. QED
      BY <1>0, <1>t, <1>u, <2>1 DEF Stored, Held
  <2>4. QED
    BY <2>1, <2>2, <2>3
<1>a. /\ req' \in [Requests -> RequestRecords]
      /\ \A j \in Requests \ {i} : req'[j] = req[j]
      /\ inFlight # i => req'[i] = NoRequest
      /\ inFlight = i =>
           /\ req'[i].says = req[i].says /\ req'[i].sid = req[i].sid /\ req'[i].via = req[i].via
           /\ req'[i].at = "answered" /\ req'[i].answer = "cancelled"
           /\ req'[i].about = IF p = NoProposal THEN req[i].about ELSE p
      /\ inFlight # i =>
           /\ req'[i].says = "none" /\ req'[i].at = "none" /\ req'[i].sid = 0
  <2>1. "cancelled" \in Answers
    BY DEF Answers
  <2>2. QED
    BY <1>0, <1>k, <1>u, <2>1, Answering DEF NoRequest
<1> HIDE DEF p
<1>o. /\ op' \in [Proposals -> OpRecords]
      /\ \A q \in Proposals \ {p} : op'[q] = op[q]
      /\ op'[p].st = "cancelled" /\ op'[p].by = op[p].by
  BY <1>0, <1>k, <1>u DEF TypeOK, OpRecords
<1>p. /\ pending' \in [Sessions -> Proposals \cup {NoProposal}]
      /\ \A t \in Sessions \ {req[i].sid} : pending'[t] = pending[t] /\ pending[t] # p
      /\ pending'[req[i].sid] = NoProposal
  BY <1>0, <1>k, <1>u DEF TypeOK, Stored
<1>s. /\ \A x \in Outcomes : x # "pending" /\ x # "cancelled"
      /\ req[i].says \in Messages <=> req[i].says \notin Decisions
  BY <1>u DEF Outcomes, Messages, Decisions
<1>e. "proposal" \notin stray /\ inFlight = i => \A q \in Proposals : IsDeciding(q) => q = p
  BY <1>0, <1>t, <1>k, <1>s DEF Agreed, OneCard, Flights, IsDeciding, Active
<1>c. inFlight # 0 =>
        /\ req'[inFlight].sid = req[inFlight].sid /\ req'[inFlight].says = req[inFlight].says
        /\ inFlight # i => req'[inFlight] = req[inFlight]
  BY <1>a, <1>t
<1>d. ("proposal" \notin stray' => "proposal" \notin stray) /\ (stray' = {} => stray = {})
  BY <1>u
<1>1. TypeOK'
  BY <1>0, <1>a, <1>o, <1>p, <1>u, RuntimeSame DEF TypeOK
<1>2. Stored'
  BY <1>0, <1>t, <1>u, <1>k, <1>a, <1>c, <1>d, <1>o, <1>p, <1>s DEF Stored
<1>3. Held'
  BY <1>0, <1>t, <1>u, <1>k, <1>a, <1>c, <1>d, <1>o, <1>p, <1>s DEF Held
<1>4. Flights'
  BY <1>0, <1>t, <1>u, <1>k, <1>a, <1>c, <1>d, <1>o, <1>p, <1>s DEF Flights
<1>5. OneCard'
  BY <1>0, <1>t, <1>u, <1>k, <1>a, <1>c, <1>d, <1>o, <1>p, <1>s DEF OneCard, IsDeciding
<1>6. Shown'
  BY <1>0, <1>t, <1>u, <1>k, <1>a, <1>c, <1>d, <1>o, <1>p, <1>s DEF Shown
<1>7. InError'
  BY <1>0, <1>t, <1>u, <1>k, <1>a, <1>c, <1>d, <1>o, <1>p, <1>s DEF InError, IsDeciding
<1>8. Agreed'
  <2>1. SUFFICES ASSUME "proposal" \notin stray'
                 PROVE  /\ inFlight' # 0 /\ req'[inFlight'].at = "answered" /\ req'[inFlight'].answer = "required" =>
                             pending'[req'[inFlight'].sid] \in {req'[inFlight'].about, NoProposal}
                        /\ \A q \in Proposals :
                             /\ card'[q] \in Active => pending'[sessionId'] \in {q, NoProposal}
                             /\ IsDeciding(q)' /\ req'[inFlight'].at = "write" => req'[inFlight'].about = q
                             /\ IsDeciding(q)' /\ req'[inFlight'].at = "answered"
                                  /\ req'[inFlight'].answer \in Outcomes \cup {"cancelled"} =>
                                  op'[q].st = req'[inFlight'].answer
                             /\ card'[q] = "confirmed" => op'[q].st = "succeeded"
                             /\ card'[q] \in {"rejected", "unknown", "cancelled"} => op'[q].st = card'[q]
    BY DEF Agreed
  <2>2. inFlight' # 0 /\ req'[inFlight'].at = "answered" /\ req'[inFlight'].answer = "required" =>
          pending'[req'[inFlight'].sid] \in {req'[inFlight'].about, NoProposal}
    BY <1>0, <1>t, <1>u, <1>k, <1>a, <1>c, <1>d, <1>e, <1>o, <1>p, <1>s, <2>1 DEF Agreed, Flights
  <2>3. ASSUME NEW q \in Proposals
        PROVE  /\ card'[q] = "confirmed" => op'[q].st = "succeeded"
               /\ card'[q] \in {"rejected", "unknown", "cancelled"} => op'[q].st = card'[q]
    BY <1>0, <1>t, <1>u, <1>k, <1>a, <1>c, <1>d, <1>e, <1>o, <1>p, <1>s, <2>1 DEF Agreed, Flights
  <2>4. ASSUME NEW q \in Proposals
        PROVE  card'[q] \in Active => pending'[sessionId'] \in {q, NoProposal}
    BY <1>0, <1>t, <1>u, <1>k, <1>a, <1>c, <1>d, <1>e, <1>o, <1>p, <1>s, <2>1 DEF Agreed, OneCard, Flights
  <2>5. ASSUME NEW q \in Proposals, IsDeciding(q)'
        PROVE  /\ req'[inFlight'].at = "write" => req'[inFlight'].about = q
               /\ req'[inFlight'].at = "answered" /\ req'[inFlight'].answer \in Outcomes \cup {"cancelled"} =>
                    op'[q].st = req'[inFlight'].answer
    BY <1>0, <1>t, <1>u, <1>k, <1>a, <1>c, <1>d, <1>e, <1>o, <1>p, <1>s, <2>1, <2>5 DEF Agreed, OneCard, IsDeciding, Flights
  <2>6. QED
    BY <2>2, <2>3, <2>4, <2>5
<1>9. Clicks'
  BY <1>0, <1>t, <1>u, <1>k, <1>a, <1>c, <1>d, <1>o, <1>p, <1>s DEF Clicks, OneCard, IsDeciding, ClickRunsItsCard
<1>10. QED
  BY <1>1, <1>2, <1>3, <1>4, <1>5, <1>6, <1>7, <1>8, <1>9 DEF IInv

(* The operation of the session is started.                                *)
LEMMA ConfirmKept ==
  ASSUME IInv, NEW i \in Requests, Confirm(i)
  PROVE  IInv'
<1> USE Zero, NoProposalAssumption
<1>0. TypeOK /\ Stored /\ Held /\ Flights /\ OneCard
      /\ Shown /\ InError /\ Agreed /\ Clicks
  BY DEF IInv
<1>t. /\ inFlight # 0 => inFlight \in Requests
      /\ sessionId # 0 => sessionId \in Sessions
      /\ \A j \in Requests :
           /\ req[j] \in RequestRecords
           /\ req[j].sid # 0 => req[j].sid \in Sessions
           /\ req[j].about \in Proposals \cup {NoProposal}
      /\ \A s \in Sessions : pending[s] # NoProposal => pending[s] \in Proposals
  BY <1>0, Typed
<1> DEFINE p == Pending(i)
<1> DEFINE how == IF req[i].says = "yes" THEN "text" ELSE "click"
<1>u. /\ UNCHANGED runtimeVars /\ UNCHANGED <<sessionId, inFlight, posted, card, clicked, home>>
      /\ stray' = stray \cup (IF inFlight # i /\ req[i].says \in Decisions THEN {"decision"} ELSE {})
      /\ req[i].at = "runtime" /\ req[i].says \in {"confirm", "yes"} /\ Known(i) /\ p # NoProposal
      /\ pending' = [pending EXCEPT ![req[i].sid] = NoProposal]
      /\ busy' = busy \cup {req[i].sid}
      /\ op' = [op EXCEPT ![p] = [st |-> "running", by |-> how]]
      /\ req' = [req EXCEPT ![i].at = "write", ![i].about = p]
  BY DEF Confirm, TakesUp, browser
<1>h. how \in {"text", "click"} /\ (how = "click" => req[i].says = "confirm")
  BY <1>u
<1>k. /\ req[i].sid \in Sessions /\ home[req[i].sid] = req[i].via /\ req[i].via # 0
      /\ p \in Proposals /\ pending[req[i].sid] = p /\ op[p].st = "pending" /\ req[i].sid \notin busy
  <2>1. req[i].sid \in Sessions /\ home[req[i].sid] = req[i].via /\ pending[req[i].sid] = p
    <3>1. req[i].sid # 0 /\ home[req[i].sid] = req[i].via
      BY <1>u DEF Known
    <3>2. req[i].sid \in Sessions
      BY <1>t, <3>1
    <3>3. QED
      BY <3>1, <3>2 DEF Pending
  <2>2. req[i].via # 0
    BY <1>0, <1>u DEF Flights
  <2>3. p \in Proposals /\ op[p].st = "pending" /\ req[i].sid \notin busy
    <3> HIDE DEF p
    <3>1. QED
      BY <1>0, <1>t, <1>u, <2>1 DEF Stored, Held
  <2>4. QED
    BY <2>1, <2>2, <2>3
<1>a. /\ req' \in [Requests -> RequestRecords]
      /\ \A j \in Requests \ {i} : req'[j] = req[j]
      /\ req'[i].says = req[i].says /\ req'[i].sid = req[i].sid /\ req'[i].via = req[i].via
      /\ req'[i].at = "write" /\ req'[i].about = p
  <2> DEFINE r == [req[i] EXCEPT !.at = "write", !.about = p]
  <2>1. req' = [req EXCEPT ![i] = r]
    BY <1>u
  <2>2. /\ r \in RequestRecords
        /\ r.says = req[i].says /\ r.sid = req[i].sid /\ r.via = req[i].via
        /\ r.at = "write" /\ r.about = p
    BY <1>t, <1>k DEF RequestRecords
  <2> HIDE DEF r
  <2>3. QED
    BY <1>0, <2>1, <2>2 DEF TypeOK
<1> HIDE DEF p, how
<1>o. /\ op' \in [Proposals -> OpRecords]
      /\ \A q \in Proposals \ {p} : op'[q] = op[q]
      /\ op'[p].st = "running" /\ op'[p].by = how
  BY <1>0, <1>k, <1>u, <1>h DEF TypeOK, OpRecords
<1>p. /\ pending' \in [Sessions -> Proposals \cup {NoProposal}]
      /\ \A t \in Sessions \ {req[i].sid} : pending'[t] = pending[t] /\ pending[t] # p
      /\ pending'[req[i].sid] = NoProposal
  BY <1>0, <1>k, <1>u DEF TypeOK, Stored
<1>s. /\ \A x \in Outcomes : x # "pending" /\ x # "cancelled"
      /\ req[i].says \in Messages <=> req[i].says \notin Decisions
      /\ req[i].says \in Decisions <=> req[i].says = "confirm"
  BY <1>u DEF Outcomes, Messages, Decisions
<1>b. busy' \subseteq Sessions /\ busy \subseteq busy' /\ req[i].sid \in busy' /\ busy' \subseteq busy \cup {req[i].sid}
  BY <1>0, <1>k, <1>u DEF TypeOK
<1>e. "proposal" \notin stray /\ inFlight = i => \A q \in Proposals : IsDeciding(q) => q = p
  BY <1>0, <1>t, <1>k, <1>s DEF Agreed, OneCard, Flights, IsDeciding, Active
<1>c. inFlight # 0 =>
        /\ req'[inFlight].sid = req[inFlight].sid /\ req'[inFlight].says = req[inFlight].says
        /\ inFlight # i => req'[inFlight] = req[inFlight]
  BY <1>a, <1>t
<1>d. /\ "proposal" \notin stray' => "proposal" \notin stray
      /\ stray' = {} => stray = {} /\ (inFlight = i \/ req[i].says = "yes")
      /\ stray' \in {stray, stray \cup {"decision"}}
  <2>1. CASE inFlight # i /\ req[i].says \in Decisions
    BY <1>u, <2>1
  <2>2. CASE ~(inFlight # i /\ req[i].says \in Decisions)
    BY <1>u, <1>s, <2>2
  <2>3. QED
    BY <2>1, <2>2
<1>1. TypeOK'
  BY <1>0, <1>a, <1>b, <1>d, <1>o, <1>p, <1>u, RuntimeSame DEF TypeOK
<1>2. Stored'
  BY <1>0, <1>t, <1>u, <1>k, <1>a, <1>c, <1>d, <1>o, <1>p, <1>s, <1>b DEF Stored
<1>3. Held'
  BY <1>0, <1>t, <1>u, <1>k, <1>a, <1>c, <1>d, <1>o, <1>p, <1>s, <1>b DEF Held
<1>4. Flights'
  BY <1>0, <1>t, <1>u, <1>k, <1>a, <1>c, <1>d, <1>o, <1>p, <1>s, <1>b DEF Flights
<1>5. OneCard'
  BY <1>0, <1>t, <1>u, <1>k, <1>a, <1>c, <1>d, <1>o, <1>p, <1>s, <1>b DEF OneCard, IsDeciding
<1>6. Shown'
  BY <1>0, <1>t, <1>u, <1>k, <1>a, <1>c, <1>d, <1>o, <1>p, <1>s, <1>b DEF Shown
<1>7. InError'
  BY <1>0, <1>t, <1>u, <1>k, <1>a, <1>c, <1>d, <1>o, <1>p, <1>s, <1>b DEF InError, IsDeciding
<1>8. Agreed'
  <2>1. SUFFICES ASSUME "proposal" \notin stray'
                 PROVE  /\ inFlight' # 0 /\ req'[inFlight'].at = "answered" /\ req'[inFlight'].answer = "required" =>
                             pending'[req'[inFlight'].sid] \in {req'[inFlight'].about, NoProposal}
                        /\ \A q \in Proposals :
                             /\ card'[q] \in Active => pending'[sessionId'] \in {q, NoProposal}
                             /\ IsDeciding(q)' /\ req'[inFlight'].at = "write" => req'[inFlight'].about = q
                             /\ IsDeciding(q)' /\ req'[inFlight'].at = "answered"
                                  /\ req'[inFlight'].answer \in Outcomes \cup {"cancelled"} =>
                                  op'[q].st = req'[inFlight'].answer
                             /\ card'[q] = "confirmed" => op'[q].st = "succeeded"
                             /\ card'[q] \in {"rejected", "unknown", "cancelled"} => op'[q].st = card'[q]
    BY DEF Agreed
  <2>2. inFlight' # 0 /\ req'[inFlight'].at = "answered" /\ req'[inFlight'].answer = "required" =>
          pending'[req'[inFlight'].sid] \in {req'[inFlight'].about, NoProposal}
    BY <1>0, <1>t, <1>k, <1>a, <1>c, <1>d, <1>e, <1>o, <1>p, <1>s, <1>u, <2>1 DEF Agreed, Flights
  <2>3. ASSUME NEW q \in Proposals
        PROVE  /\ card'[q] = "confirmed" => op'[q].st = "succeeded"
               /\ card'[q] \in {"rejected", "unknown", "cancelled"} => op'[q].st = card'[q]
    BY <1>0, <1>t, <1>k, <1>a, <1>c, <1>d, <1>e, <1>o, <1>p, <1>s, <1>u, <2>1 DEF Agreed, Flights
  <2>4. ASSUME NEW q \in Proposals
        PROVE  card'[q] \in Active => pending'[sessionId'] \in {q, NoProposal}
    BY <1>0, <1>t, <1>k, <1>a, <1>c, <1>d, <1>e, <1>o, <1>p, <1>s, <1>u, <2>1 DEF Agreed, OneCard, Flights
  <2>5. ASSUME NEW q \in Proposals, IsDeciding(q)'
        PROVE  /\ req'[inFlight'].at = "write" => req'[inFlight'].about = q
               /\ req'[inFlight'].at = "answered" /\ req'[inFlight'].answer \in Outcomes \cup {"cancelled"} =>
                    op'[q].st = req'[inFlight'].answer
    BY <1>0, <1>t, <1>k, <1>a, <1>c, <1>d, <1>e, <1>o, <1>p, <1>s, <1>u, <2>1, <2>5 DEF Agreed, OneCard, IsDeciding, Flights
  <2>6. QED
    BY <2>2, <2>3, <2>4, <2>5
<1>9. Clicks'
  <2>1. stray' = {} /\ how = "click" => p \in clicked
    BY <1>0, <1>d, <1>e, <1>h, <1>t, <1>s DEF Clicks, OneCard, Decisions
  <2>2. \A q \in Proposals : IsDeciding(q)' /\ req'[inFlight'].says = "confirm" => q \in clicked'
    BY <1>0, <1>c, <1>u DEF Clicks, IsDeciding, OneCard
  <2>3. ClickRunsItsCard'
    BY <1>0, <1>d, <1>k, <1>o, <1>u, <2>1 DEF Clicks, ClickRunsItsCard
  <2>4. QED
    BY <2>2, <2>3 DEF Clicks
<1>10. QED
  BY <1>1, <1>2, <1>3, <1>4, <1>5, <1>6, <1>7, <1>8, <1>9 DEF IInv

(* A turn begins in a session that nobody is using.                        *)
LEMMA BeginTurnKept ==
  ASSUME IInv, NEW i \in Requests, BeginTurn(i)
  PROVE  IInv'
<1> USE Zero, NoProposalAssumption
<1>0. TypeOK /\ Stored /\ Held /\ Flights /\ OneCard
      /\ Shown /\ InError /\ Agreed /\ Clicks
  BY DEF IInv
<1>t. /\ inFlight # 0 => inFlight \in Requests
      /\ sessionId # 0 => sessionId \in Sessions
      /\ \A j \in Requests :
           /\ req[j] \in RequestRecords
           /\ req[j].sid # 0 => req[j].sid \in Sessions
           /\ req[j].about \in Proposals \cup {NoProposal}
      /\ \A s \in Sessions : pending[s] # NoProposal => pending[s] \in Proposals
  BY <1>0, Typed
<1>v. PICK s \in Sessions :
        /\ \/ req[i].sid = 0 /\ home[s] = 0
           \/ req[i].sid = s /\ Known(i) /\ Pending(i) = NoProposal /\ s \notin busy
        /\ home' = [home EXCEPT ![s] = req[i].via]
        /\ busy' = busy \cup {s}
        /\ req' = [req EXCEPT ![i].at = "turn", ![i].sid = s]
  BY DEF BeginTurn
<1>u. /\ UNCHANGED runtimeVars /\ UNCHANGED <<sessionId, inFlight, posted, card, clicked, pending, op, stray>>
      /\ req[i].at = "runtime" /\ req[i].says \in Messages /\ req[i].says \notin Decisions
  BY DEF BeginTurn, TakesUp, browser, Messages, Decisions
<1>k. /\ s \in Sessions /\ s # 0 /\ req[i].via # 0 /\ pending[s] = NoProposal /\ s \notin busy
      /\ req[i].sid \in {0, s}
  <2>1. req[i].via # 0
    BY <1>0, <1>u DEF Flights
  <2>2. CASE req[i].sid = 0 /\ home[s] = 0
    BY <1>0, <2>1, <2>2 DEF Held
  <2>3. CASE req[i].sid = s /\ Known(i) /\ Pending(i) = NoProposal /\ s \notin busy
    BY <2>1, <2>3 DEF Pending
  <2>4. QED
    BY <1>v, <2>2, <2>3
<1>a. /\ req' \in [Requests -> RequestRecords]
      /\ \A j \in Requests \ {i} : req'[j] = req[j]
      /\ req'[i].says = req[i].says /\ req'[i].sid = s /\ req'[i].via = req[i].via
      /\ req'[i].at = "turn"
  <2> DEFINE r == [req[i] EXCEPT !.at = "turn", !.sid = s]
  <2>1. req' = [req EXCEPT ![i] = r]
    BY <1>v
  <2>2. /\ r \in RequestRecords
        /\ r.says = req[i].says /\ r.sid = s /\ r.via = req[i].via /\ r.at = "turn"
    <3>1. s \in 0 .. MaxSessions
      BY <1>k, MaxSessionsAssumption DEF Sessions
    <3>2. QED
      BY <1>t, <3>1 DEF RequestRecords
  <2> HIDE DEF r
  <2>3. QED
    BY <1>0, <2>1, <2>2 DEF TypeOK
<1>b. /\ home' \in [Sessions -> 0 .. MaxStarts] /\ busy' \subseteq Sessions
      /\ home'[s] # 0 /\ \A t \in Sessions \ {s} : home'[t] = home[t]
      /\ busy' = busy \cup {s}
  <2>1. req[i].via \in 0 .. MaxStarts
    BY <1>0, Typed
  <2>2. QED
    BY <1>0, <1>k, <1>v, <2>1 DEF TypeOK
<1>c. inFlight # 0 =>
        /\ req'[inFlight].says = req[inFlight].says
        /\ inFlight # i => req'[inFlight] = req[inFlight]
  BY <1>a, <1>t
<1>e. inFlight = i => \A q \in Proposals : ~IsDeciding(q)
  BY <1>0, <1>u DEF OneCard
<1>1. TypeOK'
  BY <1>0, <1>a, <1>b, <1>u, RuntimeSame DEF TypeOK
<1>2. Stored'
  BY <1>0, <1>t, <1>u, <1>k, <1>a, <1>b, <1>c, <1>e DEF Stored
<1>3. Held'
  BY <1>0, <1>t, <1>u, <1>k, <1>a, <1>b, <1>c, <1>e DEF Held
<1>4. Flights'
  BY <1>0, <1>t, <1>u, <1>k, <1>a, <1>b, <1>c, <1>e DEF Flights
<1>5. OneCard'
  BY <1>0, <1>t, <1>u, <1>k, <1>a, <1>b, <1>c, <1>e DEF OneCard, IsDeciding
<1>6. Shown'
  BY <1>0, <1>t, <1>u, <1>k, <1>a, <1>b, <1>c, <1>e DEF Shown
<1>7. InError'
  BY <1>0, <1>t, <1>u, <1>k, <1>a, <1>b, <1>c, <1>e DEF InError, IsDeciding
<1>8. Agreed'
  <2>1. SUFFICES ASSUME "proposal" \notin stray'
                 PROVE  /\ inFlight' # 0 /\ req'[inFlight'].at = "answered" /\ req'[inFlight'].answer = "required" =>
                             pending'[req'[inFlight'].sid] \in {req'[inFlight'].about, NoProposal}
                        /\ \A q \in Proposals :
                             /\ card'[q] \in Active => pending'[sessionId'] \in {q, NoProposal}
                             /\ IsDeciding(q)' /\ req'[inFlight'].at = "write" => req'[inFlight'].about = q
                             /\ IsDeciding(q)' /\ req'[inFlight'].at = "answered"
                                  /\ req'[inFlight'].answer \in Outcomes \cup {"cancelled"} =>
                                  op'[q].st = req'[inFlight'].answer
                             /\ card'[q] = "confirmed" => op'[q].st = "succeeded"
                             /\ card'[q] \in {"rejected", "unknown", "cancelled"} => op'[q].st = card'[q]
    BY DEF Agreed
  <2>2. inFlight' # 0 /\ req'[inFlight'].at = "answered" /\ req'[inFlight'].answer = "required" =>
          pending'[req'[inFlight'].sid] \in {req'[inFlight'].about, NoProposal}
    BY <1>0, <1>t, <1>u, <1>k, <1>a, <1>b, <1>c, <1>e, <2>1 DEF Agreed, Flights
  <2>3. ASSUME NEW q \in Proposals
        PROVE  /\ card'[q] = "confirmed" => op'[q].st = "succeeded"
               /\ card'[q] \in {"rejected", "unknown", "cancelled"} => op'[q].st = card'[q]
    BY <1>0, <1>t, <1>u, <1>k, <1>a, <1>b, <1>c, <1>e, <2>1 DEF Agreed, Flights
  <2>4. ASSUME NEW q \in Proposals
        PROVE  card'[q] \in Active => pending'[sessionId'] \in {q, NoProposal}
    BY <1>0, <1>t, <1>u, <1>k, <1>a, <1>b, <1>c, <1>e, <2>1 DEF Agreed, OneCard, Flights
  <2>5. ASSUME NEW q \in Proposals, IsDeciding(q)'
        PROVE  /\ req'[inFlight'].at = "write" => req'[inFlight'].about = q
               /\ req'[inFlight'].at = "answered" /\ req'[inFlight'].answer \in Outcomes \cup {"cancelled"} =>
                    op'[q].st = req'[inFlight'].answer
    BY <1>0, <1>t, <1>u, <1>k, <1>a, <1>b, <1>c, <1>e, <2>1, <2>5 DEF Agreed, OneCard, IsDeciding, Flights
  <2>6. QED
    BY <2>2, <2>3, <2>4, <2>5
<1>9. Clicks'
  BY <1>0, <1>t, <1>u, <1>k, <1>a, <1>b, <1>c, <1>e DEF Clicks, OneCard, IsDeciding, ClickRunsItsCard
<1>10. QED
  BY <1>1, <1>2, <1>3, <1>4, <1>5, <1>6, <1>7, <1>8, <1>9 DEF IInv

(* A turn proposes a write, which its session holds from now on.            *)
LEMMA ProposeKept ==
  ASSUME IInv, NEW i \in Requests, NEW p \in Proposals, req[i].at = "turn", op[p].st = "unused",
         UNCHANGED runtimeVars, UNCHANGED <<sessionId, inFlight, posted, card, clicked, home>>,
         busy' = busy \ {req[i].sid},
         op' = [op EXCEPT ![p].st = "pending"],
         pending' = [pending EXCEPT ![req[i].sid] = p],
         Answer(i, "required", p, req[i].sid),
         stray' = stray \cup (IF inFlight # i THEN {"proposal"} ELSE {})
  PROVE  IInv'
<1> USE Zero, NoProposalAssumption
<1>0. TypeOK /\ Stored /\ Held /\ Flights /\ OneCard
      /\ Shown /\ InError /\ Agreed /\ Clicks
  BY DEF IInv
<1>t. /\ inFlight # 0 => inFlight \in Requests
      /\ sessionId # 0 => sessionId \in Sessions
      /\ \A j \in Requests :
           /\ req[j] \in RequestRecords
           /\ req[j].sid # 0 => req[j].sid \in Sessions
           /\ req[j].about \in Proposals \cup {NoProposal}
      /\ \A s \in Sessions : pending[s] # NoProposal => pending[s] \in Proposals
  BY <1>0, Typed
<1>k. /\ req[i].sid \in Sessions /\ req[i].sid \in busy /\ home[req[i].sid] # 0
      /\ pending[req[i].sid] = NoProposal /\ p # NoProposal
      /\ req[i].says \in Messages
  <2>1. req[i].sid \in busy /\ req[i].says \in Messages
    BY <1>0 DEF Held, Flights
  <2>2. req[i].sid \in Sessions
    BY <1>0, <2>1 DEF TypeOK
  <2>3. QED
    BY <1>0, <2>1, <2>2 DEF Held
<1>a. /\ req' \in [Requests -> RequestRecords]
      /\ \A j \in Requests \ {i} : req'[j] = req[j]
      /\ inFlight # i => req'[i] = NoRequest
      /\ inFlight = i =>
           /\ req'[i].says = req[i].says /\ req'[i].sid = req[i].sid /\ req'[i].via = req[i].via
           /\ req'[i].at = "answered" /\ req'[i].answer = "required"
           /\ req'[i].about = IF p = NoProposal THEN req[i].about ELSE p
      /\ inFlight # i =>
           /\ req'[i].says = "none" /\ req'[i].at = "none" /\ req'[i].sid = 0
  <2>1. "required" \in Answers
    BY DEF Answers
  <2>2. QED
    BY <1>0, <1>k, <2>1, Answering DEF NoRequest
<1>b. inFlight = i => req'[i].about = p
  BY <1>a, <1>k
<1>o. /\ op' \in [Proposals -> OpRecords]
      /\ \A q \in Proposals \ {p} : op'[q] = op[q]
      /\ op'[p].st = "pending" /\ op'[p].by = op[p].by
  BY <1>0 DEF TypeOK, OpRecords
<1>p. /\ pending' \in [Sessions -> Proposals \cup {NoProposal}]
      /\ \A t \in Sessions \ {req[i].sid} : pending'[t] = pending[t] /\ pending[t] # p
      /\ pending'[req[i].sid] = p
  <2>1. \A t \in Sessions : pending[t] # p
    BY <1>0 DEF Stored
  <2>2. QED
    BY <1>0, <1>k, <2>1 DEF TypeOK
<1>s. /\ "required" \notin Outcomes \cup {"cancelled", "CONFIRMATION_NOT_FOUND"}
      /\ "pending" \notin Outcomes \cup {"cancelled"}
      /\ "unused" \notin Outcomes \cup {"cancelled"} /\ card[p] = "none"
      /\ req[i].says \notin Decisions
  BY <1>0, <1>k DEF Outcomes, Messages, Decisions, Stored
<1>c. inFlight # 0 =>
        /\ req'[inFlight].sid = req[inFlight].sid /\ req'[inFlight].says = req[inFlight].says
        /\ inFlight # i => req'[inFlight] = req[inFlight]
  BY <1>a, <1>t
<1>d. /\ "proposal" \notin stray' => "proposal" \notin stray /\ inFlight = i
      /\ stray' = {} => stray = {}
      /\ stray' \subseteq {"decision", "proposal"}
  BY <1>0 DEF TypeOK
<1>e. inFlight = i => \A q \in Proposals : card[q] \notin Active
  BY <1>0, <1>t, <1>s DEF OneCard, IsDeciding, Active
<1>1. TypeOK'
  BY <1>0, <1>a, <1>d, <1>o, <1>p, RuntimeSame DEF TypeOK
<1>2. Stored'
  BY <1>0, <1>t, <1>k, <1>a, <1>b, <1>c, <1>d, <1>e, <1>o, <1>p, <1>s DEF Stored
<1>3. Held'
  BY <1>0, <1>t, <1>k, <1>a, <1>b, <1>c, <1>d, <1>e, <1>o, <1>p, <1>s DEF Held
<1>4. Flights'
  BY <1>0, <1>t, <1>k, <1>a, <1>b, <1>c, <1>d, <1>e, <1>o, <1>p, <1>s DEF Flights
<1>5. OneCard'
  BY <1>0, <1>t, <1>k, <1>a, <1>b, <1>c, <1>d, <1>e, <1>o, <1>p, <1>s DEF OneCard, IsDeciding
<1>6. Shown'
  BY <1>0, <1>t, <1>k, <1>a, <1>b, <1>c, <1>d, <1>e, <1>o, <1>p, <1>s DEF Shown
<1>7. InError'
  BY <1>0, <1>t, <1>k, <1>a, <1>b, <1>c, <1>d, <1>e, <1>o, <1>p, <1>s DEF InError, IsDeciding
<1>8. Agreed'
  <2>1. SUFFICES ASSUME "proposal" \notin stray'
                 PROVE  /\ inFlight' # 0 /\ req'[inFlight'].at = "answered" /\ req'[inFlight'].answer = "required" =>
                             pending'[req'[inFlight'].sid] \in {req'[inFlight'].about, NoProposal}
                        /\ \A q \in Proposals :
                             /\ card'[q] \in Active => pending'[sessionId'] \in {q, NoProposal}
                             /\ IsDeciding(q)' /\ req'[inFlight'].at = "write" => req'[inFlight'].about = q
                             /\ IsDeciding(q)' /\ req'[inFlight'].at = "answered"
                                  /\ req'[inFlight'].answer \in Outcomes \cup {"cancelled"} =>
                                  op'[q].st = req'[inFlight'].answer
                             /\ card'[q] = "confirmed" => op'[q].st = "succeeded"
                             /\ card'[q] \in {"rejected", "unknown", "cancelled"} => op'[q].st = card'[q]
    BY DEF Agreed
  <2>2. inFlight' # 0 /\ req'[inFlight'].at = "answered" /\ req'[inFlight'].answer = "required" =>
          pending'[req'[inFlight'].sid] \in {req'[inFlight'].about, NoProposal}
    BY <1>0, <1>t, <1>k, <1>a, <1>b, <1>c, <1>d, <1>e, <1>o, <1>p, <1>s, <2>1 DEF Agreed, Flights, Active
  <2>3. ASSUME NEW q \in Proposals
        PROVE  /\ card'[q] = "confirmed" => op'[q].st = "succeeded"
               /\ card'[q] \in {"rejected", "unknown", "cancelled"} => op'[q].st = card'[q]
    BY <1>0, <1>t, <1>k, <1>a, <1>b, <1>c, <1>d, <1>e, <1>o, <1>p, <1>s, <2>1 DEF Agreed, Flights, Active
  <2>4. ASSUME NEW q \in Proposals
        PROVE  card'[q] \in Active => pending'[sessionId'] \in {q, NoProposal}
    BY <1>0, <1>t, <1>k, <1>a, <1>b, <1>c, <1>d, <1>e, <1>o, <1>p, <1>s, <2>1 DEF Agreed, OneCard, Flights, Active
  <2>5. ASSUME NEW q \in Proposals, IsDeciding(q)'
        PROVE  /\ req'[inFlight'].at = "write" => req'[inFlight'].about = q
               /\ req'[inFlight'].at = "answered" /\ req'[inFlight'].answer \in Outcomes \cup {"cancelled"} =>
                    op'[q].st = req'[inFlight'].answer
    BY <1>0, <1>t, <1>k, <1>a, <1>b, <1>c, <1>d, <1>e, <1>o, <1>p, <1>s, <2>1, <2>5 DEF Agreed, OneCard, IsDeciding, Flights, Active
  <2>6. QED
    BY <2>2, <2>3, <2>4, <2>5
<1>9. Clicks'
  BY <1>0, <1>t, <1>k, <1>a, <1>b, <1>c, <1>d, <1>e, <1>o, <1>p, <1>s DEF Clicks, OneCard, IsDeciding, ClickRunsItsCard
<1>10. QED
  BY <1>1, <1>2, <1>3, <1>4, <1>5, <1>6, <1>7, <1>8, <1>9 DEF IInv

(* A write ends, with its outcome or an error after it.                    *)
LEMMA EndWriteKept ==
  ASSUME IInv, NEW i \in Requests, EndWrite(i)
  PROVE  IInv'
<1> USE Zero, NoProposalAssumption
<1>0. TypeOK /\ Stored /\ Held /\ Flights /\ OneCard
      /\ Shown /\ InError /\ Agreed /\ Clicks
  BY DEF IInv
<1>t. /\ inFlight # 0 => inFlight \in Requests
      /\ sessionId # 0 => sessionId \in Sessions
      /\ \A j \in Requests :
           /\ req[j] \in RequestRecords
           /\ req[j].sid # 0 => req[j].sid \in Sessions
           /\ req[j].about \in Proposals \cup {NoProposal}
      /\ \A s \in Sessions : pending[s] # NoProposal => pending[s] \in Proposals
  BY <1>0, Typed
<1>v. PICK o \in Outcomes, a \in Outcomes \cup {"OTHER_ERROR"} :
        /\ a \in {o, "OTHER_ERROR"}
        /\ op' = [op EXCEPT ![req[i].about].st = o]
        /\ Answer(i, a, req[i].about, req[i].sid)
  BY DEF EndWrite
<1> DEFINE p == req[i].about
<1>u. /\ UNCHANGED runtimeVars /\ UNCHANGED <<sessionId, inFlight, posted, card, clicked, home, pending, stray>>
      /\ req[i].at = "write" /\ busy' = busy \ {req[i].sid}
  BY DEF EndWrite, browser
<1>k. /\ p = req[i].about /\ p \in Proposals /\ op[p].st = "running" /\ p # NoProposal
      /\ req[i].sid \in Sessions /\ req[i].sid \in busy
  BY <1>0, <1>u DEF Stored, Held, TypeOK
<1>a. /\ req' \in [Requests -> RequestRecords]
      /\ \A j \in Requests \ {i} : req'[j] = req[j]
      /\ inFlight # i => req'[i] = NoRequest
      /\ inFlight = i =>
           /\ req'[i].says = req[i].says /\ req'[i].sid = req[i].sid /\ req'[i].via = req[i].via
           /\ req'[i].at = "answered" /\ req'[i].answer = a
           /\ req'[i].about = IF p = NoProposal THEN req[i].about ELSE p
      /\ inFlight # i =>
           /\ req'[i].says = "none" /\ req'[i].at = "none" /\ req'[i].sid = 0
  <2>1. a \in Answers
    BY <1>v DEF Answers, Errors
  <2>2. QED
    BY <1>0, <1>k, <1>v, <2>1, Answering DEF NoRequest
<1> HIDE DEF p
<1>b. inFlight = i => req'[i].about = p
  BY <1>a, <1>k
<1>o. /\ op' \in [Proposals -> OpRecords]
      /\ \A q \in Proposals \ {p} : op'[q] = op[q]
      /\ op'[p].st = o /\ op'[p].by = op[p].by
  <2>1. op' = [op EXCEPT ![p].st = o]
    BY <1>v DEF p
  <2>2. op[p] \in OpRecords /\ [op[p] EXCEPT !.st = o] \in OpRecords
    BY <1>0, <1>k, <1>v DEF TypeOK, OpRecords
  <2>3. QED
    BY <1>0, <1>k, <2>1, <2>2 DEF TypeOK, OpRecords
<1>s. /\ o \in Outcomes /\ o # "unused" /\ o # "running" /\ o # "pending" /\ a \in {o, "OTHER_ERROR"}
      /\ "OTHER_ERROR" \notin Outcomes \cup {"cancelled", "CONFIRMATION_NOT_FOUND", "required"}
      /\ "CONFIRMATION_NOT_FOUND" \notin Outcomes /\ "required" \notin Outcomes
      /\ "running" \notin Outcomes \cup {"cancelled", "rejected", "unknown"}
  BY <1>v DEF Outcomes
<1>c. inFlight # 0 =>
        /\ req'[inFlight].sid = req[inFlight].sid /\ req'[inFlight].says = req[inFlight].says
        /\ inFlight # i => req'[inFlight] = req[inFlight]
  BY <1>a, <1>t
<1>1. TypeOK'
  BY <1>0, <1>a, <1>o, <1>u, RuntimeSame DEF TypeOK
<1>2. Stored'
  BY <1>0, <1>t, <1>u, <1>k, <1>a, <1>b, <1>c, <1>o, <1>s DEF Stored
<1>3. Held'
  BY <1>0, <1>t, <1>u, <1>k, <1>a, <1>b, <1>c, <1>o, <1>s DEF Held
<1>4. Flights'
  BY <1>0, <1>t, <1>u, <1>k, <1>a, <1>b, <1>c, <1>o, <1>s DEF Flights
<1>5. OneCard'
  BY <1>0, <1>t, <1>u, <1>k, <1>a, <1>b, <1>c, <1>o, <1>s DEF OneCard, IsDeciding
<1>6. Shown'
  BY <1>0, <1>t, <1>u, <1>k, <1>a, <1>b, <1>c, <1>o, <1>s DEF Shown
<1>7. InError'
  BY <1>0, <1>t, <1>u, <1>k, <1>a, <1>b, <1>c, <1>o, <1>s DEF InError, IsDeciding
<1>8. Agreed'
  <2>1. SUFFICES ASSUME "proposal" \notin stray'
                 PROVE  /\ inFlight' # 0 /\ req'[inFlight'].at = "answered" /\ req'[inFlight'].answer = "required" =>
                             pending'[req'[inFlight'].sid] \in {req'[inFlight'].about, NoProposal}
                        /\ \A q \in Proposals :
                             /\ card'[q] \in Active => pending'[sessionId'] \in {q, NoProposal}
                             /\ IsDeciding(q)' /\ req'[inFlight'].at = "write" => req'[inFlight'].about = q
                             /\ IsDeciding(q)' /\ req'[inFlight'].at = "answered"
                                  /\ req'[inFlight'].answer \in Outcomes \cup {"cancelled"} =>
                                  op'[q].st = req'[inFlight'].answer
                             /\ card'[q] = "confirmed" => op'[q].st = "succeeded"
                             /\ card'[q] \in {"rejected", "unknown", "cancelled"} => op'[q].st = card'[q]
    BY DEF Agreed
  <2>2. inFlight' # 0 /\ req'[inFlight'].at = "answered" /\ req'[inFlight'].answer = "required" =>
          pending'[req'[inFlight'].sid] \in {req'[inFlight'].about, NoProposal}
    BY <1>0, <1>t, <1>u, <1>k, <1>a, <1>b, <1>c, <1>o, <1>s, <2>1 DEF Agreed, Flights
  <2>3. ASSUME NEW q \in Proposals
        PROVE  /\ card'[q] = "confirmed" => op'[q].st = "succeeded"
               /\ card'[q] \in {"rejected", "unknown", "cancelled"} => op'[q].st = card'[q]
    BY <1>0, <1>t, <1>u, <1>k, <1>a, <1>b, <1>c, <1>o, <1>s, <2>1 DEF Agreed, Flights
  <2>4. ASSUME NEW q \in Proposals
        PROVE  card'[q] \in Active => pending'[sessionId'] \in {q, NoProposal}
    BY <1>0, <1>t, <1>u, <1>k, <1>a, <1>b, <1>c, <1>o, <1>s, <2>1 DEF Agreed, OneCard, Flights
  <2>5. ASSUME NEW q \in Proposals, IsDeciding(q)'
        PROVE  /\ req'[inFlight'].at = "write" => req'[inFlight'].about = q
               /\ req'[inFlight'].at = "answered" /\ req'[inFlight'].answer \in Outcomes \cup {"cancelled"} =>
                    op'[q].st = req'[inFlight'].answer
    BY <1>0, <1>t, <1>u, <1>k, <1>a, <1>b, <1>c, <1>o, <1>s, <2>1, <2>5 DEF Agreed, OneCard, IsDeciding, Flights
  <2>6. QED
    BY <2>2, <2>3, <2>4, <2>5
<1>9. Clicks'
  BY <1>0, <1>t, <1>u, <1>k, <1>a, <1>b, <1>c, <1>o, <1>s DEF Clicks, OneCard, IsDeciding, ClickRunsItsCard
<1>10. QED
  BY <1>1, <1>2, <1>3, <1>4, <1>5, <1>6, <1>7, <1>8, <1>9 DEF IInv

-----------------------------------------------------------------------------
(* The browser.                                                            *)

LEMMA Posting ==
  ASSUME TypeOK, NEW says \in Decisions \cup Messages, NEW p \in Proposals \cup {NoProposal}, Post(says, p)
  PROVE  LET i == posted + 1 IN
         /\ i \in Requests /\ inFlight = 0 /\ inFlight' = i /\ posted' = i
         /\ i > posted /\ posted' \in 0 .. MaxRequests /\ inFlight' \in 0 .. posted'
         /\ \A j \in Requests : j > posted' => j > posted
         /\ req' \in [Requests -> RequestRecords]
         /\ \A j \in Requests \ {i} : req'[j] = req[j]
         /\ req'[i].says = says /\ req'[i].sid = sessionId /\ req'[i].at = "network"
<1> DEFINE i == posted + 1
<1> DEFINE r == [NoRequest EXCEPT !.says = says, !.about = p, !.sid = sessionId, !.at = "network"]
<1>1. /\ i \in Requests /\ inFlight = 0 /\ inFlight' = i /\ posted' = i
      /\ i > posted /\ posted' \in 0 .. MaxRequests /\ inFlight' \in 0 .. posted'
      /\ \A j \in Requests : j > posted' => j > posted
  BY MaxRequestsAssumption DEF TypeOK, Post, Requests
<1>2. r \in RequestRecords /\ r.says = says /\ r.sid = sessionId /\ r.at = "network"
  BY NoRequestTyped DEF TypeOK, RequestRecords, NoRequest
<1>3. req' = [req EXCEPT ![i] = r]
  BY DEF Post
<1> HIDE DEF i, r
<1>4. QED
  <2>1. /\ req' \in [Requests -> RequestRecords]
        /\ \A j \in Requests \ {i} : req'[j] = req[j]
        /\ req'[i].says = says /\ req'[i].sid = sessionId /\ req'[i].at = "network"
    BY <1>1, <1>2, <1>3 DEF TypeOK
  <2>2. QED
    BY <1>1, <2>1 DEF i

(* A message is sent while no card waits.                                  *)
LEMMA SubmitKept ==
  ASSUME IInv, NEW text \in Messages, Submit(text)
  PROVE  IInv'
<1> USE Zero, NoProposalAssumption
<1>0. TypeOK /\ Stored /\ Held /\ Flights /\ OneCard
      /\ Shown /\ InError /\ Agreed /\ Clicks
  BY DEF IInv
<1>t. /\ inFlight # 0 => inFlight \in Requests
      /\ sessionId # 0 => sessionId \in Sessions
      /\ \A j \in Requests :
           /\ req[j] \in RequestRecords
           /\ req[j].sid # 0 => req[j].sid \in Sessions
           /\ req[j].about \in Proposals \cup {NoProposal}
      /\ \A s \in Sessions : pending[s] # NoProposal => pending[s] \in Proposals
  BY <1>0, Typed
<1> DEFINE i == posted + 1
<1>a. /\ i \in Requests /\ inFlight = 0 /\ inFlight' = i /\ posted' = i
      /\ i > posted /\ posted' \in 0 .. MaxRequests /\ inFlight' \in 0 .. posted'
      /\ \A j \in Requests : j > posted' => j > posted
      /\ req' \in [Requests -> RequestRecords]
      /\ \A j \in Requests \ {i} : req'[j] = req[j]
      /\ req'[i].says = text /\ req'[i].sid = sessionId /\ req'[i].at = "network"
  <2>1. text \in Decisions \cup Messages /\ NoProposal \in Proposals \cup {NoProposal} /\ Post(text, NoProposal)
    BY DEF Submit, Decide
  <2>2. QED
    BY <1>0, <2>1, Posting
<1> HIDE DEF i
<1>b. i # 0 /\ req[i].at = "none"
  BY <1>0, <1>a DEF Flights
<1>c. \A j \in Requests : req[j].at # "none" => req'[j] = req[j]
  BY <1>a, <1>b
<1>d. \A j \in Requests : req[j].at # "answered"
  BY <1>0, <1>a DEF Flights
<1>u. /\ UNCHANGED runtimeVars /\ UNCHANGED <<sessionId, card, clicked, home, pending, busy, op, stray>>
      /\ \A p \in Proposals : card[p] \notin Active
  BY DEF Submit, Post, sessions, ComposerBlocked
<1>e. \A p \in Proposals : ~IsDeciding(p) /\ card[p] # "pending"
  BY <1>u DEF IsDeciding, Active
<1>s. text \notin Decisions /\ text \in Messages
  BY DEF Decisions, Messages
<1>1. TypeOK'
  BY <1>0, <1>a, <1>u, RuntimeSame DEF TypeOK
<1>2. Stored'
  BY <1>0, <1>t, <1>a, <1>b, <1>c, <1>d, <1>e, <1>u, <1>s DEF Stored
<1>3. Held'
  BY <1>0, <1>t, <1>a, <1>b, <1>c, <1>d, <1>e, <1>u, <1>s DEF Held
<1>4. Flights'
  BY <1>0, <1>t, <1>a, <1>b, <1>c, <1>d, <1>e, <1>u, <1>s DEF Flights
<1>5. OneCard'
  BY <1>0, <1>t, <1>a, <1>b, <1>c, <1>d, <1>e, <1>u, <1>s DEF OneCard, IsDeciding
<1>6. Shown'
  BY <1>0, <1>t, <1>a, <1>b, <1>c, <1>d, <1>e, <1>u, <1>s DEF Shown
<1>7. InError'
  BY <1>0, <1>t, <1>a, <1>b, <1>c, <1>d, <1>e, <1>u, <1>s DEF InError, IsDeciding
<1>8. Agreed'
  <2>1. SUFFICES ASSUME "proposal" \notin stray'
                 PROVE  /\ inFlight' # 0 /\ req'[inFlight'].at = "answered" /\ req'[inFlight'].answer = "required" =>
                             pending'[req'[inFlight'].sid] \in {req'[inFlight'].about, NoProposal}
                        /\ \A q \in Proposals :
                             /\ card'[q] \in Active => pending'[sessionId'] \in {q, NoProposal}
                             /\ IsDeciding(q)' /\ req'[inFlight'].at = "write" => req'[inFlight'].about = q
                             /\ IsDeciding(q)' /\ req'[inFlight'].at = "answered"
                                  /\ req'[inFlight'].answer \in Outcomes \cup {"cancelled"} =>
                                  op'[q].st = req'[inFlight'].answer
                             /\ card'[q] = "confirmed" => op'[q].st = "succeeded"
                             /\ card'[q] \in {"rejected", "unknown", "cancelled"} => op'[q].st = card'[q]
    BY DEF Agreed
  <2>2. inFlight' # 0 /\ req'[inFlight'].at = "answered" /\ req'[inFlight'].answer = "required" =>
          pending'[req'[inFlight'].sid] \in {req'[inFlight'].about, NoProposal}
    BY <1>0, <1>t, <1>a, <1>b, <1>c, <1>d, <1>e, <1>u, <2>1 DEF Agreed, IsDeciding
  <2>3. ASSUME NEW q \in Proposals
        PROVE  /\ card'[q] = "confirmed" => op'[q].st = "succeeded"
               /\ card'[q] \in {"rejected", "unknown", "cancelled"} => op'[q].st = card'[q]
    BY <1>0, <1>t, <1>a, <1>b, <1>c, <1>d, <1>e, <1>u, <2>1 DEF Agreed, IsDeciding
  <2>4. ASSUME NEW q \in Proposals
        PROVE  card'[q] \in Active => pending'[sessionId'] \in {q, NoProposal}
    BY <1>0, <1>t, <1>a, <1>b, <1>c, <1>d, <1>e, <1>u, <2>1 DEF Agreed, OneCard, IsDeciding
  <2>5. ASSUME NEW q \in Proposals, IsDeciding(q)'
        PROVE  /\ req'[inFlight'].at = "write" => req'[inFlight'].about = q
               /\ req'[inFlight'].at = "answered" /\ req'[inFlight'].answer \in Outcomes \cup {"cancelled"} =>
                    op'[q].st = req'[inFlight'].answer
    BY <1>0, <1>t, <1>a, <1>b, <1>c, <1>d, <1>e, <1>u, <2>1, <2>5 DEF Agreed, OneCard, IsDeciding, IsDeciding
  <2>6. QED
    BY <2>2, <2>3, <2>4, <2>5
<1>9. Clicks'
  BY <1>0, <1>t, <1>a, <1>b, <1>c, <1>d, <1>e, <1>u, <1>s DEF Clicks, OneCard, IsDeciding, ClickRunsItsCard
<1>10. QED
  BY <1>1, <1>2, <1>3, <1>4, <1>5, <1>6, <1>7, <1>8, <1>9 DEF IInv

(* A button of the card is pressed.                                       *)
LEMMA DecideKept ==
  ASSUME IInv, NEW p \in Proposals, NEW decision \in Decisions, Decide(p, decision)
  PROVE  IInv'
<1> USE Zero, NoProposalAssumption
<1>0. TypeOK /\ Stored /\ Held /\ Flights /\ OneCard
      /\ Shown /\ InError /\ Agreed /\ Clicks
  BY DEF IInv
<1>t. /\ inFlight # 0 => inFlight \in Requests
      /\ sessionId # 0 => sessionId \in Sessions
      /\ \A j \in Requests :
           /\ req[j] \in RequestRecords
           /\ req[j].sid # 0 => req[j].sid \in Sessions
           /\ req[j].about \in Proposals \cup {NoProposal}
      /\ \A s \in Sessions : pending[s] # NoProposal => pending[s] \in Proposals
  BY <1>0, Typed
<1> DEFINE i == posted + 1
<1>a. /\ i \in Requests /\ inFlight = 0 /\ inFlight' = i /\ posted' = i
      /\ i > posted /\ posted' \in 0 .. MaxRequests /\ inFlight' \in 0 .. posted'
      /\ \A j \in Requests : j > posted' => j > posted
      /\ req' \in [Requests -> RequestRecords]
      /\ \A j \in Requests \ {i} : req'[j] = req[j]
      /\ req'[i].says = decision /\ req'[i].sid = sessionId /\ req'[i].at = "network"
  <2>1. decision \in Decisions \cup Messages /\ p \in Proposals \cup {NoProposal} /\ Post(decision, p)
    BY DEF Submit, Decide
  <2>2. QED
    BY <1>0, <2>1, Posting
<1> HIDE DEF i
<1>b. i # 0 /\ req[i].at = "none"
  BY <1>0, <1>a DEF Flights
<1>c. \A j \in Requests : req[j].at # "none" => req'[j] = req[j]
  BY <1>a, <1>b
<1>d. \A j \in Requests : req[j].at # "answered"
  BY <1>0, <1>a DEF Flights
<1>u. /\ UNCHANGED runtimeVars /\ UNCHANGED <<sessionId, home, pending, busy, op, stray>>
      /\ sessionId # 0 /\ card[p] = "pending"
      /\ card' = [card EXCEPT ![p] = IF decision = "confirm" THEN "confirming" ELSE "cancelling"]
      /\ clicked' = IF decision = "confirm" THEN clicked \cup {p} ELSE clicked
  BY DEF Decide, Post, sessions
<1>f. /\ card' \in [Proposals -> CardStates]
      /\ \A q \in Proposals \ {p} : card'[q] = card[q] /\ card[q] \notin Active
      /\ card'[p] \in {"confirming", "cancelling"}
  BY <1>0, <1>u DEF TypeOK, CardStates, OneCard, Active
<1>e. /\ \A q \in Proposals \ {p} : ~IsDeciding(q)' /\ card'[q] # "pending" /\ card'[q] \notin Active
      /\ IsDeciding(p)' /\ card'[p] \in Active /\ card[p] \in Active
      /\ card[p] # "none" /\ card'[p] \notin {"none", "pending", "error", "confirmed", "rejected", "unknown", "cancelled"}
  BY <1>f, <1>u DEF IsDeciding, Active
<1>s. decision \notin Messages /\ decision \in Decisions
  BY DEF Decisions, Messages
<1>g. /\ clicked' \subseteq Proposals /\ clicked \subseteq clicked'
      /\ decision = "confirm" => p \in clicked'
  BY <1>0, <1>u DEF TypeOK
<1>1. TypeOK'
  BY <1>0, <1>a, <1>f, <1>g, <1>u, RuntimeSame DEF TypeOK
<1>2. Stored'
  BY <1>0, <1>t, <1>a, <1>b, <1>c, <1>d, <1>e, <1>f, <1>g, <1>u, <1>s DEF Stored
<1>3. Held'
  BY <1>0, <1>t, <1>a, <1>b, <1>c, <1>d, <1>e, <1>f, <1>g, <1>u, <1>s DEF Held
<1>4. Flights'
  BY <1>0, <1>t, <1>a, <1>b, <1>c, <1>d, <1>e, <1>f, <1>g, <1>u, <1>s DEF Flights
<1>5. OneCard'
  BY <1>0, <1>t, <1>a, <1>b, <1>c, <1>d, <1>e, <1>f, <1>g, <1>u, <1>s DEF OneCard, IsDeciding
<1>6. Shown'
  BY <1>0, <1>t, <1>a, <1>b, <1>c, <1>d, <1>e, <1>f, <1>g, <1>u, <1>s DEF Shown
<1>7. InError'
  BY <1>0, <1>t, <1>a, <1>b, <1>c, <1>d, <1>e, <1>f, <1>g, <1>u, <1>s DEF InError, IsDeciding
<1>8. Agreed'
  <2>1. SUFFICES ASSUME "proposal" \notin stray'
                 PROVE  /\ inFlight' # 0 /\ req'[inFlight'].at = "answered" /\ req'[inFlight'].answer = "required" =>
                             pending'[req'[inFlight'].sid] \in {req'[inFlight'].about, NoProposal}
                        /\ \A q \in Proposals :
                             /\ card'[q] \in Active => pending'[sessionId'] \in {q, NoProposal}
                             /\ IsDeciding(q)' /\ req'[inFlight'].at = "write" => req'[inFlight'].about = q
                             /\ IsDeciding(q)' /\ req'[inFlight'].at = "answered"
                                  /\ req'[inFlight'].answer \in Outcomes \cup {"cancelled"} =>
                                  op'[q].st = req'[inFlight'].answer
                             /\ card'[q] = "confirmed" => op'[q].st = "succeeded"
                             /\ card'[q] \in {"rejected", "unknown", "cancelled"} => op'[q].st = card'[q]
    BY DEF Agreed
  <2>2. inFlight' # 0 /\ req'[inFlight'].at = "answered" /\ req'[inFlight'].answer = "required" =>
          pending'[req'[inFlight'].sid] \in {req'[inFlight'].about, NoProposal}
    BY <1>0, <1>t, <1>a, <1>b, <1>c, <1>d, <1>e, <1>f, <1>u, <2>1 DEF Agreed
  <2>3. ASSUME NEW q \in Proposals
        PROVE  /\ card'[q] = "confirmed" => op'[q].st = "succeeded"
               /\ card'[q] \in {"rejected", "unknown", "cancelled"} => op'[q].st = card'[q]
    BY <1>0, <1>t, <1>a, <1>b, <1>c, <1>d, <1>e, <1>f, <1>u, <2>1 DEF Agreed
  <2>4. ASSUME NEW q \in Proposals
        PROVE  card'[q] \in Active => pending'[sessionId'] \in {q, NoProposal}
    BY <1>0, <1>t, <1>a, <1>b, <1>c, <1>d, <1>e, <1>f, <1>u, <2>1 DEF Agreed, OneCard
  <2>5. ASSUME NEW q \in Proposals, IsDeciding(q)'
        PROVE  /\ req'[inFlight'].at = "write" => req'[inFlight'].about = q
               /\ req'[inFlight'].at = "answered" /\ req'[inFlight'].answer \in Outcomes \cup {"cancelled"} =>
                    op'[q].st = req'[inFlight'].answer
    BY <1>0, <1>t, <1>a, <1>b, <1>c, <1>d, <1>e, <1>f, <1>u, <2>1, <2>5 DEF Agreed, OneCard, IsDeciding
  <2>6. QED
    BY <2>2, <2>3, <2>4, <2>5
<1>9. Clicks'
  <2>1. \A q \in Proposals : IsDeciding(q)' => q = p
    BY <1>e
  <2>2. \A q \in Proposals : IsDeciding(q)' /\ req'[inFlight'].says = "confirm" => q \in clicked'
    BY <1>a, <1>g, <2>1
  <2>3. ClickRunsItsCard'
    BY <1>0, <1>g, <1>u DEF Clicks, ClickRunsItsCard
  <2>4. QED
    BY <2>2, <2>3 DEF Clicks
<1>10. QED
  BY <1>1, <1>2, <1>3, <1>4, <1>5, <1>6, <1>7, <1>8, <1>9 DEF IInv

(* The fetch fails: a card that was being decided is pending again.        *)
LEMMA FetchFailsKept ==
  ASSUME IInv, NEW i \in Requests, FetchFails(i)
  PROVE  IInv'
<1> USE Zero, NoProposalAssumption
<1>0. TypeOK /\ Stored /\ Held /\ Flights /\ OneCard
      /\ Shown /\ InError /\ Agreed /\ Clicks
  BY DEF IInv
<1>t. /\ inFlight # 0 => inFlight \in Requests
      /\ sessionId # 0 => sessionId \in Sessions
      /\ \A j \in Requests :
           /\ req[j] \in RequestRecords
           /\ req[j].sid # 0 => req[j].sid \in Sessions
           /\ req[j].about \in Proposals \cup {NoProposal}
      /\ \A s \in Sessions : pending[s] # NoProposal => pending[s] \in Proposals
  BY <1>0, Typed
<1>a. /\ inFlight = i /\ inFlight' = 0
      /\ req' \in [Requests -> RequestRecords]
      /\ \A j \in Requests \ {i} : req'[j] = req[j]
      /\ req[i].at # "answered" => req'[i] = req[i]
      /\ req'[i].at # "answered"
      /\ req[i].at = "answered" => req'[i].at = "none"
  BY <1>0, NoRequestTyped DEF FetchFails, Done, TypeOK, NoRequest
<1>b. /\ \A j \in Requests : req'[j].at # "none" => req'[j] = req[j]
      /\ \A j \in Requests : req'[j].at # "answered"
      /\ \A j \in Requests : j > posted => req'[j].at = "none"
      /\ i # 0
  BY <1>0, <1>a DEF Flights
<1>u. UNCHANGED runtimeVars /\ UNCHANGED <<posted, clicked, home, pending, busy, op, stray>>
  BY DEF FetchFails, Done, sessions
<1>f. /\ UNCHANGED sessionId
      /\ card' \in [Proposals -> CardStates]
      /\ \A p \in Proposals : card'[p] = IF IsDeciding(p) THEN "pending" ELSE card[p]
  <2>1. card' = [p \in Proposals |-> IF IsDeciding(p) THEN "pending" ELSE card[p]]
    BY DEF FetchFails, Deciding, IsDeciding
  <2>2. \A p \in Proposals : card[p] \in CardStates /\ "pending" \in CardStates
    BY <1>0 DEF TypeOK, CardStates, Active
  <2>3. QED
    BY <2>1, <2>2 DEF FetchFails
<1>e. /\ \A p \in Proposals : ~IsDeciding(p)' /\ (card'[p] \in Active => card[p] \in Active)
      /\ \A p \in Proposals : card'[p] # card[p] => card[p] \in Active /\ card'[p] = "pending" /\ card[p] # "none"
      /\ \A p \in Proposals : card'[p] # "none" => card[p] # "none"
      /\ \A p \in Proposals : card'[p] \notin {"pending", "none"} => card'[p] = card[p]
  BY <1>f DEF IsDeciding, Active
<1>1. TypeOK'
  <2>1. inFlight' \in 0 .. posted'
    BY <1>0, <1>a, <1>u DEF TypeOK
  <2>2. QED
    BY <1>0, <1>a, <1>f, <1>u, <2>1, RuntimeSame DEF TypeOK
<1>2. Stored'
  BY <1>0, <1>t, <1>a, <1>b, <1>e, <1>f, <1>u DEF Stored
<1>3. Held'
  BY <1>0, <1>t, <1>a, <1>b, <1>e, <1>f, <1>u DEF Held
<1>4. Flights'
  BY <1>0, <1>t, <1>a, <1>b, <1>e, <1>f, <1>u DEF Flights
<1>5. OneCard'
  BY <1>0, <1>t, <1>a, <1>b, <1>e, <1>f, <1>u DEF OneCard, IsDeciding
<1>6. Shown'
  BY <1>0, <1>t, <1>a, <1>b, <1>e, <1>f, <1>u DEF Shown
<1>7. InError'
  BY <1>0, <1>t, <1>a, <1>b, <1>e, <1>f, <1>u DEF InError, IsDeciding
<1>8. Agreed'
  <2>1. SUFFICES ASSUME "proposal" \notin stray'
                 PROVE  /\ inFlight' # 0 /\ req'[inFlight'].at = "answered" /\ req'[inFlight'].answer = "required" =>
                             pending'[req'[inFlight'].sid] \in {req'[inFlight'].about, NoProposal}
                        /\ \A q \in Proposals :
                             /\ card'[q] \in Active => pending'[sessionId'] \in {q, NoProposal}
                             /\ IsDeciding(q)' /\ req'[inFlight'].at = "write" => req'[inFlight'].about = q
                             /\ IsDeciding(q)' /\ req'[inFlight'].at = "answered"
                                  /\ req'[inFlight'].answer \in Outcomes \cup {"cancelled"} =>
                                  op'[q].st = req'[inFlight'].answer
                             /\ card'[q] = "confirmed" => op'[q].st = "succeeded"
                             /\ card'[q] \in {"rejected", "unknown", "cancelled"} => op'[q].st = card'[q]
    BY DEF Agreed
  <2>2. inFlight' # 0 /\ req'[inFlight'].at = "answered" /\ req'[inFlight'].answer = "required" =>
          pending'[req'[inFlight'].sid] \in {req'[inFlight'].about, NoProposal}
    BY <1>0, <1>t, <1>a, <1>b, <1>e, <1>f, <1>u, <2>1 DEF Agreed
  <2>3. ASSUME NEW q \in Proposals
        PROVE  /\ card'[q] = "confirmed" => op'[q].st = "succeeded"
               /\ card'[q] \in {"rejected", "unknown", "cancelled"} => op'[q].st = card'[q]
    BY <1>0, <1>t, <1>a, <1>b, <1>e, <1>f, <1>u, <2>1 DEF Agreed
  <2>4. ASSUME NEW q \in Proposals
        PROVE  card'[q] \in Active => pending'[sessionId'] \in {q, NoProposal}
    BY <1>0, <1>t, <1>a, <1>b, <1>e, <1>f, <1>u, <2>1 DEF Agreed, OneCard
  <2>5. ASSUME NEW q \in Proposals, IsDeciding(q)'
        PROVE  /\ req'[inFlight'].at = "write" => req'[inFlight'].about = q
               /\ req'[inFlight'].at = "answered" /\ req'[inFlight'].answer \in Outcomes \cup {"cancelled"} =>
                    op'[q].st = req'[inFlight'].answer
    BY <1>0, <1>t, <1>a, <1>b, <1>e, <1>f, <1>u, <2>1, <2>5 DEF Agreed, OneCard, IsDeciding
  <2>6. QED
    BY <2>2, <2>3, <2>4, <2>5
<1>9. Clicks'
  BY <1>0, <1>t, <1>a, <1>b, <1>e, <1>f, <1>u DEF Clicks, OneCard, IsDeciding, ClickRunsItsCard
<1>10. QED
  BY <1>1, <1>2, <1>3, <1>4, <1>5, <1>6, <1>7, <1>8, <1>9 DEF IInv

(* The answer to a message: text, an error, or a card.                     *)
LEMMA ShowTurnKept ==
  ASSUME IInv, NEW i \in Requests, ShowTurn(i)
  PROVE  IInv'
<1> USE Zero, NoProposalAssumption
<1>0. TypeOK /\ Stored /\ Held /\ Flights /\ OneCard
      /\ Shown /\ InError /\ Agreed /\ Clicks
  BY DEF IInv
<1>t. /\ inFlight # 0 => inFlight \in Requests
      /\ sessionId # 0 => sessionId \in Sessions
      /\ \A j \in Requests :
           /\ req[j] \in RequestRecords
           /\ req[j].sid # 0 => req[j].sid \in Sessions
           /\ req[j].about \in Proposals \cup {NoProposal}
      /\ \A s \in Sessions : pending[s] # NoProposal => pending[s] \in Proposals
  BY <1>0, Typed
<1>a. /\ inFlight = i /\ inFlight' = 0
      /\ req' \in [Requests -> RequestRecords]
      /\ \A j \in Requests \ {i} : req'[j] = req[j]
      /\ req[i].at # "answered" => req'[i] = req[i]
      /\ req'[i].at # "answered"
      /\ req[i].at = "answered" => req'[i].at = "none"
  BY <1>0, NoRequestTyped DEF ShowTurn, Done, TypeOK, NoRequest
<1>b. /\ \A j \in Requests : req'[j].at # "none" => req'[j] = req[j]
      /\ \A j \in Requests : req'[j].at # "answered"
      /\ \A j \in Requests : j > posted => req'[j].at = "none"
      /\ i # 0
  BY <1>0, <1>a DEF Flights
<1>u. UNCHANGED runtimeVars /\ UNCHANGED <<posted, clicked, home, pending, busy, op, stray>>
  BY DEF ShowTurn, Done, sessions
<1>v. /\ req[i].at = "answered" /\ req[i].says \in Messages /\ req[i].says \notin Decisions
      /\ \/ sessionId' \in {0, sessionId} /\ req[i].answer # "required"
         \/ sessionId' = req[i].sid
      /\ sessionId' = 0 => req[i].answer # "required" \/ req[i].sid = 0
  BY DEF ShowTurn, TakeSession, Errors, Messages, Decisions
<1>s. \A p \in Proposals : card[p] \notin Active /\ ~IsDeciding(p)
  BY <1>0, <1>a, <1>v DEF OneCard, IsDeciding, Active
<1> DEFINE p == req[i].about
<1>f. /\ card' \in [Proposals -> CardStates]
      /\ \/ card' = card
         \/ /\ req[i].answer = "required" /\ p \in Proposals /\ op[p].st # "unused"
            /\ sessionId' # 0
            /\ sessionId' = req[i].sid
            /\ card'[p] = "pending"
            /\ \A q \in Proposals \ {p} : card'[q] = card[q]
  <2>1. CASE req[i].answer = "required"
    <3>1. p \in Proposals /\ op[p].st # "unused" /\ req[i].sid # 0
      BY <1>0, <1>a, <1>v, <2>1 DEF Shown
    <3>2. card' = [card EXCEPT ![p] = "pending"]
      BY <2>1 DEF ShowTurn
    <3>3. QED
      BY <1>0, <1>v, <2>1, <3>1, <3>2 DEF TypeOK, CardStates, Active
  <2>2. CASE req[i].answer # "required"
    <3>1. card' = card
      BY <2>2 DEF ShowTurn
    <3>2. QED
      BY <1>0, <3>1 DEF TypeOK
  <2>3. QED
    BY <2>1, <2>2
<1>e. /\ \A q \in Proposals : ~IsDeciding(q)'
      /\ \A q \in Proposals : card'[q] \in Active =>
           q = p /\ sessionId' # 0 /\ sessionId' = req[i].sid /\ req[i].answer = "required"
      /\ \A q \in Proposals : card'[q] # "none" => card[q] # "none" \/ op[q].st # "unused"
      /\ \A q \in Proposals : card'[q] # card[q] => card'[q] = "pending"
  BY <1>f, <1>s DEF IsDeciding, Active
<1>g. /\ sessionId' \in 0 .. MaxSessions
      /\ \A s \in Sessions : s # sessionId /\ s # req[i].sid => s # sessionId'
  BY <1>0, <1>t, <1>v, Typed, MaxSessionsAssumption DEF TypeOK
<1> HIDE DEF p
<1>p. p = req[i].about
  BY DEF p
<1>1. TypeOK'
  <2>1. inFlight' \in 0 .. posted'
    BY <1>0, <1>a, <1>u DEF TypeOK
  <2>2. QED
    BY <1>0, <1>a, <1>f, <1>g, <1>u, <2>1, RuntimeSame DEF TypeOK
<1>2. Stored'
  BY <1>0, <1>t, <1>a, <1>b, <1>e, <1>g, <1>u, <1>v DEF Stored
<1>3. Held'
  BY <1>0, <1>t, <1>a, <1>b, <1>e, <1>g, <1>u, <1>v DEF Held
<1>4. Flights'
  BY <1>0, <1>t, <1>a, <1>b, <1>e, <1>g, <1>u, <1>v DEF Flights
<1>5. OneCard'
  BY <1>0, <1>t, <1>a, <1>b, <1>e, <1>g, <1>u, <1>v DEF OneCard, IsDeciding
<1>6. Shown'
  BY <1>0, <1>t, <1>a, <1>b, <1>e, <1>g, <1>u, <1>v DEF Shown
<1>7. InError'
  BY <1>0, <1>t, <1>a, <1>b, <1>e, <1>g, <1>u, <1>v DEF InError, IsDeciding
<1>8. Agreed'
  <2>1. SUFFICES ASSUME "proposal" \notin stray'
                 PROVE  /\ inFlight' # 0 /\ req'[inFlight'].at = "answered" /\ req'[inFlight'].answer = "required" =>
                             pending'[req'[inFlight'].sid] \in {req'[inFlight'].about, NoProposal}
                        /\ \A q \in Proposals :
                             /\ card'[q] \in Active => pending'[sessionId'] \in {q, NoProposal}
                             /\ IsDeciding(q)' /\ req'[inFlight'].at = "write" => req'[inFlight'].about = q
                             /\ IsDeciding(q)' /\ req'[inFlight'].at = "answered"
                                  /\ req'[inFlight'].answer \in Outcomes \cup {"cancelled"} =>
                                  op'[q].st = req'[inFlight'].answer
                             /\ card'[q] = "confirmed" => op'[q].st = "succeeded"
                             /\ card'[q] \in {"rejected", "unknown", "cancelled"} => op'[q].st = card'[q]
    BY DEF Agreed
  <2>2. inFlight' # 0 /\ req'[inFlight'].at = "answered" /\ req'[inFlight'].answer = "required" =>
          pending'[req'[inFlight'].sid] \in {req'[inFlight'].about, NoProposal}
    BY <1>0, <1>t, <1>a, <1>b, <1>e, <1>g, <1>p, <1>u, <1>v, <2>1 DEF Agreed
  <2>3. ASSUME NEW q \in Proposals
        PROVE  /\ card'[q] = "confirmed" => op'[q].st = "succeeded"
               /\ card'[q] \in {"rejected", "unknown", "cancelled"} => op'[q].st = card'[q]
    BY <1>0, <1>t, <1>a, <1>b, <1>e, <1>g, <1>p, <1>u, <1>v, <2>1 DEF Agreed
  <2>4. ASSUME NEW q \in Proposals
        PROVE  card'[q] \in Active => pending'[sessionId'] \in {q, NoProposal}
    BY <1>0, <1>t, <1>a, <1>b, <1>e, <1>g, <1>p, <1>u, <1>v, <2>1 DEF Agreed, OneCard
  <2>5. ASSUME NEW q \in Proposals, IsDeciding(q)'
        PROVE  /\ req'[inFlight'].at = "write" => req'[inFlight'].about = q
               /\ req'[inFlight'].at = "answered" /\ req'[inFlight'].answer \in Outcomes \cup {"cancelled"} =>
                    op'[q].st = req'[inFlight'].answer
    BY <1>0, <1>t, <1>a, <1>b, <1>e, <1>g, <1>p, <1>u, <1>v, <2>1, <2>5 DEF Agreed, OneCard, IsDeciding
  <2>6. QED
    BY <2>2, <2>3, <2>4, <2>5
<1>9. Clicks'
  BY <1>0, <1>t, <1>a, <1>b, <1>e, <1>g, <1>u, <1>v DEF Clicks, OneCard, IsDeciding, ClickRunsItsCard
<1>10. QED
  BY <1>1, <1>2, <1>3, <1>4, <1>5, <1>6, <1>7, <1>8, <1>9 DEF IInv

(* The answer to a decision settles the card, or leaves it pending.        *)
LEMMA ShowDecisionKept ==
  ASSUME IInv, NEW i \in Requests, ShowDecision(i)
  PROVE  IInv'
<1> USE Zero, NoProposalAssumption
<1>0. TypeOK /\ Stored /\ Held /\ Flights /\ OneCard
      /\ Shown /\ InError /\ Agreed /\ Clicks
  BY DEF IInv
<1>t. /\ inFlight # 0 => inFlight \in Requests
      /\ sessionId # 0 => sessionId \in Sessions
      /\ \A j \in Requests :
           /\ req[j] \in RequestRecords
           /\ req[j].sid # 0 => req[j].sid \in Sessions
           /\ req[j].about \in Proposals \cup {NoProposal}
      /\ \A s \in Sessions : pending[s] # NoProposal => pending[s] \in Proposals
  BY <1>0, Typed
<1>a. /\ inFlight = i /\ inFlight' = 0
      /\ req' \in [Requests -> RequestRecords]
      /\ \A j \in Requests \ {i} : req'[j] = req[j]
      /\ req[i].at # "answered" => req'[i] = req[i]
      /\ req'[i].at # "answered"
      /\ req[i].at = "answered" => req'[i].at = "none"
  BY <1>0, NoRequestTyped DEF ShowDecision, Done, TypeOK, NoRequest
<1>b. /\ \A j \in Requests : req'[j].at # "none" => req'[j] = req[j]
      /\ \A j \in Requests : req'[j].at # "answered"
      /\ \A j \in Requests : j > posted => req'[j].at = "none"
      /\ i # 0
  BY <1>0, <1>a DEF Flights
<1>u. UNCHANGED runtimeVars /\ UNCHANGED <<posted, clicked, home, pending, busy, op, stray>>
  BY DEF ShowDecision, Done, sessions
<1>v. /\ req[i].at = "answered" /\ req[i].says \in Decisions /\ req[i].says \notin Messages
      /\ req[i].sid = sessionId
      /\ sessionId' \in {0, sessionId}
      /\ sessionId' = 0 /\ sessionId # 0 => req[i].answer = "SESSION_NOT_FOUND"
  <2>1. req[i].says \notin Messages /\ req[i].says \in Decisions /\ req[i].at = "answered"
    BY DEF ShowDecision, Messages, Decisions
  <2>2. req[i].sid = sessionId
    BY <1>0, <1>a, <1>b, <2>1 DEF Flights
  <2>3. QED
    BY <2>1, <2>2 DEF ShowDecision, TakeSession
<1>w. PICK p \in Proposals : IsDeciding(p) /\ \A q \in Proposals \ {p} : ~IsDeciding(q) /\ card[q] \notin Active
  <2>1. PICK p \in Proposals : IsDeciding(p)
    BY <1>0, <1>a, <1>b, <1>v DEF OneCard
  <2>2. \A q \in Proposals \ {p} : ~IsDeciding(q) /\ card[q] \notin Active
    BY <1>0, <2>1 DEF OneCard, IsDeciding, Active
  <2>3. QED
    BY <2>1, <2>2
<1>f. /\ card' \in [Proposals -> CardStates]
      /\ card'[p] = CardOf(req[i].answer)
      /\ \A q \in Proposals \ {p} : card'[q] = card[q]
  <2>1. card' = [q \in Proposals |-> IF IsDeciding(q) THEN CardOf(req[i].answer) ELSE card[q]]
    BY DEF ShowDecision, Deciding, IsDeciding
  <2>2. CardOf(req[i].answer) \in CardStates /\ \A q \in Proposals : card[q] \in CardStates
    BY <1>0 DEF TypeOK, CardStates, Active, CardOf
  <2>3. QED
    BY <1>w, <2>1, <2>2
<1>o. LET a == req[i].answer
          c == CardOf(a) IN
      /\ c = "confirmed" => a = "succeeded"
      /\ c \in {"rejected", "unknown", "cancelled"} => a = c
      /\ c = "error" => a \in {"SESSION_NOT_FOUND", "CONFIRMATION_NOT_FOUND"}
      /\ a = "SESSION_NOT_FOUND" => c = "error"
      /\ c \notin {"none", "confirming", "cancelling"}
  BY DEF CardOf
<1>e. /\ \A q \in Proposals : ~IsDeciding(q)'
      /\ \A q \in Proposals : card'[q] \in Active =>
           /\ q = p /\ card'[p] = "pending" /\ req[i].answer # "SESSION_NOT_FOUND"
           /\ sessionId' = sessionId /\ sessionId # 0
      /\ card[p] # "none" /\ card[p] \in Active /\ card'[p] \notin {"none", "confirming", "cancelling"}
  <2>1. card[p] \in Active /\ card[p] # "none" /\ sessionId # 0
    BY <1>0, <1>w DEF IsDeciding, Active, OneCard
  <2>2. QED
    BY <1>f, <1>o, <1>v, <1>w, <2>1 DEF IsDeciding, Active
<1>g. ASSUME "proposal" \notin stray
      PROVE  /\ card'[p] = "confirmed" => op[p].st = "succeeded"
             /\ card'[p] \in {"rejected", "unknown", "cancelled"} => op[p].st = card'[p]
  <2>1. req[i].answer \in Outcomes \cup {"cancelled"} => op[p].st = req[i].answer
    BY <1>0, <1>a, <1>b, <1>g, <1>v, <1>w DEF Agreed
  <2>2. QED
    BY <1>f, <1>o, <2>1 DEF Outcomes
<1>1. TypeOK'
  <2>1. inFlight' \in 0 .. posted' /\ sessionId' \in 0 .. MaxSessions
    BY <1>0, <1>a, <1>u, <1>v, MaxSessionsAssumption DEF TypeOK
  <2>2. QED
    BY <1>0, <1>a, <1>f, <1>u, <2>1, RuntimeSame DEF TypeOK
<1>2. Stored'
  BY <1>0, <1>t, <1>a, <1>b, <1>e, <1>f, <1>u, <1>v, <1>w DEF Stored
<1>3. Held'
  BY <1>0, <1>t, <1>a, <1>b, <1>e, <1>f, <1>u, <1>v, <1>w DEF Held
<1>4. Flights'
  BY <1>0, <1>t, <1>a, <1>b, <1>e, <1>f, <1>u, <1>v, <1>w DEF Flights
<1>5. OneCard'
  BY <1>0, <1>t, <1>a, <1>b, <1>e, <1>f, <1>u, <1>v, <1>w DEF OneCard, IsDeciding
<1>6. Shown'
  BY <1>0, <1>t, <1>a, <1>b, <1>e, <1>f, <1>u, <1>v, <1>w DEF Shown
<1>7. InError'
  <2>1. ASSUME NEW q \in Proposals, NEW s \in Sessions, card'[q] = "error", pending[s] = q
        PROVE  s # sessionId'
    <3>1. CASE q = p
      <4>1. CASE req[i].answer = "SESSION_NOT_FOUND"
        BY <4>1, <1>0, <1>w, <1>t, <1>v, <1>a DEF ShowDecision, TakeSession
      <4>2. CASE req[i].answer = "CONFIRMATION_NOT_FOUND"
        <5>1. s # req[i].sid
          BY <1>0, <1>a, <1>b, <1>v, <1>w, <2>1, <3>1, <4>2 DEF InError
        <5>2. QED
          BY <5>1, <1>v
      <4>3. QED
        BY <1>f, <1>o, <2>1, <3>1, <4>1, <4>2
    <3>2. CASE q # p
      <4>1. card[q] = "error"
        BY <1>f, <2>1, <3>2
      <4>2. QED
        BY <1>0, <1>v, <2>1, <4>1 DEF InError
    <3>3. QED
      BY <3>1, <3>2
  <2>2. QED
    BY <2>1, <1>a, <1>u DEF InError
<1>8. Agreed'
  <2>1. SUFFICES ASSUME "proposal" \notin stray'
                 PROVE  /\ inFlight' # 0 /\ req'[inFlight'].at = "answered" /\ req'[inFlight'].answer = "required" =>
                             pending'[req'[inFlight'].sid] \in {req'[inFlight'].about, NoProposal}
                        /\ \A q \in Proposals :
                             /\ card'[q] \in Active => pending'[sessionId'] \in {q, NoProposal}
                             /\ IsDeciding(q)' /\ req'[inFlight'].at = "write" => req'[inFlight'].about = q
                             /\ IsDeciding(q)' /\ req'[inFlight'].at = "answered"
                                  /\ req'[inFlight'].answer \in Outcomes \cup {"cancelled"} =>
                                  op'[q].st = req'[inFlight'].answer
                             /\ card'[q] = "confirmed" => op'[q].st = "succeeded"
                             /\ card'[q] \in {"rejected", "unknown", "cancelled"} => op'[q].st = card'[q]
    BY DEF Agreed
  <2>2. inFlight' # 0 /\ req'[inFlight'].at = "answered" /\ req'[inFlight'].answer = "required" =>
          pending'[req'[inFlight'].sid] \in {req'[inFlight'].about, NoProposal}
    BY <1>0, <1>t, <1>a, <1>b, <1>e, <1>f, <1>g, <1>u, <1>v, <1>w, <2>1 DEF Agreed
  <2>3. ASSUME NEW q \in Proposals
        PROVE  /\ card'[q] = "confirmed" => op'[q].st = "succeeded"
               /\ card'[q] \in {"rejected", "unknown", "cancelled"} => op'[q].st = card'[q]
    BY <1>0, <1>t, <1>a, <1>b, <1>e, <1>f, <1>g, <1>u, <1>v, <1>w, <2>1 DEF Agreed
  <2>4. ASSUME NEW q \in Proposals
        PROVE  card'[q] \in Active => pending'[sessionId'] \in {q, NoProposal}
    BY <1>0, <1>t, <1>a, <1>b, <1>e, <1>f, <1>g, <1>u, <1>v, <1>w, <2>1 DEF Agreed, OneCard
  <2>5. ASSUME NEW q \in Proposals, IsDeciding(q)'
        PROVE  /\ req'[inFlight'].at = "write" => req'[inFlight'].about = q
               /\ req'[inFlight'].at = "answered" /\ req'[inFlight'].answer \in Outcomes \cup {"cancelled"} =>
                    op'[q].st = req'[inFlight'].answer
    BY <1>0, <1>t, <1>a, <1>b, <1>e, <1>f, <1>g, <1>u, <1>v, <1>w, <2>1, <2>5 DEF Agreed, OneCard, IsDeciding
  <2>6. QED
    BY <2>2, <2>3, <2>4, <2>5
<1>9. Clicks'
  BY <1>0, <1>t, <1>a, <1>b, <1>e, <1>f, <1>u, <1>v, <1>w DEF Clicks, OneCard, IsDeciding, ClickRunsItsCard
<1>10. QED
  BY <1>1, <1>2, <1>3, <1>4, <1>5, <1>6, <1>7, <1>8, <1>9 DEF IInv

-----------------------------------------------------------------------------
(* The runtime.                                                            *)

(* A request that reaches the API waits for the runtime.                    *)
LEMMA AskRuntimeKept ==
  ASSUME IInv, NEW i \in Requests, AskRuntime(i)
  PROVE  IInv'
<1> USE Zero, NoProposalAssumption
<1>0. TypeOK /\ Stored /\ Held /\ Flights /\ OneCard
      /\ Shown /\ InError /\ Agreed /\ Clicks
  BY DEF IInv
<1>t. /\ inFlight # 0 => inFlight \in Requests
      /\ sessionId # 0 => sessionId \in Sessions
      /\ \A j \in Requests :
           /\ req[j] \in RequestRecords
           /\ req[j].sid # 0 => req[j].sid \in Sessions
           /\ req[j].about \in Proposals \cup {NoProposal}
      /\ \A s \in Sessions : pending[s] # NoProposal => pending[s] \in Proposals
  BY <1>0, Typed
<1>v. PICK v \in Starts : GetHost(v) /\ req' = [req EXCEPT ![i].at = "runtime", ![i].via = v]
  BY DEF AskRuntime
<1>u. /\ UNCHANGED <<sessionId, inFlight, posted, card, clicked, home, pending, busy, op, stray>>
      /\ req[i].at = "network"
  BY DEF AskRuntime, browser, sessions
<1>a. /\ req' \in [Requests -> RequestRecords]
      /\ \A j \in Requests \ {i} : req'[j] = req[j]
      /\ req'[i].says = req[i].says /\ req'[i].sid = req[i].sid /\ req'[i].via # 0
      /\ req'[i].at = "runtime"
  <2> DEFINE r == [req[i] EXCEPT !.at = "runtime", !.via = v]
  <2>1. req' = [req EXCEPT ![i] = r]
    BY <1>v
  <2>2. v \in 0 .. MaxStarts /\ v # 0
    BY MaxStartsAssumption DEF Starts
  <2>3. /\ r \in RequestRecords
        /\ r.says = req[i].says /\ r.sid = req[i].sid /\ r.via = v /\ r.at = "runtime"
    BY <1>t, <2>2 DEF RequestRecords
  <2> HIDE DEF r
  <2>4. QED
    BY <1>0, <2>1, <2>2, <2>3 DEF TypeOK
<1>c. inFlight # 0 =>
        /\ req'[inFlight].sid = req[inFlight].sid /\ req'[inFlight].says = req[inFlight].says
        /\ inFlight # i => req'[inFlight] = req[inFlight]
  BY <1>a, <1>t
<1>r. RuntimeTypes'
  BY <1>0, <1>v, StepKept DEF TypeOK, RuntimeNext
<1>1. TypeOK'
  BY <1>0, <1>a, <1>r, <1>u DEF TypeOK
<1>2. Stored'
  BY <1>0, <1>t, <1>u, <1>a, <1>c DEF Stored
<1>3. Held'
  BY <1>0, <1>t, <1>u, <1>a, <1>c DEF Held
<1>4. Flights'
  BY <1>0, <1>t, <1>u, <1>a, <1>c DEF Flights
<1>5. OneCard'
  BY <1>0, <1>t, <1>u, <1>a, <1>c DEF OneCard, IsDeciding
<1>6. Shown'
  BY <1>0, <1>t, <1>u, <1>a, <1>c DEF Shown
<1>7. InError'
  BY <1>0, <1>t, <1>u, <1>a, <1>c DEF InError, IsDeciding
<1>8. Agreed'
  <2>1. SUFFICES ASSUME "proposal" \notin stray'
                 PROVE  /\ inFlight' # 0 /\ req'[inFlight'].at = "answered" /\ req'[inFlight'].answer = "required" =>
                             pending'[req'[inFlight'].sid] \in {req'[inFlight'].about, NoProposal}
                        /\ \A q \in Proposals :
                             /\ card'[q] \in Active => pending'[sessionId'] \in {q, NoProposal}
                             /\ IsDeciding(q)' /\ req'[inFlight'].at = "write" => req'[inFlight'].about = q
                             /\ IsDeciding(q)' /\ req'[inFlight'].at = "answered"
                                  /\ req'[inFlight'].answer \in Outcomes \cup {"cancelled"} =>
                                  op'[q].st = req'[inFlight'].answer
                             /\ card'[q] = "confirmed" => op'[q].st = "succeeded"
                             /\ card'[q] \in {"rejected", "unknown", "cancelled"} => op'[q].st = card'[q]
    BY DEF Agreed
  <2>2. inFlight' # 0 /\ req'[inFlight'].at = "answered" /\ req'[inFlight'].answer = "required" =>
          pending'[req'[inFlight'].sid] \in {req'[inFlight'].about, NoProposal}
    BY <1>0, <1>t, <1>a, <1>c, <1>u, <2>1 DEF Agreed, Flights
  <2>3. ASSUME NEW q \in Proposals
        PROVE  /\ card'[q] = "confirmed" => op'[q].st = "succeeded"
               /\ card'[q] \in {"rejected", "unknown", "cancelled"} => op'[q].st = card'[q]
    BY <1>0, <1>t, <1>a, <1>c, <1>u, <2>1 DEF Agreed, Flights
  <2>4. ASSUME NEW q \in Proposals
        PROVE  card'[q] \in Active => pending'[sessionId'] \in {q, NoProposal}
    BY <1>0, <1>t, <1>a, <1>c, <1>u, <2>1 DEF Agreed, OneCard, Flights
  <2>5. ASSUME NEW q \in Proposals, IsDeciding(q)'
        PROVE  /\ req'[inFlight'].at = "write" => req'[inFlight'].about = q
               /\ req'[inFlight'].at = "answered" /\ req'[inFlight'].answer \in Outcomes \cup {"cancelled"} =>
                    op'[q].st = req'[inFlight'].answer
    BY <1>0, <1>t, <1>a, <1>c, <1>u, <2>1, <2>5 DEF Agreed, OneCard, IsDeciding, Flights
  <2>6. QED
    BY <2>2, <2>3, <2>4, <2>5
<1>9. Clicks'
  BY <1>0, <1>t, <1>u, <1>a, <1>c DEF Clicks, OneCard, IsDeciding, ClickRunsItsCard
<1>10. QED
  BY <1>1, <1>2, <1>3, <1>4, <1>5, <1>6, <1>7, <1>8, <1>9 DEF IInv

(* What the runtime does is seen by requests only when they resume.        *)
LEMMA RuntimeKept ==
  ASSUME IInv, [RuntimeNext]_runtimeVars, UNCHANGED <<browser, req, sessions, op, stray>>
  PROVE  IInv'
<1> USE Zero, NoProposalAssumption
<1>0. TypeOK /\ Stored /\ Held /\ Flights /\ OneCard
      /\ Shown /\ InError /\ Agreed /\ Clicks
  BY DEF IInv
<1>t. /\ inFlight # 0 => inFlight \in Requests
      /\ sessionId # 0 => sessionId \in Sessions
      /\ \A j \in Requests :
           /\ req[j] \in RequestRecords
           /\ req[j].sid # 0 => req[j].sid \in Sessions
           /\ req[j].about \in Proposals \cup {NoProposal}
      /\ \A s \in Sessions : pending[s] # NoProposal => pending[s] \in Proposals
  BY <1>0, Typed
<1>u. UNCHANGED <<sessionId, inFlight, posted, card, clicked, req, home, pending, busy, op, stray>>
  BY DEF browser, sessions
<1>r. RuntimeTypes'
  BY <1>0, StepKept DEF TypeOK
<1>1. TypeOK'
  BY <1>0, <1>r, <1>u DEF TypeOK
<1>2. Stored'
  BY <1>0, <1>u DEF Stored
<1>3. Held'
  BY <1>0, <1>u DEF Held
<1>4. Flights'
  BY <1>0, <1>u DEF Flights
<1>5. OneCard'
  BY <1>0, <1>u DEF OneCard, IsDeciding
<1>6. Shown'
  BY <1>0, <1>u DEF Shown
<1>7. InError'
  BY <1>0, <1>u DEF InError, IsDeciding
<1>8. Agreed'
  BY <1>0, <1>u DEF Agreed, OneCard, IsDeciding
<1>9. Clicks'
  BY <1>0, <1>u DEF Clicks, OneCard, IsDeciding, ClickRunsItsCard
<1>10. QED
  BY <1>1, <1>2, <1>3, <1>4, <1>5, <1>6, <1>7, <1>8, <1>9 DEF IInv

-----------------------------------------------------------------------------
LEMMA InitEstablishesChat == Init => IInv
<1>1. SUFFICES ASSUME Init
               PROVE  IInv
  OBVIOUS
<1>2. RuntimeTypes
  BY <1>1, InitEstablishes DEF Init, RInv
<1>3. 0 \in 0 .. MaxSessions /\ 0 \in 0 .. MaxRequests /\ 0 \in 0 .. 0 /\ 0 \in 0 .. MaxStarts
  BY MaxSessionsAssumption, MaxRequestsAssumption, MaxStartsAssumption
<1>4. [st |-> "unused", by |-> "none"] \in OpRecords /\ "none" \in CardStates
  BY DEF OpRecords, CardStates
<1>5. TypeOK
  BY <1>1, <1>2, <1>3, <1>4, NoRequestTyped DEF Init, TypeOK
<1>6. Stored /\ Held
  BY <1>1 DEF Init, Stored, Held, NoRequest
<1>7. Flights /\ Shown /\ InError
  BY <1>1 DEF Init, Flights, Shown, InError, NoRequest
<1>8. OneCard /\ Agreed
  BY <1>1 DEF Init, OneCard, Agreed, IsDeciding, Active
<1>9. Clicks
  BY <1>1 DEF Init, Clicks, ClickRunsItsCard, IsDeciding
<1>10. QED
  BY <1>5, <1>6, <1>7, <1>8, <1>9 DEF IInv

LEMMA ApiKeeps ==
  ASSUME IInv, NEW i \in Requests, ApiStep(i)
  PROVE  IInv'
<1> USE NoProposalAssumption
<1>1. CASE AskRuntime(i)
  BY <1>1, AskRuntimeKept
<1>2. CASE RuntimeUnavailable(i)
  <2>1. /\ req[i].at = "runtime" /\ "OTHER_ERROR" \in Errors \cup {"completed"}
        /\ Answer(i, "OTHER_ERROR", NoProposal, req[i].sid)
        /\ busy' = busy /\ stray' = stray
        /\ UNCHANGED runtimeVars /\ UNCHANGED <<sessionId, inFlight, posted, card, clicked, home, pending, op>>
    BY <1>2 DEF RuntimeUnavailable, Errors, browser, sessions
  <2>2. QED
    BY <2>1, RefusedKept
<1>3. CASE SessionNotFound(i)
  <2>1. /\ req[i].at = "runtime" /\ "SESSION_NOT_FOUND" \in Errors \cup {"completed"}
        /\ Answer(i, "SESSION_NOT_FOUND", NoProposal, req[i].sid)
        /\ busy' = busy /\ stray' \in {stray, stray \cup {"decision"}}
        /\ UNCHANGED runtimeVars /\ UNCHANGED <<sessionId, inFlight, posted, card, clicked, home, pending, op>>
    BY <1>3 DEF SessionNotFound, TakesUp, Errors, browser, sessions
  <2>2. QED
    BY <2>1, RefusedKept
<1>4. CASE NothingToDecide(i)
  <2>1. /\ req[i].at = "runtime" /\ "CONFIRMATION_NOT_FOUND" \in Errors \cup {"completed"}
        /\ Answer(i, "CONFIRMATION_NOT_FOUND", NoProposal, req[i].sid)
        /\ busy' = busy /\ stray' \in {stray, stray \cup {"decision"}}
        /\ UNCHANGED runtimeVars /\ UNCHANGED <<sessionId, inFlight, posted, card, clicked, home, pending, op>>
        /\ req[i].sid # 0 /\ pending[req[i].sid] = NoProposal
    BY <1>4 DEF NothingToDecide, TakesUp, Known, Pending, Errors, browser, sessions
  <2>2. req[i].sid \in Sessions
    BY <2>1, Typed DEF IInv
  <2>3. QED
    BY <2>1, <2>2, RefusedKept
<1>5. CASE Busy(i)
  <2>1. /\ req[i].at = "runtime" /\ "OTHER_ERROR" \in Errors \cup {"completed"}
        /\ Answer(i, "OTHER_ERROR", NoProposal, req[i].sid)
        /\ busy' = busy /\ stray' \in {stray, stray \cup {"decision"}}
        /\ UNCHANGED runtimeVars /\ UNCHANGED <<sessionId, inFlight, posted, card, clicked, home, pending, op>>
    BY <1>5 DEF Busy, TakesUp, Errors, browser, sessions
  <2>2. QED
    BY <2>1, RefusedKept
<1>6. CASE Confirm(i) \/ Cancel(i) \/ Remind(i)
  BY <1>6, ConfirmKept, CancelKept, RemindKept
<1>7. CASE BeginTurn(i) \/ EndWrite(i)
  BY <1>7, BeginTurnKept, EndWriteKept
<1>8. CASE EndTurn(i)
  <2>1. /\ req[i].at = "turn" /\ busy' = busy \ {req[i].sid}
        /\ UNCHANGED runtimeVars /\ UNCHANGED <<sessionId, inFlight, posted, card, clicked, home>>
    BY <1>8 DEF EndTurn, browser
  <2>2. CASE \E a \in {"completed", "OTHER_ERROR"} :
               Answer(i, a, NoProposal, req[i].sid) /\ UNCHANGED <<pending, op, stray>>
    <3>1. PICK a \in {"completed", "OTHER_ERROR"} :
               Answer(i, a, NoProposal, req[i].sid) /\ UNCHANGED <<pending, op, stray>>
      BY <2>2
    <3>2. a \in Errors \cup {"completed"} /\ a # "CONFIRMATION_NOT_FOUND" /\ req[i].at # "runtime"
      BY <2>1 DEF Errors
    <3>3. QED
      BY <2>1, <3>1, <3>2, RefusedKept
  <2>3. CASE \E p \in Proposals :
               /\ op[p].st = "unused"
               /\ op' = [op EXCEPT ![p].st = "pending"]
               /\ pending' = [pending EXCEPT ![req[i].sid] = p]
               /\ Answer(i, "required", p, req[i].sid)
               /\ stray' = stray \cup (IF inFlight # i THEN {"proposal"} ELSE {})
    BY <2>1, <2>3, ProposeKept
  <2>4. QED
    BY <1>8, <2>2, <2>3 DEF EndTurn
<1>9. QED
  BY <1>1, <1>2, <1>3, <1>4, <1>5, <1>6, <1>7, <1>8 DEF ApiStep

LEMMA ChatStepKeeps == IInv /\ [Next]_vars => IInv'
<1>1. SUFFICES ASSUME IInv, [Next]_vars
               PROVE  IInv'
  OBVIOUS
<1>2. CASE RuntimeNext /\ UNCHANGED <<browser, req, sessions, op, stray>>
  BY <1>1, <1>2, RuntimeKept
<1>3. CASE \E text \in Messages : Submit(text)
  BY <1>1, <1>3, SubmitKept
<1>4. CASE \E p \in Proposals, d \in Decisions : Decide(p, d)
  BY <1>1, <1>4, DecideKept
<1>5. CASE \E i \in Requests : ApiStep(i) \/ ShowTurn(i) \/ ShowDecision(i) \/ FetchFails(i)
  BY <1>1, <1>5, ApiKeeps, ShowTurnKept, ShowDecisionKept, FetchFailsKept
<1>6. CASE UNCHANGED vars
  <2>1. UNCHANGED runtimeVars /\ UNCHANGED <<browser, req, sessions, op, stray>>
    BY <1>6 DEF vars
  <2>2. QED
    BY <1>1, <2>1, RuntimeKept
<1>7. QED
  BY <1>1, <1>2, <1>3, <1>4, <1>5, <1>6 DEF Next

LEMMA ChatInvariant == Spec => []IInv
BY InitEstablishesChat, ChatStepKeeps, PTL DEF Spec

-----------------------------------------------------------------------------
(* Every behaviour of the chat is one of its runtime: requests ask for it, *)
(* and nothing else of theirs touches it.                                  *)
LEMMA ChatRunsTheRuntime == Spec => RuntimeSpec
<1>1. Init => RuntimeInit
  BY DEF Init
<1>2. [Next]_vars => [RuntimeNext]_runtimeVars
  <2>1. SUFFICES ASSUME [Next]_vars
                 PROVE  [RuntimeNext]_runtimeVars
    OBVIOUS
  <2>2. CASE UNCHANGED vars
    BY <2>2 DEF vars
  <2>3. ASSUME NEW i \in Requests, ApiStep(i)
        PROVE  [RuntimeNext]_runtimeVars
    BY <2>3 DEF ApiStep, AskRuntime, RuntimeUnavailable, SessionNotFound, NothingToDecide, Busy, Confirm,
       Cancel, Remind, BeginTurn, EndTurn, EndWrite, TakesUp, RuntimeNext
  <2>4. ASSUME NEW i \in Requests, ShowTurn(i) \/ ShowDecision(i) \/ FetchFails(i)
        PROVE  UNCHANGED runtimeVars
    BY <2>4 DEF ShowTurn, ShowDecision, FetchFails, Done
  <2>5. ASSUME \/ \E text \in Messages : Submit(text)
               \/ \E p \in Proposals, d \in Decisions : Decide(p, d)
        PROVE  UNCHANGED runtimeVars
    BY <2>5 DEF Submit, Decide, Post
  <2>6. QED
    BY <2>1, <2>2, <2>3, <2>4, <2>5 DEF Next
<1>3. QED
  BY <1>1, <1>2, PTL DEF Spec, RuntimeSpec

(* Browser, requests, sessions and operations keep their types.            *)
THEOREM WebTypesCorrect == Spec => []TypeOK
<1>1. IInv => TypeOK
  BY DEF IInv
<1>2. QED
  BY <1>1, ChatInvariant, PTL

(* However requests of the dashboard and of the chat overlap, fail and are *)
(* repeated, the servers that run are those of one runtime, and close()    *)
(* stops them (web-host-runtime.ts).                                       *)
THEOREM ServersFollowTheHost == Spec => []ServersFollowTheRuntime
BY ChatRunsTheRuntime, OneRuntime, PTL

(* The tools on offer have their servers, and chat has all three.          *)
THEOREM CatalogFollowsTheHost == Spec => []CatalogIsAlive
BY ChatRunsTheRuntime, CatalogStaysAlive, PTL

(* A card that can be decided works, and one that is decided is right,     *)
(* whatever answers are lost, as long as no proposal strays.               *)
THEOREM CardsCanBeReliedUpon == Spec => []CardsAreRight
<1>1. IInv => PendingCardCanBeDecided
  BY DEF IInv, OneCard, PendingCardCanBeDecided, IsDeciding
<1>2. IInv => CardsTellTheOutcome
  BY DEF IInv, Agreed, InError, CardsTellTheOutcome
<1>3. QED
  BY <1>1, <1>2, ChatInvariant, PTL DEF CardsAreRight

(* A click executes the operation of its card, as long as no request       *)
(* strays.                                                                 *)
THEOREM ClicksRunTheirCards == Spec => []ClickRunsItsCard
<1>1. IInv => ClickRunsItsCard
  BY DEF IInv, Clicks
<1>2. QED
  BY <1>1, ChatInvariant, PTL

(* An operation is started once, whatever is pressed, typed, repeated or   *)
(* delayed.                                                                *)
THEOREM OperationsStartOnce == Spec => StartedAtMostOnce
<1>1. ASSUME IInv, [Next]_vars
      PROVE  [\A p \in Proposals : op'[p].st = "running" => op[p].st \in {"pending", "running"}]_vars
  <2> USE NoProposalAssumption
  <2>1. SUFFICES ASSUME NEW p \in Proposals, op'[p].st = "running"
                 PROVE  op[p].st \in {"pending", "running"}
    OBVIOUS
  <2>2. CASE UNCHANGED op
    BY <2>1, <2>2
  <2>3. ASSUME NEW i \in Requests, Confirm(i)
        PROVE  op[p].st \in {"pending", "running"}
    <3>1. /\ op' = [op EXCEPT ![pending[req[i].sid]] =
                      [st |-> "running", by |-> IF req[i].says = "yes" THEN "text" ELSE "click"]]
          /\ req[i].sid # 0 /\ pending[req[i].sid] # NoProposal
      BY <2>3 DEF Confirm, Known, Pending
    <3>2. req[i].sid \in Sessions
      BY <1>1, <3>1, Typed DEF IInv
    <3>3. op[pending[req[i].sid]].st = "pending"
      BY <1>1, <3>1, <3>2 DEF IInv, Stored
    <3>4. QED
      BY <1>1, <2>1, <3>1, <3>3 DEF IInv, TypeOK
  <2>4. ASSUME NEW i \in Requests, Cancel(i)
        PROVE  op[p].st \in {"pending", "running"}
    <3>1. op' = [op EXCEPT ![pending[req[i].sid]].st = "cancelled"]
      BY <2>4 DEF Cancel, Pending
    <3>2. QED
      BY <1>1, <2>1, <3>1 DEF IInv, TypeOK, OpRecords
  <2>5. ASSUME NEW i \in Requests, EndWrite(i)
        PROVE  op[p].st \in {"pending", "running"}
    <3>1. PICK o \in Outcomes : op' = [op EXCEPT ![req[i].about].st = o]
      BY <2>5 DEF EndWrite
    <3>2. QED
      BY <1>1, <2>1, <3>1 DEF IInv, TypeOK, OpRecords, Outcomes
  <2>6. ASSUME NEW i \in Requests, EndTurn(i)
        PROVE  op[p].st \in {"pending", "running"}
    <3>1. UNCHANGED op \/ \E q \in Proposals : op' = [op EXCEPT ![q].st = "pending"]
      BY <2>6 DEF EndTurn
    <3>2. QED
      BY <1>1, <2>1, <3>1 DEF IInv, TypeOK, OpRecords
  <2>7. ASSUME NEW i \in Requests, ApiStep(i)
        PROVE  UNCHANGED op \/ Confirm(i) \/ Cancel(i) \/ EndWrite(i) \/ EndTurn(i)
    BY <2>7 DEF ApiStep, AskRuntime, RuntimeUnavailable, SessionNotFound, NothingToDecide, Busy, Remind,
       BeginTurn
  <2>8. ASSUME NEW i \in Requests, ShowTurn(i) \/ ShowDecision(i) \/ FetchFails(i)
        PROVE  UNCHANGED op
    BY <2>8 DEF ShowTurn, ShowDecision, FetchFails, Done
  <2>9. ASSUME \/ \E text \in Messages : Submit(text)
               \/ \E q \in Proposals, d \in Decisions : Decide(q, d)
               \/ UNCHANGED vars
        PROVE  UNCHANGED op
    BY <2>9 DEF Submit, Decide, Post, vars
  <2>10. QED
    BY <1>1, <2>2, <2>3, <2>4, <2>5, <2>6, <2>7, <2>8, <2>9 DEF Next
<1>2. QED
  BY <1>1, ChatInvariant, PTL DEF Spec, StartedAtMostOnce
=============================================================================
