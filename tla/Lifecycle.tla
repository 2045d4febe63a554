------------------------------ MODULE Lifecycle ------------------------------
(***************************************************************************)
(* The process around the proxy: main switches the system's proxy on,      *)
(* measures the cards, starts its goroutines, waits for two of them after  *)
(* a stop was asked for, saves the caches and switches the proxy off. Some *)
(* failures end the process where they happen, with no deferred call run.  *)
(* The period loop feeds the dashboard's pages (DashboardHub).             *)
(***************************************************************************)
EXTENDS DashboardHub

CONSTANTS
  Faults,   \* what may fail: see Fault
  MaxConns  \* bound of the model: connections clients make

Fault == {"enable",    \* a reg command of StartSystemProxy
          "disable",   \* the reg command of EndSystemProxy
          "card",      \* a card from which SpeedTestURL is out of reach
          "listen",    \* net.Listen on the proxy's port
          "dashboard", \* the dashboard's port
          "job"}       \* a goroutine of a handler panics (ChunkJob)

ASSUME LifecycleAssumption == Faults \subseteq Fault /\ MaxConns \in Nat

VARIABLES
  proxy,     \* ProxyEnable of the registry
  main,      \* main's place
  keys,      \* EndKeyMonitor
  listener,  \* Listener
  period,    \* PeriodCheck
  dashboard, \* StartDashboard
  cancelled, \* the context of Listener and PeriodCheck
  waiting,   \* connections nobody has accepted yet
  accepted,  \* connections handed to handlers
  saved,     \* URLSaveLocal was run
  process    \* "running", or how it ended

goroutines == <<keys, listener, period, dashboard>>
conns == <<waiting, accepted>>
lifeVars == <<proxy, main, keys, listener, period, dashboard, cancelled,
              waiting, accepted, saved, process>>
vars == <<lifeVars, hubVars>>

Init ==
  /\ HubInit
  /\ proxy = FALSE
  /\ main = "enable"
  /\ keys = "off" /\ listener = "off" /\ period = "off" /\ dashboard = "off"
  /\ cancelled = FALSE
  /\ waiting = 0 /\ accepted = 0
  /\ saved = FALSE
  /\ process = "running"

MainGoes(from, to) == main = from /\ main' = to

-----------------------------------------------------------------------------
(* main, up to wg.Wait. A failed command is reported and nothing else; it  *)
(* may be the second one, behind the one that has set ProxyEnable.         *)
EnableProxy ==
  /\ MainGoes("enable", "speedTest")
  /\ proxy' \in {TRUE} \cup (IF "enable" \in Faults THEN {FALSE} ELSE {})
  /\ UNCHANGED <<goroutines, cancelled, conns, saved, process>>

SpeedTest ==
  /\ MainGoes("speedTest", "start")
  /\ UNCHANGED <<proxy, goroutines, cancelled, conns, saved, process>>

(* Client.Do fails in a reader and leaves resp nil for resp.Body.Close. *)
SpeedTestPanic ==
  /\ main = "speedTest" /\ "card" \in Faults
  /\ process' = "panic"
  /\ UNCHANGED <<proxy, main, goroutines, cancelled, conns, saved>>

Start ==
  /\ MainGoes("start", "wait")
  /\ keys' = "reading" /\ listener' = "listen" /\ period' = "start"
  /\ UNCHANGED <<proxy, dashboard, cancelled, conns, saved, process>>

-----------------------------------------------------------------------------
(* The goroutines. *)

(* q on the console; what else is typed changes nothing. *)
KeyQuit ==
  /\ keys = "reading"
  /\ keys' = "returned"
  /\ cancelled' = TRUE
  /\ UNCHANGED <<proxy, main, listener, period, dashboard, conns, saved, process>>

Listen ==
  /\ listener = "listen"
  /\ listener' \in {"check"} \cup (IF "listen" \in Faults THEN {"returned"} ELSE {})
  /\ UNCHANGED <<proxy, main, keys, period, dashboard, cancelled, conns, saved, process>>

(* Mutant of ListenerCheck: the context is not looked at. *)
ListenerOn ==
  /\ listener = "check"
  /\ listener' = "accept"
  /\ UNCHANGED <<proxy, main, keys, period, dashboard, cancelled, conns, saved, process>>

ListenerCheck ==
  /\ listener = "check"
  /\ listener' = IF cancelled THEN "returned" ELSE "accept"
  /\ UNCHANGED <<proxy, main, keys, period, dashboard, cancelled, conns, saved, process>>

(* Mutant of Accept: a connection is made up. *)
AcceptNobody ==
  /\ listener = "accept"
  /\ waiting' = waiting - 1 /\ accepted' = accepted + 1
  /\ listener' = "check"
  /\ UNCHANGED <<proxy, main, keys, period, dashboard, cancelled, saved, process>>

(* Accept waits for a client, not for the context. *)
Accept ==
  /\ listener = "accept" /\ waiting > 0
  /\ waiting' = waiting - 1 /\ accepted' = accepted + 1
  /\ listener' = "check"
  /\ UNCHANGED <<proxy, main, keys, period, dashboard, cancelled, saved, process>>

PeriodStart ==
  /\ period = "start"
  /\ dashboard' = "starting"
  /\ period' = "check"
  /\ UNCHANGED <<proxy, main, keys, listener, cancelled, conns, saved, process>>

(* The context is looked at once a turn. *)
PeriodCheck ==
  /\ period = "check"
  /\ period' = IF cancelled THEN "returned" ELSE "publish"
  /\ UNCHANGED <<proxy, main, keys, listener, dashboard, cancelled, conns, saved, process>>

(* The turn (Scheduler): the snapshot is stored and the packet offered to  *)
(* the dashboard, and the goroutine sleeps.                                *)
PeriodPublish ==
  /\ period = "publish"
  /\ BroadcastUpdate
  /\ period' = "sleep"
  /\ UNCHANGED <<proxy, main, keys, listener, dashboard, cancelled, conns, saved, process>>

PeriodWake ==
  /\ period = "sleep"
  /\ period' = "check"
  /\ UNCHANGED <<proxy, main, keys, listener, dashboard, cancelled, conns, saved, process>>

DashboardServe ==
  /\ dashboard = "starting"
  /\ dashboard' = "serving"
  /\ UNCHANGED <<proxy, main, keys, listener, period, cancelled, conns, saved, process>>

(* log.Fatal *)
DashboardFatal ==
  /\ dashboard = "starting" /\ "dashboard" \in Faults
  /\ process' = "fatal"
  /\ UNCHANGED <<proxy, main, goroutines, cancelled, conns, saved>>

(* /api/control?action=stop *)
DashboardStop ==
  /\ dashboard = "serving"
  /\ cancelled' = TRUE
  /\ UNCHANGED <<proxy, main, goroutines, conns, saved, process>>

HandlerPanic ==
  /\ accepted > 0 /\ "job" \in Faults
  /\ process' = "panic"
  /\ UNCHANGED <<proxy, main, goroutines, cancelled, conns, saved>>

-----------------------------------------------------------------------------
(* Mutant of WaitDone: wg.Add(1). *)
WaitOne ==
  /\ listener = "returned" \/ period = "returned"
  /\ MainGoes("wait", "save")
  /\ UNCHANGED <<proxy, goroutines, cancelled, conns, saved, process>>

WaitDone ==
  /\ listener = "returned" /\ period = "returned"
  /\ MainGoes("wait", "save")
  /\ UNCHANGED <<proxy, goroutines, cancelled, conns, saved, process>>

(* The deferred calls, last to first. *)
SaveCaches ==
  /\ MainGoes("save", "cancel")
  /\ saved' = TRUE
  /\ UNCHANGED <<proxy, goroutines, cancelled, conns, process>>

Cancel ==
  /\ MainGoes("cancel", "disable")
  /\ cancelled' = TRUE
  /\ UNCHANGED <<proxy, goroutines, conns, saved, process>>

DisableProxy ==
  /\ MainGoes("disable", "returned")
  /\ proxy' \in {FALSE} \cup (IF "disable" \in Faults THEN {proxy} ELSE {})
  /\ process' = "returned"
  /\ UNCHANGED <<goroutines, cancelled, conns, saved>>

(* A client, of the browser for instance that the system's proxy points    *)
(* here.                                                                   *)
Connect ==
  /\ listener \in {"check", "accept"}
  /\ waiting + accepted < MaxConns
  /\ waiting' = waiting + 1
  /\ UNCHANGED <<proxy, main, goroutines, cancelled, accepted, saved, process>>

-----------------------------------------------------------------------------
Apart(A) == A /\ UNCHANGED hubVars

Main == Apart(EnableProxy \/ SpeedTest \/ SpeedTestPanic \/ Start \/ WaitDone
              \/ SaveCaches \/ Cancel \/ DisableProxy)
ListenerLoop == Apart(Listen \/ ListenerCheck \/ Accept)
PeriodLoop == Apart(PeriodStart \/ PeriodCheck \/ PeriodWake) \/ PeriodPublish
Dashboard == Apart(DashboardServe \/ DashboardFatal)
User == Apart(KeyQuit \/ DashboardStop)
Others == Apart(Connect \/ HandlerPanic)

(* The pages' side; handleMessages starts with the dashboard. *)
Hub == (HubStep \/ (dashboard # "off" /\ HubStart)) /\ UNCHANGED lifeVars
Page == (\E p \in Pages : (dashboard = "serving" /\ Upgrade(p)) \/ PageStep(p))
        /\ UNCHANGED lifeVars
NewPage(p) == Register(p) /\ UNCHANGED lifeVars

Step == Main \/ ListenerLoop \/ PeriodLoop \/ Dashboard \/ User \/ Others \/ Hub \/ Page
        \/ (\E p \in Pages : NewPage(p))

Running(A) == process = "running" /\ A
Terminated == process # "running" /\ UNCHANGED vars
Next == Running(Step) \/ Terminated

(* Goroutines keep running, and a sync.Mutex is handed to whoever waits    *)
(* for it long enough; clients, pages and users do what they want.         *)
Spec ==
  /\ Init /\ [][Next]_vars
  /\ WF_vars(Running(Main)) /\ WF_vars(Running(ListenerLoop))
  /\ WF_vars(Running(PeriodLoop)) /\ WF_vars(Running(Dashboard))
  /\ WF_vars(Running(Hub)) /\ \A p \in Pages : SF_vars(Running(NewPage(p)))

-----------------------------------------------------------------------------
(* Types of the process's parts. *)
TypeOK ==
  /\ HubTypeOK
  /\ proxy \in BOOLEAN /\ cancelled \in BOOLEAN /\ saved \in BOOLEAN
  /\ main \in {"enable", "speedTest", "start", "wait", "save", "cancel", "disable", "returned"}
  /\ keys \in {"off", "reading", "returned"}
  /\ listener \in {"off", "listen", "check", "accept", "returned"}
  /\ period \in {"off", "start", "check", "publish", "sleep", "returned"}
  /\ dashboard \in {"off", "starting", "serving"}
  /\ waiting \in 0..MaxConns /\ accepted \in 0..MaxConns
  /\ process \in {"running", "returned", "fatal", "panic"}

(* Nothing new is let in and no snapshot is published any more while the   *)
(* caches are saved and the proxy is switched off: wg counts both loops.   *)
QuietWhileSaving ==
  [][main \notin {"enable", "speedTest", "start", "wait"} =>
       UNCHANGED <<accepted, period>>]_vars

(* The period loop hears of a stop, whatever the dashboard's pages do: a   *)
(* page that does not read never holds it up (dashborad.go:99-103).        *)
PeriodHears == cancelled ~> (period = "returned" \/ process # "running")

(* A page that connects gets its packets, unless a page that does not read *)
(* holds the lock: closed pages are noticed and dropped (75-88, 108-117).  *)
NewPageServed ==
  \A p \in Pages : page[p] = "upgraded" ~>
    (page[p] # "upgraded" \/ (\E q \in Pages : page[q] = "stalled") \/ process # "running")

(* Once a stop was asked for, and if one more connection comes in, the     *)
(* process ends; if it ends by main's return, the caches are saved and the *)
(* system's proxy is off.                                                  *)
StopWithTraffic ==
  (cancelled /\ waiting > 0 /\ listener = "accept")
     ~> (process # "running" /\ (process = "returned" => saved /\ ~proxy))

(* Where main and its two loops can take no step: the message to the       *)
(* dashboard is sent without waiting, so the period loop only rests at its *)
(* ends.                                                                   *)
AtRest ==
  /\ main = "returned" \/ (main = "wait" /\ ~(listener = "returned" /\ period = "returned"))
  /\ listener \in {"off", "returned"} \/ (listener = "accept" /\ waiting = 0)
  /\ period \in {"off", "returned"}

(* Whatever fails, and whatever the dashboard's pages do, the only thing a *)
(* process that still runs ever waits for is a client's connection, and by *)
(* then a stop was asked for and the period loop has heard of it.          *)
OnlyAcceptWaits ==
  process = "running" /\ AtRest =>
    main = "wait" /\ listener = "accept" /\ waiting = 0 /\ period = "returned" /\ cancelled

(* A process that ends by main's return has saved the caches, stopped both *)
(* loops and switched the proxy off, unless that command itself failed     *)
(* (main's deferred calls, ClientApp.go:36-83).                            *)
ReturnIsClean ==
  process = "returned" =>
    /\ saved /\ cancelled
    /\ listener = "returned" /\ period = "returned"
    /\ proxy => "disable" \in Faults

(* The steps main and its loops can still take after a stop.               *)
MainLeft == [enable |-> 7, speedTest |-> 6, start |-> 5, wait |-> 4, save |-> 3, cancel |-> 2, disable |-> 1,
             returned |-> 0]
ListenerLeft == [listen |-> 3, accept |-> 2, check |-> 1, off |-> 0, returned |-> 0]
PeriodLeft == [start |-> 4, publish |-> 3, sleep |-> 2, check |-> 1, off |-> 0, returned |-> 0]
StepsLeft == MainLeft[main] + ListenerLeft[listener] + PeriodLeft[period]

(* After a stop every step of main and of the two loops brings the end     *)
(* nearer: neither loop turns again, one more connection at most is        *)
(* accepted, and nobody's step makes the way longer.                       *)
StopComesNearer ==
  [][cancelled =>
       /\ StepsLeft' <= StepsLeft
       /\ <<main, listener, period>>' # <<main, listener, period>> => StepsLeft' < StepsLeft]_vars

-----------------------------------------------------------------------------
(* Two statements of the code that it does not live up to (README, 3).     *)

(* A process that has ended does not leave the system pointing at a proxy  *)
(* that is no more: creation and exit go together (ClientApp.go:36-46).    *)
ProxyRestored == process # "running" => ~proxy

(* A stop asked for on the console or the dashboard closes the system      *)
(* ("closing the system", dashborad.go:128).                               *)
StopCloses == cancelled ~> process # "running"

=============================================================================
