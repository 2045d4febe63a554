---------------------------- MODULE LifecycleProofs ----------------------------
(* Proofs about Lifecycle and DashboardHub, for any faults, number of      *)
(* connections and pages.                                                  *)
EXTENDS Lifecycle, TLAPS

Shutdown == {"save", "cancel", "disable", "returned"}

(* wg.Wait is over only when both loops have returned, and neither begins  *)
(* anew.                                                                   *)
Waited == main \in Shutdown => listener = "returned" /\ period = "returned"

(* main starts the loops. *)
Started == main \in {"enable", "speedTest", "start"} => listener = "off" /\ period = "off"

LifeInv == TypeOK /\ waiting + accepted <= MaxConns /\ Waited /\ Started

USE LifecycleAssumption DEF conns, goroutines, MainGoes

LEMMA InitLife == Init => LifeInv
<1> SUFFICES ASSUME Init PROVE LifeInv
  OBVIOUS
<1>1. HubTypeOK
  BY DEF Init, HubInit, HubTypeOK
<1>2. waiting \in 0..MaxConns /\ accepted \in 0..MaxConns /\ waiting + accepted <= MaxConns
  BY DEF Init
<1>4. proxy \in BOOLEAN /\ cancelled \in BOOLEAN /\ saved \in BOOLEAN
  BY DEF Init
<1>3. Waited /\ Started
  BY DEF Init, Waited, Started, Shutdown
<1> QED
  BY <1>1, <1>2, <1>3, <1>4 DEF Init, LifeInv, TypeOK

(* main's own steps. *)
LEMMA MainLife == LifeInv /\ Main => LifeInv'
<1> SUFFICES ASSUME LifeInv, Main PROVE LifeInv'
  OBVIOUS
<1>1. HubTypeOK'
  BY DEF Main, Apart, hubVars, LifeInv, TypeOK, HubTypeOK
<1>2. UNCHANGED <<dashboard, waiting, accepted>>
  BY DEF Main, Apart, EnableProxy, SpeedTest, SpeedTestPanic, Start, WaitDone, SaveCaches, Cancel, DisableProxy
<1>3. main' \in {"enable", "speedTest", "start", "wait", "save", "cancel", "disable", "returned"}
      /\ process' \in {"running", "returned", "fatal", "panic"}
  BY DEF LifeInv, TypeOK, Main, Apart, EnableProxy, SpeedTest, SpeedTestPanic, Start, WaitDone, SaveCaches, Cancel, DisableProxy
<1>4. proxy' \in BOOLEAN /\ cancelled' \in BOOLEAN /\ saved' \in BOOLEAN
  BY DEF LifeInv, TypeOK, Main, Apart, EnableProxy, SpeedTest, SpeedTestPanic, Start, WaitDone, SaveCaches, Cancel, DisableProxy
<1>5. /\ keys' \in {"off", "reading", "returned"}
      /\ listener' \in {"off", "listen", "check", "accept", "returned"}
      /\ period' \in {"off", "start", "check", "publish", "sleep", "returned"}
  BY DEF LifeInv, TypeOK, Main, Apart, EnableProxy, SpeedTest, SpeedTestPanic, Start, WaitDone, SaveCaches, Cancel, DisableProxy
<1>6. Waited' /\ Started'
  BY DEF LifeInv, Waited, Started, Shutdown, Main, Apart, EnableProxy, SpeedTest, SpeedTestPanic, Start, WaitDone, SaveCaches, Cancel, DisableProxy
<1> QED
  BY <1>1, <1>2, <1>3, <1>4, <1>5, <1>6 DEF LifeInv, TypeOK

Goroutines == ListenerLoop \/ PeriodLoop \/ Dashboard \/ User \/ Others

(* The goroutines main has started, clients and users. *)
LEMMA GoroutinesLife == LifeInv /\ Goroutines => LifeInv'
<1> SUFFICES ASSUME LifeInv, Goroutines PROVE LifeInv'
  OBVIOUS
<1>0. TypeOK /\ waiting + accepted <= MaxConns /\ Waited /\ Started
  BY DEF LifeInv
<1>1. UNCHANGED <<proxy, main, saved>>
  BY DEF Goroutines, ListenerLoop, PeriodLoop, Dashboard, User, Others, Apart, Listen, ListenerCheck, Accept, PeriodStart,
         PeriodCheck, PeriodPublish, PeriodWake, DashboardServe, DashboardFatal, KeyQuit, DashboardStop, Connect, HandlerPanic
<1>2. HubTypeOK'
  <2>1. CASE UNCHANGED hubVars
    BY <1>0, <2>1 DEF TypeOK, hubVars, HubTypeOK
  <2>2. CASE PeriodPublish
    BY <1>0, <2>2 DEF TypeOK, PeriodPublish, BroadcastUpdate, HubTypeOK
  <2> QED
    BY <2>1, <2>2 DEF Goroutines, ListenerLoop, PeriodLoop, Dashboard, User, Others, Apart
<1>3. /\ cancelled' \in BOOLEAN
      /\ keys' \in {"off", "reading", "returned"}
      /\ dashboard' \in {"off", "starting", "serving"}
      /\ process' \in {"running", "returned", "fatal", "panic"}
  BY <1>0 DEF TypeOK, Goroutines, ListenerLoop, PeriodLoop, Dashboard, User, Others, Apart, Listen, ListenerCheck, Accept, PeriodStart,
         PeriodCheck, PeriodPublish, PeriodWake, DashboardServe, DashboardFatal, KeyQuit, DashboardStop, Connect, HandlerPanic
<1>4. waiting' \in 0..MaxConns /\ accepted' \in 0..MaxConns /\ waiting' + accepted' <= MaxConns
  BY <1>0 DEF TypeOK, Goroutines, ListenerLoop, PeriodLoop, Dashboard, User, Others, Apart, Listen, ListenerCheck, Accept, PeriodStart,
         PeriodCheck, PeriodPublish, PeriodWake, DashboardServe, DashboardFatal, KeyQuit, DashboardStop, Connect, HandlerPanic
<1>5. /\ listener' \in {"off", "listen", "check", "accept", "returned"}
      /\ period' \in {"off", "start", "check", "publish", "sleep", "returned"}
      /\ listener \in {"off", "returned"} => listener' = listener
      /\ period \in {"off", "returned"} => period' = period
  BY <1>0 DEF TypeOK, Goroutines, ListenerLoop, PeriodLoop, Dashboard, User, Others, Apart, Listen, ListenerCheck, Accept, PeriodStart,
         PeriodCheck, PeriodPublish, PeriodWake, DashboardServe, DashboardFatal, KeyQuit, DashboardStop, Connect, HandlerPanic
<1>6. Waited' /\ Started'
  BY <1>0, <1>1, <1>5 DEF Waited, Started
<1> QED
  BY <1>0, <1>1, <1>2, <1>3, <1>4, <1>5, <1>6 DEF LifeInv, TypeOK

(* The hub's steps and the pages'. *)
HubSide == Hub \/ Page \/ \E p \in Pages : NewPage(p)

LEMMA HubTypes == HubTypeOK /\ HubSide => HubTypeOK'
<1> SUFFICES ASSUME HubTypeOK, HubSide PROVE HubTypeOK'
  OBVIOUS
<1>1. CASE HubStart \/ HubLock \/ HubUnlock
  BY <1>1 DEF HubStart, HubLock, HubUnlock, HubTypeOK
<1>2. CASE \E p \in Pages : HubWrite(p)
  BY <1>2 DEF HubWrite, HubTypeOK
<1>3. CASE \E p \in Pages : Upgrade(p) \/ PageStep(p)
  BY <1>3 DEF Upgrade, PageStep, PageGoes, HubTypeOK
<1>4. CASE \E p \in Pages : Register(p)
  BY <1>4 DEF Register, PageGoes, HubTypeOK
<1> QED
  BY <1>1, <1>2, <1>3, <1>4 DEF HubSide, Hub, HubStep, Page, NewPage

LEMMA HubLife == LifeInv /\ HubSide => LifeInv'
<1> SUFFICES ASSUME LifeInv, HubSide PROVE LifeInv'
  OBVIOUS
<1>1. HubTypeOK'
  BY HubTypes DEF LifeInv, TypeOK
<1>2. UNCHANGED lifeVars
  BY DEF HubSide, Hub, Page, NewPage
<1> QED
  BY <1>1, <1>2 DEF lifeVars, LifeInv, TypeOK, Waited, Started

(* Every step is main's, a goroutine's or the hub's. *)
LEMMA NextLife == LifeInv /\ [Next]_vars => LifeInv'
<1> SUFFICES ASSUME LifeInv, [Next]_vars PROVE LifeInv'
  OBVIOUS
<1>1. CASE UNCHANGED vars
  BY <1>1 DEF vars, lifeVars, hubVars, LifeInv, TypeOK, HubTypeOK, Waited, Started
<1>2. CASE Step
  BY <1>2, MainLife, GoroutinesLife, HubLife DEF Step, Goroutines, HubSide
<1> QED
  BY <1>1, <1>2 DEF Next, Running, Terminated

THEOREM LifeInvariant == Spec => []LifeInv
BY InitLife, NextLife, PTL DEF Spec

(* The parts of the process have their types.                              *)
THEOREM LifeTypes == Spec => []TypeOK
BY LifeInvariant, PTL DEF LifeInv

(* While the caches are saved and the proxy is switched off, nothing new   *)
(* is accepted and no snapshot published, whatever fails (main, 76-82).    *)
THEOREM QuietShutdown == Spec => QuietWhileSaving
<1> DEFINE Late == main \notin {"enable", "speedTest", "start", "wait"}
<1>1. LifeInv /\ [Next]_vars => [Late => UNCHANGED <<accepted, period>>]_vars
  <2> SUFFICES ASSUME LifeInv, Next, Late PROVE UNCHANGED <<accepted, period>>
    OBVIOUS
  <2>1. listener = "returned" /\ period = "returned" /\ main \in Shutdown
    BY DEF LifeInv, TypeOK, Waited, Shutdown
  <2>2. CASE Main
    BY <2>1, <2>2 DEF Main, Apart, EnableProxy, SpeedTest, SpeedTestPanic, Start, WaitDone, SaveCaches, Cancel, DisableProxy, Shutdown
  <2>3. CASE Goroutines
    BY <2>1, <2>3 DEF Goroutines, ListenerLoop, PeriodLoop, Dashboard, User, Others, Apart, Listen, ListenerCheck, Accept, PeriodStart,
         PeriodCheck, PeriodPublish, PeriodWake, DashboardServe, DashboardFatal, KeyQuit, DashboardStop, Connect, HandlerPanic
  <2>4. CASE HubSide \/ Terminated
    BY <2>4 DEF HubSide, Hub, Page, NewPage, Terminated, lifeVars, vars
  <2> QED
    BY <2>2, <2>3, <2>4 DEF Next, Running, Step, Goroutines, HubSide
<1> QED
  BY <1>1, LifeInvariant, PTL DEF Spec, QuietWhileSaving

(* While a packet is being written, only the writing goroutine changes the *)
(* map of pages (handleMessages, serveWs).                                 *)
THEOREM PagesOneWriter == Spec => OneWriter
<1> DEFINE Own == hub = "write" => clients' \subseteq clients /\ clients \ clients' \subseteq todo
<1>1. [Next]_vars => [Own]_hubVars
  <2> SUFFICES ASSUME Next, hub = "write", ~UNCHANGED hubVars
               PROVE  clients' \subseteq clients /\ clients \ clients' \subseteq todo
    BY DEF vars
  <2>1. CASE PeriodPublish
    BY <2>1 DEF PeriodPublish, BroadcastUpdate
  <2>2. CASE HubStep \/ HubStart
    BY <2>2 DEF HubStep, HubStart, HubLock, HubWrite, HubUnlock
  <2>3. CASE Page
    BY <2>3 DEF Page, Upgrade, PageStep
  <2>4. CASE \E p \in Pages : NewPage(p)
    BY <2>4 DEF NewPage, Register, LockFree
  <2> QED
    BY <2>1, <2>2, <2>3, <2>4 DEF Next, Running, Step, Terminated, Main, ListenerLoop, PeriodLoop, Dashboard, User, Others,
       Apart, Hub, vars
<1> QED
  BY <1>1, PTL DEF Spec, OneWriter

Early == {"enable", "speedTest", "start"}

(* A stop can only be asked for once main has started everything, the      *)
(* period loop returns because of one, and main's deferred calls run one   *)
(* after the other.                                                        *)
StopInv ==
  /\ main \in Early => dashboard = "off" /\ keys = "off" /\ ~cancelled
  /\ main \notin Early => listener # "off" /\ period # "off"
  /\ period = "returned" => cancelled
  /\ main \in {"cancel", "disable", "returned"} => saved
  /\ process = "returned" <=> main = "returned"
  /\ main = "returned" => (proxy => "disable" \in Faults)

LEMMA InitStop == Init => StopInv
BY DEF Init, StopInv, Early

LEMMA NextStop == LifeInv /\ StopInv /\ [Next]_vars => StopInv'
<1> SUFFICES ASSUME LifeInv, StopInv, [Next]_vars PROVE StopInv'
  OBVIOUS
<1>0. TypeOK /\ Waited /\ Started
  BY DEF LifeInv
<1>1. CASE UNCHANGED lifeVars
  BY <1>1 DEF lifeVars, StopInv, Early
<1>2. CASE process = "running" /\ Main
  <2>1. CASE EnableProxy
    <3>1. /\ main = "enable" /\ main' = "speedTest"
          /\ UNCHANGED <<keys, listener, period, dashboard, cancelled, saved, process>>
      BY <2>1 DEF EnableProxy
    <3> QED
      BY <3>1 DEF StopInv, Early
  <2>5. CASE SpeedTest \/ SpeedTestPanic
    BY <1>2, <2>5 DEF StopInv, Early, SpeedTest, SpeedTestPanic
  <2>2. CASE Start
    BY <1>0, <1>2, <2>2 DEF Started, StopInv, Early, Start
  <2>3. CASE WaitDone \/ SaveCaches \/ Cancel
    BY <1>2, <2>3 DEF StopInv, Early, WaitDone, SaveCaches, Cancel
  <2>4. CASE DisableProxy
    BY <1>2, <2>4 DEF StopInv, Early, DisableProxy
  <2> QED
    BY <1>2, <2>1, <2>2, <2>3, <2>4, <2>5 DEF Main, Apart
<1>3. CASE process = "running" /\ (ListenerLoop \/ Others)
  BY <1>0, <1>3 DEF TypeOK, Started, StopInv, Early, ListenerLoop, Others, Apart, Listen, ListenerCheck, Accept, Connect,
       HandlerPanic
<1>4. CASE process = "running" /\ PeriodLoop
  BY <1>0, <1>4 DEF TypeOK, Started, StopInv, Early, PeriodLoop, Apart, PeriodStart, PeriodCheck, PeriodPublish, PeriodWake
<1>5. CASE process = "running" /\ (Dashboard \/ User)
  BY <1>0, <1>5 DEF TypeOK, Started, StopInv, Early, Dashboard, User, Apart, DashboardServe, DashboardFatal, KeyQuit,
       DashboardStop
<1>6. CASE HubSide \/ Terminated \/ UNCHANGED vars
  BY <1>1, <1>6 DEF HubSide, Hub, Page, NewPage, Terminated, vars
<1> QED
  BY <1>2, <1>3, <1>4, <1>5, <1>6 DEF Next, Running, Step, HubSide

LEMMA StopInvariant == Spec => [](LifeInv /\ StopInv)
BY InitLife, InitStop, NextLife, NextStop, PTL DEF Spec

(* Nothing but a client's connection is ever waited for (Listener's Accept *)
(* does not know the context).                                             *)
THEOREM StopWaitsForAccept == Spec => []OnlyAcceptWaits
<1>1. LifeInv /\ StopInv => OnlyAcceptWaits
  BY DEF LifeInv, TypeOK, StopInv, Early, AtRest, OnlyAcceptWaits
<1> QED
  BY <1>1, StopInvariant, PTL

(* main returns with everything done (ClientApp.go:36-83).                 *)
THEOREM CleanReturn == Spec => []ReturnIsClean
<1>1. LifeInv /\ StopInv => ReturnIsClean
  BY DEF LifeInv, Waited, Shutdown, StopInv, ReturnIsClean
<1> QED
  BY <1>1, StopInvariant, PTL

(* The places of a loop are numbered from its end. *)
LEMMA Places ==
  /\ \A at \in {"enable", "speedTest", "start", "wait", "save", "cancel", "disable", "returned"} : MainLeft[at] \in Nat
  /\ \A at \in {"off", "listen", "check", "accept", "returned"} : ListenerLeft[at] \in Nat
  /\ \A at \in {"off", "start", "check", "publish", "sleep", "returned"} : PeriodLeft[at] \in Nat
  /\ MainLeft["wait"] > MainLeft["save"] /\ MainLeft["save"] > MainLeft["cancel"]
  /\ MainLeft["cancel"] > MainLeft["disable"] /\ MainLeft["disable"] > MainLeft["returned"]
  /\ ListenerLeft["listen"] > ListenerLeft["check"] /\ ListenerLeft["listen"] > ListenerLeft["returned"]
  /\ ListenerLeft["accept"] > ListenerLeft["check"] /\ ListenerLeft["check"] > ListenerLeft["returned"]
  /\ PeriodLeft["start"] > PeriodLeft["check"] /\ PeriodLeft["publish"] > PeriodLeft["sleep"]
  /\ PeriodLeft["sleep"] > PeriodLeft["check"] /\ PeriodLeft["check"] > PeriodLeft["returned"]
BY DEF MainLeft, ListenerLeft, PeriodLeft

LEMMA OneLess ==
  ASSUME NEW a \in Nat, NEW b \in Nat, NEW c \in Nat, NEW d \in Nat, d < a
  PROVE  /\ d + b + c < a + b + c /\ b + d + c < b + a + c /\ b + c + d < b + c + a
         /\ d + b + c <= a + b + c /\ b + d + c <= b + a + c /\ b + c + d <= b + c + a
         /\ a + b + c <= a + b + c
OBVIOUS

(* After a stop, main and its loops only take steps towards their ends.    *)
THEOREM StopAdvances == Spec => StopComesNearer
<1> DEFINE Nearer == /\ StepsLeft' <= StepsLeft
                     /\ <<main, listener, period>>' # <<main, listener, period>> => StepsLeft' < StepsLeft
<1>1. LifeInv /\ StopInv /\ [Next]_vars => [cancelled => Nearer]_vars
  <2> SUFFICES ASSUME LifeInv, StopInv, Next, cancelled PROVE Nearer
    OBVIOUS
  <2>0. TypeOK /\ main \in {"wait", "save", "cancel", "disable", "returned"}
    BY DEF LifeInv, TypeOK, StopInv, Early
  <2>1. MainLeft[main] \in Nat /\ ListenerLeft[listener] \in Nat /\ PeriodLeft[period] \in Nat
    BY <2>0, Places DEF TypeOK
  <2>2. CASE UNCHANGED <<main, listener, period>>
    <3>1. StepsLeft' = StepsLeft /\ StepsLeft \in Nat
      BY <2>1, <2>2 DEF StepsLeft
    <3> QED
      BY <2>2, <3>1
  <2>3. CASE Main /\ ~UNCHANGED <<main, listener, period>>
    <3>1. \E at \in {"save", "cancel", "disable", "returned"} : main' = at /\ MainLeft[at] < MainLeft[main]
      BY <2>0, <2>3, Places DEF Main, Apart, EnableProxy, SpeedTest, SpeedTestPanic, Start, WaitDone, SaveCaches, Cancel,
           DisableProxy
    <3>2. UNCHANGED <<listener, period>> /\ MainLeft[main'] \in Nat
      BY <2>0, <2>3, <3>1, Places DEF Main, Apart, EnableProxy, SpeedTest, SpeedTestPanic, Start, WaitDone, SaveCaches,
           Cancel, DisableProxy
    <3> QED
      BY <2>1, <3>1, <3>2, OneLess DEF StepsLeft
  <2>4. CASE ListenerLoop
    <3>1. \E at \in {"check", "accept", "returned"} : listener' = at /\ ListenerLeft[at] < ListenerLeft[listener]
      BY <2>4, Places DEF ListenerLoop, Apart, Listen, ListenerCheck, Accept
    <3>2. UNCHANGED <<main, period>> /\ ListenerLeft[listener'] \in Nat
      BY <2>4, <3>1, Places DEF ListenerLoop, Apart, Listen, ListenerCheck, Accept
    <3> QED
      BY <2>1, <3>1, <3>2, OneLess DEF StepsLeft
  <2>5. CASE PeriodLoop
    <3>1. \E at \in {"check", "sleep", "returned"} : period' = at /\ PeriodLeft[at] < PeriodLeft[period]
      BY <2>5, Places DEF PeriodLoop, Apart, PeriodStart, PeriodCheck, PeriodPublish, PeriodWake
    <3>2. UNCHANGED <<main, listener>> /\ PeriodLeft[period'] \in Nat
      BY <2>5, <3>1, Places DEF PeriodLoop, Apart, PeriodStart, PeriodCheck, PeriodPublish, PeriodWake
    <3> QED
      BY <2>1, <3>1, <3>2, OneLess DEF StepsLeft
  <2>6. CASE Dashboard \/ User \/ Others \/ HubSide \/ Terminated
    <3>1. UNCHANGED <<main, listener, period>>
      BY <2>6 DEF Dashboard, User, Others, HubSide, Hub, Page, NewPage, Terminated, Apart, DashboardServe, DashboardFatal,
           KeyQuit, DashboardStop, Connect, HandlerPanic, lifeVars, vars
    <3> QED
      BY <2>2, <3>1
  <2> QED
    BY <2>2, <2>3, <2>4, <2>5, <2>6 DEF Next, Running, Step, HubSide
<1> QED
  BY <1>1, StopInvariant, PTL DEF Spec, StopComesNearer

=============================================================================
