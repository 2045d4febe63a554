----------------------------- MODULE DashboardHub -----------------------------
(***************************************************************************)
(* The dashboard's websockets: one goroutine (handleMessages) receives the *)
(* packets of the period loop and writes each to every connected page,     *)
(* under the lock that a new page's handler (serveWs) needs as well. A     *)
(* page that does not read holds up the write, and with it the lock.       *)
(***************************************************************************)
EXTENDS Integers

CONSTANT Pages

VARIABLES
  hub,      \* handleMessages' place; "lock" and "write" have a packet in hand
  clients,  \* the map of connected pages
  todo,     \* pages the packet in hand has still to be written to
  page      \* each page: "away", "upgraded", "reads", "stalled" or "closed"

hubVars == <<hub, clients, todo, page>>

HubInit ==
  /\ hub = "off"
  /\ clients = {} /\ todo = {}
  /\ page = [p \in Pages |-> "away"]

(* clientsMu is held while a packet is being written; a page's handler     *)
(* holds it for one assignment.                                            *)
LockFree == hub # "write"

HubStart ==
  /\ hub = "off"
  /\ hub' = "receive"
  /\ UNCHANGED <<clients, todo, page>>

(* Mutant of BroadcastUpdate: the send waits for the receiver.             *)
BroadcastWaiting ==
  /\ hub = "receive"
  /\ hub' = "lock"
  /\ UNCHANGED <<clients, todo, page>>

(* The packet is dropped unless handleMessages is waiting for one. *)
BroadcastUpdate ==
  /\ hub' = IF hub = "receive" THEN "lock" ELSE hub
  /\ UNCHANGED <<clients, todo, page>>

HubLock ==
  /\ hub = "lock"
  /\ hub' = "write"
  /\ todo' = clients
  /\ UNCHANGED <<clients, page>>

(* Mutant of HubWrite: the write to a closed page waits as well.           *)
HubWriteOpen(p) ==
  /\ hub = "write" /\ p \in todo
  /\ page[p] = "reads"
  /\ todo' = todo \ {p}
  /\ UNCHANGED <<hub, clients, page>>

(* The write to a page that does not read waits; there is no deadline.     *)
HubWrite(p) ==
  /\ hub = "write" /\ p \in todo
  /\ page[p] # "stalled"
  /\ todo' = todo \ {p}
  /\ clients' = IF page[p] = "closed" THEN clients \ {p} ELSE clients
  /\ UNCHANGED <<hub, page>>

HubUnlock ==
  /\ hub = "write" /\ todo = {}
  /\ hub' = "receive"
  /\ UNCHANGED <<clients, todo, page>>

PageGoes(p, from, to) == page[p] = from /\ page' = [page EXCEPT ![p] = to]

Upgrade(p) == PageGoes(p, "away", "upgraded") /\ UNCHANGED <<hub, clients, todo>>

(* Mutant of Register: serveWs does not take the lock. *)
RegisterUnlocked(p) ==
  /\ PageGoes(p, "upgraded", "reads")
  /\ clients' = clients \cup {p}
  /\ UNCHANGED <<hub, todo>>

Register(p) ==
  /\ LockFree
  /\ PageGoes(p, "upgraded", "reads")
  /\ clients' = clients \cup {p}
  /\ UNCHANGED <<hub, todo>>

(* A page stops reading, reads on, or is closed. *)
PageStep(p) ==
  /\ \/ PageGoes(p, "reads", "stalled")
     \/ PageGoes(p, "stalled", "reads")
     \/ PageGoes(p, "reads", "closed")
     \/ PageGoes(p, "stalled", "closed")
  /\ UNCHANGED <<hub, clients, todo>>

HubStep == HubLock \/ (\E p \in Pages : HubWrite(p)) \/ HubUnlock

-----------------------------------------------------------------------------
(* Types of the hub's state. *)
HubTypeOK ==
  /\ hub \in {"off", "receive", "lock", "write"}
  /\ todo \subseteq clients /\ clients \subseteq Pages
  /\ page \in [Pages -> {"away", "upgraded", "reads", "stalled", "closed"}]

(* The map of pages is not written to while a packet is being written to   *)
(* the pages it holds, but by the goroutine that does so: a map written    *)
(* while it is walked ends a Go process (dashborad.go:75-88, 108-117).     *)
OneWriter == [][hub = "write" => clients' \subseteq clients /\ clients \ clients' \subseteq todo]_hubVars

=============================================================================
