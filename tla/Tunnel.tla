-------------------------------- MODULE Tunnel --------------------------------
(***************************************************************************)
(* One connection of a client: handleConnection reads the request, asks    *)
(* the policy and hands the connection to an HTTP server of its own        *)
(* (HttpsHandle) or joins it with one to the target server, two goroutines *)
(* copying in either direction (WithoutTlsStraight).                       *)
(***************************************************************************)
EXTENDS Integers, FiniteSets

CONSTANTS
  Names,     \* host names
  Listed,    \* entries of ActionPassThrough in HostPolicy.json
  Loaded,    \* whether HostPolicy.json could be read
  MaxUnits,  \* bound of the model: pieces of data either side sends
  NetworkFails

NoName == ""

(* The Host of a request, with the port it names or without. *)
Hosts == [name : Names, port : BOOLEAN]
NoHost == [name |-> NoName, port |-> FALSE]

(* A CONNECT names the port; the request itself is no data for the target. *)
Requests == [connect : {TRUE}, host : [name : Names, port : {TRUE}]]
            \cup [connect : {FALSE}, host : Hosts \cup {NoHost}]

ASSUME TunnelAssumption ==
  /\ NoName \notin Names
  /\ Listed \subseteq Hosts /\ Loaded \in BOOLEAN
  /\ MaxUnits \in Nat \ {0} /\ NetworkFails \in BOOLEAN

VARIABLES
  request,    \* the client's request
  handler,    \* handleConnection's place
  conn,       \* whether the proxy holds the client's connection open
  targetConn, \* whether it holds one to the target open
  hostConn,   \* whether the one certHandler dialled is open
  end,        \* of client and target: "open", "half" (nothing more is sent) or "gone"
  stalled,    \* the sides that read no more, with every buffer to them full
  sent,       \* pieces the client and the target have sent
  taken,      \* of the client's, those ReadRequest has read or buffered
  moved,      \* pieces copied from the client and from the target
  copier,     \* the goroutine that reads from client or target
  server      \* Serve's place, and the goroutine that serves the connection

vars == <<request, handler, conn, targetConn, hostConn, end, stalled, sent, taken, moved,
          copier, server>>

Sides == {"client", "target"}
Other(s) == IF s = "client" THEN "target" ELSE "client"

Init ==
  /\ request \in Requests
  /\ handler = "read"
  /\ conn = TRUE /\ targetConn = FALSE /\ hostConn = FALSE
  /\ end = [s \in Sides |-> "open"] /\ stalled = {}
  /\ sent = [s \in Sides |-> 0] /\ moved = [s \in Sides |-> 0]
  /\ taken = 0
  /\ copier = [s \in Sides |-> "off"]
  /\ server = [accept |-> "off", once |-> FALSE, serving |-> 0]

data == <<end, stalled, sent, taken, moved>>

-----------------------------------------------------------------------------
(* The policy. LoadPolicies sets "*" to accelerate behind the lists, and   *)
(* reads no list for isolated hosts.                                       *)
Policies == IF Loaded THEN [h \in Listed |-> "pass"] ELSE [h \in {} |-> "pass"]

(* The key is the Host as it stands, port included. *)
CheckPolicy(host) == IF host \in DOMAIN Policies THEN Policies[host] ELSE "accelerate"

(* JoinHostPort brackets a host that already has a port, and that is no    *)
(* name anybody resolves.                                                  *)
Resolves(host) == ~host.port

-----------------------------------------------------------------------------
(* handleConnection. *)
CloseConn ==
  /\ conn' = FALSE
  /\ handler' = "returned"
  /\ UNCHANGED <<request, targetConn, hostConn, data, copier, server>>

Goes(from, to) ==
  /\ handler = from
  /\ handler' = to
  /\ UNCHANGED <<request, conn, targetConn, end, stalled, sent, moved, copier, server>>

Arrived == request.connect \/ sent["client"] > 0

(* http.ReadRequest through a bufio.Reader, which also takes what already  *)
(* lies behind the request.                                                *)
ReadRequest ==
  /\ Goes("read", IF request.connect THEN "reply" ELSE "dial")
  /\ UNCHANGED hostConn
  /\ Arrived /\ request.host # NoHost
  /\ taken' \in (IF request.connect THEN {0} ELSE 1..sent["client"])

(* Nothing that parses, a client that left, or a request without a host. *)
BadRequest ==
  /\ handler = "read"
  /\ \/ end["client"] # "open" \/ Arrived
  /\ CloseConn

(* The client is told before anything is known of the target. *)
Reply ==
  /\ Goes("reply", IF CheckPolicy(request.host) = "accelerate" THEN "shake" ELSE "dial")
  /\ UNCHANGED <<hostConn, taken>>

ReplyFails == handler = "reply" /\ end["client"] = "gone" /\ CloseConn

(* certHandler, called by tlsShake unless the certificate is cached, dials *)
(* the host for its certificate (Certificates has what it does with it).   *)
CertDial ==
  /\ Goes("shake", "cert")
  /\ hostConn' = TRUE
  /\ UNCHANGED taken

(* It returns through the deferred Close calls ...                         *)
CertFetched ==
  /\ Goes("cert", "shaken")
  /\ hostConn' = FALSE
  /\ UNCHANGED taken

(* ... or before they are deferred: the host's handshake failed, or showed *)
(* no certificate. tlsShake and handleConnection close the client's        *)
(* connection, nobody the host's.                                          *)
CertFails == handler = "cert" /\ CloseConn

(* Mutant of ShakeFails: the connection is not closed. *)
ShakeForgets ==
  /\ handler = "shaken" /\ handler' = "returned"
  /\ UNCHANGED <<request, conn, targetConn, hostConn, data, copier, server>>

(* The client's handshake fails, or there is no certificate to show it. *)
ShakeFails == handler \in {"shake", "shaken"} /\ CloseConn

Shake ==
  /\ handler \in {"shake", "shaken"} /\ end["client"] # "gone"
  /\ handler' = "returned"
  /\ server' = [server EXCEPT !.accept = "first"]
  /\ UNCHANGED <<request, conn, targetConn, hostConn, data, copier>>

DialFails ==
  /\ handler = "dial"
  /\ ~Resolves(request.host) \/ NetworkFails
  /\ CloseConn

Dial ==
  /\ handler = "dial"
  /\ Resolves(request.host)
  /\ handler' = "wait"
  /\ targetConn' = TRUE
  /\ copier' = [s \in Sides |-> "copy"]
  /\ UNCHANGED <<request, conn, hostConn, data, server>>

(* wg.Wait, then the deferred Close calls. *)
Joined ==
  /\ handler = "wait"
  /\ \A s \in Sides : copier[s] = "ended"
  /\ handler' = "returned"
  /\ conn' = FALSE /\ targetConn' = FALSE
  /\ UNCHANGED <<request, hostConn, data, copier, server>>

-----------------------------------------------------------------------------
(* io.Copy from side s to the other one. *)
Offset(s) == IF s = "client" THEN taken ELSE 0
Pending(s) == Offset(s) + moved[s] < sent[s]

Gone(s) == end[s] = "gone"

(* A piece is read, ...                                                    *)
Take(s) ==
  /\ copier[s] = "copy" /\ Pending(s)
  /\ copier' = [copier EXCEPT ![s] = "write"]
  /\ UNCHANGED <<request, handler, conn, targetConn, hostConn, data, server>>

(* ... and its write has no deadline: it waits for a side that is still    *)
(* there and does not read.                                                *)
Blocked(s) == copier[s] = "write" /\ Other(s) \in stalled /\ ~Gone(Other(s))

Put(s) ==
  /\ copier[s] = "write" /\ ~Gone(Other(s)) /\ ~Blocked(s)
  /\ moved' = [moved EXCEPT ![s] = @ + 1]
  /\ copier' = [copier EXCEPT ![s] = "copy"]
  /\ UNCHANGED <<request, handler, conn, targetConn, hostConn, end, stalled, sent, taken, server>>

EndCopy(s) ==
  /\ copier' = [copier EXCEPT ![s] = "ended"]
  /\ UNCHANGED <<request, handler, conn, targetConn, hostConn, data, server>>

(* Mutant of SourceEnds: what is still on its way is given up. *)
SourceEndsEarly(s) ==
  /\ copier[s] = "copy"
  /\ end[s] # "open"
  /\ EndCopy(s)

(* Mutant of SourceEnds: the end of a stream is not noticed.               *)
SourceEndsUnseen(s) ==
  /\ copier[s] = "copy"
  /\ Gone(s)
  /\ EndCopy(s)

(* The end of the stream, behind all of its data; a connection that is     *)
(* gone may be reset before they are read. The other side is not told.     *)
SourceEnds(s) ==
  /\ copier[s] = "copy"
  /\ Gone(s) \/ (end[s] = "half" /\ ~Pending(s))
  /\ EndCopy(s)

WriteFails(s) ==
  /\ copier[s] = "write" /\ Gone(Other(s))
  /\ EndCopy(s)

-----------------------------------------------------------------------------
(* Mutant of AcceptFirst: without sync.Once the connection is given away   *)
(* by every Accept.                                                        *)
AcceptAgain ==
  /\ server.accept = "first"
  /\ server' = [server EXCEPT !.serving = @ + 1]
  /\ UNCHANGED <<request, handler, conn, targetConn, hostConn, data, copier>>

(* HttpsHandle: singleConnListener gives its connection once; the second   *)
(* Accept waits for a Close that nobody calls.                             *)
AcceptFirst ==
  /\ server.accept = "first"
  /\ ~server.once
  /\ server' = [server EXCEPT !.once = TRUE, !.serving = @ + 1, !.accept = "second"]
  /\ UNCHANGED <<request, handler, conn, targetConn, hostConn, data, copier>>

(* The client leaves, a timeout of the server passes or a handler that has *)
(* taken the connection over closes it.                                    *)
ServeEnds ==
  /\ server.serving > 0
  /\ server' = [server EXCEPT !.serving = @ - 1]
  /\ conn' = FALSE
  /\ UNCHANGED <<request, handler, targetConn, hostConn, data, copier>>

-----------------------------------------------------------------------------
(* The client and the target server. *)
Linked(s) == IF s = "client" THEN conn ELSE targetConn

Send(s) ==
  /\ Linked(s) /\ end[s] = "open" /\ sent[s] < MaxUnits
  /\ s = "client" /\ request.connect => handler \notin {"read", "reply"}
  /\ sent' = [sent EXCEPT ![s] = @ + 1]
  /\ UNCHANGED <<request, handler, conn, targetConn, hostConn, end, stalled, taken, moved,
                 copier, server>>

(* A side sends nothing more, or closes. *)
Leave(s) ==
  /\ Linked(s)
  /\ \/ end[s] = "open" /\ end' \in {[end EXCEPT ![s] = e] : e \in {"half", "gone"}}
     \/ end[s] = "half" /\ end' = [end EXCEPT ![s] = "gone"]
  /\ UNCHANGED <<request, handler, conn, targetConn, hostConn, stalled, sent, taken, moved,
                 copier, server>>

(* A side stays and reads no more. One that reads on later has only been   *)
(* slow, which is a delay of the copy.                                     *)
Stall(s) ==
  /\ Linked(s) /\ ~Gone(s) /\ s \notin stalled
  /\ stalled' = stalled \cup {s}
  /\ UNCHANGED <<request, handler, conn, targetConn, hostConn, end, sent, taken, moved,
                 copier, server>>

-----------------------------------------------------------------------------
Shaking == CertDial \/ CertFetched \/ CertFails \/ Shake \/ ShakeFails
Handler == ReadRequest \/ Reply \/ ReplyFails \/ BadRequest \/ Shaking
           \/ Dial \/ DialFails \/ Joined
Copier(s) == Take(s) \/ Put(s) \/ SourceEnds(s) \/ WriteFails(s)
Server == AcceptFirst
Peers == \E s \in Sides : Send(s) \/ Leave(s) \/ Stall(s)

Over == handler = "returned" /\ server.serving = 0 /\ server.accept # "first" /\ UNCHANGED vars

Next == Handler \/ (\E s \in Sides : Copier(s)) \/ Server \/ ServeEnds \/ Peers \/ Over

(* What wg.Wait waits for goes on by itself. Requests, handshakes and      *)
(* dialling depend on client and host, of whom nothing is assumed.         *)
Spec ==
  /\ Init /\ [][Next]_vars
  /\ WF_vars(Joined)
  /\ \A s \in Sides : WF_vars(Copier(s))

-----------------------------------------------------------------------------
(* Types of a connection's parts. *)
TypeOK ==
  /\ request \in Requests
  /\ handler \in {"read", "reply", "shake", "cert", "shaken", "dial", "wait", "returned"}
  /\ conn \in BOOLEAN /\ targetConn \in BOOLEAN /\ hostConn \in BOOLEAN
  /\ end \in [Sides -> {"open", "half", "gone"}] /\ stalled \subseteq Sides
  /\ sent \in [Sides -> 0..MaxUnits]
  /\ moved \in [Sides -> 0..MaxUnits]
  /\ \A s \in Sides : Offset(s) + moved[s] <= sent[s]
  /\ copier \in [Sides -> {"off", "copy", "write", "ended"}]
  /\ server.serving \in 0..1 /\ server.accept \in {"off", "first", "second"}

(* The tunnel is closed under nobody's data: when handleConnection has     *)
(* closed both connections, all that a side sent before it ended orderly   *)
(* has gone out to the other side, if that one was still there (201-219).  *)
NoTruncation ==
  handler = "returned" /\ copier # [s \in Sides |-> "off"] =>
    \A s \in Sides : end[s] = "half" /\ end[Other(s)] # "gone" => ~Pending(s)

(* When handleConnection has returned, the client's connection is closed   *)
(* or with its HTTP server, the tunnel's is closed, and the one certHandler*)
(* dialled is left open by nothing but a handshake that failed (42-102,    *)
(* 104-156).                                                               *)
NothingLeftOpen ==
  handler = "returned" =>
    /\ ~targetConn
    /\ conn => server.accept = "first" \/ server.serving = 1
    /\ hostConn => ~conn /\ server.accept = "off"

(* certHandler closes what it has dialled. Refuted by the same instance:   *)
(* it returns before the Close calls are deferred (144-156), and leaves the*)
(* connection to the garbage collector (README, 3).                        *)
HostConnClosed == handler = "returned" => ~hostConn

(* Neither connection is read or written any more once the deferred Close  *)
(* calls have begun: both goroutines are waited for (203-218).             *)
NoUseAfterClose == [][handler = "returned" => UNCHANGED <<moved, copier>>]_vars

(* A tunnel both of whose sides have ended is taken down, unless a write   *)
(* waits for ever for a side that is still there and does not read.        *)
TunnelEnds ==
  (handler = "wait" /\ \A s \in Sides : end[s] # "open")
    ~> (handler = "returned" \/ [](\E s \in Sides : Blocked(s)))

(* None of the guards of the proxy's own steps is true: it waits for its   *)
(* client, for the target server or for a timeout of the HTTP server. The  *)
(* network has answered what was dialled.                                  *)
AtRest ==
  /\ handler \in {"read", "wait", "returned"}
  /\ handler = "read" => end["client"] = "open" /\ ~Arrived
  /\ handler = "wait" => \E s \in Sides : copier[s] # "ended"
  /\ \A s \in Sides :
       /\ copier[s] = "copy" => end[s] = "open" /\ ~Pending(s)
       /\ copier[s] = "write" => Blocked(s)
  /\ server.accept = "first" => server.once

(* A tunnel that has come to rest waits for a side that has not ended or   *)
(* does not read, and holds nothing else back meanwhile: what either side  *)
(* has sent is out or waits for the other to read, if neither has gone;    *)
(* elsewhere only the client or its HTTP server is waited for.             *)
NothingHeldBack ==
  AtRest =>
    /\ handler = "wait" =>
         /\ \E s \in Sides : end[s] = "open" \/ Blocked(s)
         /\ \A s \in Sides : Pending(s) => Blocked(s) \/ \E t \in Sides : Gone(t)
    /\ handler = "returned" /\ conn => server.serving = 1

(* An upper bound of the steps of a connection still to come. Either side  *)
(* sends MaxUnits pieces at most, and each is taken and put once.          *)
HandlerLeft ==
  CASE handler = "read"               -> 6
    [] handler = "reply"              -> 5
    [] handler = "shake"              -> 4
    [] handler = "cert"               -> 3
    [] handler \in {"shaken", "dial"} -> 2
    [] handler = "wait"               -> 1
    [] handler = "returned"           -> 0

CopierLeft(s) ==
  CASE copier[s] \in {"off", "copy"} -> 2
    [] copier[s] = "write"           -> 1
    [] copier[s] = "ended"           -> 0

SideLeft(s) ==
  (MaxUnits - sent[s]) + 2 * (MaxUnits - moved[s]) + CopierLeft(s)
    + (IF end[s] = "open" THEN 2 ELSE IF end[s] = "half" THEN 1 ELSE 0)
    + (IF s \in stalled THEN 0 ELSE 1)

ServerLeft == (IF server.accept = "second" THEN 0 ELSE 2) + server.serving

StepsLeft == HandlerLeft + ServerLeft + SideLeft("client") + SideLeft("target")

(* No connection keeps the proxy busy for ever over a bounded amount of    *)
(* data: whatever is tried, copied or given up brings its end closer.      *)
ConnectionEnds == [][StepsLeft' < StepsLeft /\ StepsLeft' >= 0]_vars

(* What the target server is sent begins with the client's request: the    *)
(* proxy serves HTTP as it serves HTTPS (README.md:103).                   *)
RequestForwarded == moved["client"] > 0 => taken = 0

(* A host listed under ActionPassThrough gets its tunnel to the target     *)
(* server (CertPolicy_Deal.go:18), if the network lets it. Refuted by the  *)
(* same instance (README, 3).                                              *)
PassThroughServed ==
  handler = "returned" /\ request.connect /\ request.host \in Listed /\ end["client"] # "gone"
    => copier # [s \in Sides |-> "off"]

=============================================================================
