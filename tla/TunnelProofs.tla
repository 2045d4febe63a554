----------------------------- MODULE TunnelProofs -----------------------------
(* Proofs about Tunnel, for any hosts, lists and amounts of data.          *)
EXTENDS Tunnel, TLAPS

Early == {"read", "reply", "shake", "cert", "shaken", "dial"}
Places == Early \cup {"wait", "returned"}

(* TypeOK with the shape of the records and functions. *)
Shapes ==
  /\ request \in Requests
  /\ handler \in Places
  /\ conn \in BOOLEAN /\ targetConn \in BOOLEAN /\ hostConn \in BOOLEAN
  /\ end \in [Sides -> {"open", "half", "gone"}] /\ stalled \subseteq Sides
  /\ copier \in [Sides -> {"off", "copy", "write", "ended"}]
  /\ server \in [accept : {"off", "first", "second"}, once : BOOLEAN, serving : 0..1]

Amounts ==
  /\ sent \in [Sides -> 0..MaxUnits] /\ moved \in [Sides -> 0..MaxUnits]
  /\ taken \in 0..MaxUnits
  /\ \A s \in Sides : Offset(s) + moved[s] <= sent[s]
  /\ \A s \in Sides : copier[s] = "off" => moved[s] = 0
  /\ \A s \in Sides : copier[s] = "write" => Offset(s) + moved[s] < sent[s]

(* What is open and what runs, by handleConnection's place. *)
Holds ==
  /\ handler \in Early =>
       conn /\ ~targetConn /\ \A s \in Sides : copier[s] = "off"
  /\ handler = "wait" => conn /\ targetConn /\ \A s \in Sides : copier[s] # "off"
  /\ handler = "returned" =>
       /\ ~targetConn
       /\ (\A s \in Sides : copier[s] = "off") \/ (\A s \in Sides : copier[s] = "ended")
       /\ conn => server.accept = "first" \/ server.serving = 1
       /\ hostConn => ~conn /\ server.accept = "off"
  /\ handler \notin {"cert", "returned"} => ~hostConn
  /\ server.accept # "off" => handler = "returned"
  /\ server.accept \in {"off", "first"} => server.serving = 0 /\ ~server.once

(* Why a copy has ended. *)
Ended ==
  \A s \in Sides : copier[s] = "ended" =>
    end[s] = "gone" \/ (end[s] = "half" /\ ~Pending(s)) \/ end[Other(s)] = "gone"

(* A tunnel is taken down when both copies have ended, and each for a      *)
(* reason that leaves nothing behind.                                      *)
TunnelInv == Shapes /\ Amounts /\ Holds /\ Ended

USE TunnelAssumption DEF Sides, Other, Early, Places, Pending, Offset, Gone

LEMMA InitTunnel == Init => TunnelInv
<1> SUFFICES ASSUME Init PROVE TunnelInv
  OBVIOUS
<1>1. Shapes
  <2>1. /\ end \in [Sides -> {"open", "half", "gone"}]
        /\ copier \in [Sides -> {"off", "copy", "write", "ended"}]
    BY DEF Init
  <2>4. stalled \subseteq Sides /\ hostConn \in BOOLEAN
    BY DEF Init
  <2>2. server \in [accept : {"off", "first", "second"}, once : BOOLEAN, serving : 0..1]
    BY DEF Init
  <2>3. request \in Requests /\ handler = "read" /\ conn \in BOOLEAN /\ targetConn \in BOOLEAN
    BY DEF Init
  <2> QED
    BY <2>1, <2>2, <2>3, <2>4 DEF Shapes
<1>2. Amounts
  BY DEF Init, Amounts
<1>3. Holds /\ Ended
  BY DEF Init, Holds, Ended
<1> QED
  BY <1>1, <1>2, <1>3 DEF TunnelInv

USE DEF data

(* handleConnection gives up, or hands the connection to the server. *)
LEMMA HandlerTunnel == TunnelInv /\ Handler => TunnelInv'
<1> SUFFICES ASSUME TunnelInv, Handler PROVE TunnelInv'
  OBVIOUS
<1>0. Shapes /\ Amounts /\ Holds /\ Ended
  BY DEF TunnelInv
<1>1. CASE ReadRequest
  <2>1. UNCHANGED <<request, conn, targetConn, hostConn, end, stalled, sent, moved, copier, server>>
        /\ handler = "read" /\ handler' \in {"reply", "dial"}
    BY <1>1 DEF ReadRequest, Goes
  <2>2. taken' \in 0..MaxUnits /\ taken' <= sent["client"]
    BY <1>0, <1>1 DEF ReadRequest, Amounts
  <2>3. \A s \in Sides : copier[s] = "off" /\ moved[s] = 0
    BY <1>0, <2>1 DEF Holds, Amounts
  <2>4. Shapes'
    BY <1>0, <2>1 DEF Shapes
  <2>5. Amounts'
    BY <1>0, <2>1, <2>2, <2>3 DEF Amounts
  <2>6. Holds' /\ Ended'
    BY <1>0, <2>1, <2>3 DEF Holds, Ended
  <2> QED
    BY <2>4, <2>5, <2>6 DEF TunnelInv
<1>2. CASE Reply
  <2>1. UNCHANGED <<request, conn, targetConn, hostConn, end, stalled, sent, moved, copier,
                    server, taken>>
        /\ handler = "reply" /\ handler' \in {"shake", "dial"}
    BY <1>2 DEF Reply, Goes
  <2>2. Shapes' /\ Amounts'
    BY <1>0, <2>1 DEF Shapes, Amounts
  <2>3. Holds' /\ Ended'
    BY <1>0, <2>1 DEF Holds, Ended
  <2> QED
    BY <2>2, <2>3 DEF TunnelInv
<1>7. CASE CertDial \/ CertFetched
  <2>1. /\ UNCHANGED <<request, conn, targetConn, end, stalled, sent, taken, moved, copier, server>>
        /\ handler \in {"shake", "cert"}
        /\ \/ handler' = "cert" /\ hostConn' = TRUE
           \/ handler' = "shaken" /\ hostConn' = FALSE
    BY <1>7 DEF CertDial, CertFetched, Goes
  <2>2. Shapes' /\ Amounts'
    BY <1>0, <2>1 DEF Shapes, Amounts
  <2>3. Holds' /\ Ended'
    BY <1>0, <2>1 DEF Holds, Ended
  <2> QED
    BY <2>2, <2>3 DEF TunnelInv
<1>3. CASE ReplyFails \/ BadRequest \/ CertFails \/ ShakeFails \/ DialFails
  <2>1. CloseConn /\ handler \in Early
    BY <1>3 DEF ReplyFails, BadRequest, CertFails, ShakeFails, DialFails
  <2>2. Shapes' /\ Amounts'
    BY <1>0, <2>1 DEF CloseConn, Shapes, Amounts
  <2>3. Holds' /\ Ended'
    BY <1>0, <2>1 DEF CloseConn, Holds, Ended
  <2> QED
    BY <2>2, <2>3 DEF TunnelInv
<1>4. CASE Shake
  <2>1. server.accept = "off" /\ server' = [server EXCEPT !.accept = "first"]
        /\ server' \in [accept : {"first"}, once : {FALSE}, serving : {0}]
    BY <1>0, <1>4 DEF Shake, Shapes, Holds
  <2>2. Shapes' /\ Amounts'
    BY <1>0, <1>4, <2>1 DEF Shake, Shapes, Amounts
  <2>3. Holds' /\ Ended'
    BY <1>0, <1>4, <2>1 DEF Shake, Holds, Ended
  <2> QED
    BY <2>2, <2>3 DEF TunnelInv
<1>5. CASE Dial
  <2>1. copier' = [s \in Sides |-> "copy"]
    BY <1>5 DEF Dial
  <2>2. Shapes' /\ Amounts'
    BY <1>0, <1>5, <2>1 DEF Dial, Shapes, Amounts
  <2>3. Holds' /\ Ended'
    BY <1>0, <1>5, <2>1 DEF Dial, Holds, Ended
  <2> QED
    BY <2>2, <2>3 DEF TunnelInv
<1>6. CASE Joined
  <2>1. Shapes' /\ Amounts'
    BY <1>0, <1>6 DEF Joined, Shapes, Amounts
  <2>2. Holds' /\ Ended'
    BY <1>0, <1>6 DEF Joined, Holds, Ended
  <2> QED
    BY <2>1, <2>2 DEF TunnelInv
<1> QED
  BY <1>1, <1>2, <1>3, <1>4, <1>5, <1>6, <1>7 DEF Handler, Shaking

(* A copying goroutine moves a piece, or ends. *)
LEMMA CopierTunnel == ASSUME TunnelInv, NEW s \in Sides, Copier(s) PROVE TunnelInv'
<1>0. Shapes /\ Amounts /\ Holds /\ Ended
  BY DEF TunnelInv
<1>1. CASE Put(s)
  <2>1. /\ moved' = [moved EXCEPT ![s] = @ + 1] /\ copier' = [copier EXCEPT ![s] = "copy"]
        /\ UNCHANGED <<request, handler, conn, targetConn, hostConn, end, stalled, sent, taken,
                       server>>
        /\ copier[s] = "write" /\ moved[s] + 1 + Offset(s) <= sent[s]
    BY <1>0, <1>1 DEF Put, Amounts
  <2>2. Shapes'
    BY <1>0, <2>1 DEF Shapes
  <2>3. Amounts'
    BY <1>0, <2>1 DEF Amounts, Shapes
  <2>4. Holds'
    BY <1>0, <2>1 DEF Holds, Shapes
  <2>5. Ended'
    BY <1>0, <2>1 DEF Ended, Amounts, Shapes
  <2> QED
    BY <2>2, <2>3, <2>4, <2>5 DEF TunnelInv
<1>3. CASE Take(s)
  <2>1. /\ copier' = [copier EXCEPT ![s] = "write"] /\ copier[s] = "copy" /\ Pending(s)
        /\ UNCHANGED <<request, handler, conn, targetConn, hostConn, end, stalled, sent, taken,
                       moved, server>>
    BY <1>3 DEF Take
  <2>2. Shapes'
    BY <1>0, <2>1 DEF Shapes
  <2>3. Amounts'
    BY <1>0, <2>1 DEF Amounts, Shapes
  <2>4. Holds'
    BY <1>0, <2>1 DEF Holds, Shapes
  <2>5. Ended'
    BY <1>0, <2>1 DEF Ended, Shapes
  <2> QED
    BY <2>2, <2>3, <2>4, <2>5 DEF TunnelInv
<1>2. CASE SourceEnds(s) \/ WriteFails(s)
  <2>1. copier' = [copier EXCEPT ![s] = "ended"] /\ copier[s] \in {"copy", "write"}
        /\ UNCHANGED <<request, handler, conn, targetConn, hostConn, end, stalled, sent, taken,
                       moved, server>>
    BY <1>2 DEF SourceEnds, WriteFails, EndCopy
  <2>2. end[s] = "gone" \/ (end[s] = "half" /\ ~Pending(s)) \/ end[Other(s)] = "gone"
    BY <1>2 DEF SourceEnds, WriteFails
  <2>3. handler = "wait"
    BY <1>0, <2>1 DEF Holds, Shapes
  <2>4. Shapes' /\ Amounts'
    BY <1>0, <2>1 DEF Shapes, Amounts
  <2>5. Holds'
    BY <1>0, <2>1, <2>3 DEF Holds, Shapes
  <2>6. Ended'
    BY <1>0, <2>1, <2>2 DEF Ended, Shapes
  <2> QED
    BY <2>4, <2>5, <2>6 DEF TunnelInv
<1> QED
  BY <1>1, <1>2, <1>3 DEF Copier

(* The HTTP server takes the connection, and lets it go. *)
LEMMA ServerTunnel == TunnelInv /\ (AcceptFirst \/ ServeEnds) => TunnelInv'
<1> SUFFICES ASSUME TunnelInv, AcceptFirst \/ ServeEnds PROVE TunnelInv'
  OBVIOUS
<1>0. Shapes /\ Amounts /\ Holds /\ Ended
  BY DEF TunnelInv
<1>1. /\ UNCHANGED <<request, handler, targetConn, hostConn, end, stalled, sent, taken, moved,
                     copier>>
      /\ server' \in [accept : {"second"}, once : BOOLEAN, serving : 0..1]
      /\ server.accept # "off"
      /\ (conn' = conn /\ server'.serving = 1) \/ conn' = FALSE
  <2>1. CASE AcceptFirst
    <3>1. server.serving = 0 /\ server.accept = "first"
      BY <1>0, <2>1 DEF AcceptFirst, Holds
    <3>2. server' = [server EXCEPT !.once = TRUE, !.serving = 1, !.accept = "second"]
      BY <2>1, <3>1 DEF AcceptFirst
    <3>3. server \in [accept : {"off", "first", "second"}, once : BOOLEAN, serving : 0..1]
      BY <1>0 DEF Shapes
    <3>4. server' = [accept |-> "second", once |-> TRUE, serving |-> 1]
      BY <3>2, <3>3
    <3>5. server' \in [accept : {"second"}, once : BOOLEAN, serving : 0..1]
      BY <3>4
    <3> QED
      BY <2>1, <3>1, <3>4, <3>5 DEF AcceptFirst
  <2>2. CASE ServeEnds
    <3>1. server.serving = 1 /\ server.accept = "second"
      BY <1>0, <2>2 DEF ServeEnds, Shapes, Holds
    <3>2. server' = [server EXCEPT !.serving = 0] /\ conn' = FALSE
      BY <2>2, <3>1 DEF ServeEnds
    <3>3. server' \in [accept : {"second"}, once : BOOLEAN, serving : 0..1]
      BY <1>0, <3>1, <3>2 DEF Shapes
    <3> QED
      BY <2>2, <3>1, <3>2, <3>3 DEF ServeEnds
  <2> QED
    BY <2>1, <2>2
<1>2. Shapes' /\ Amounts'
  BY <1>0, <1>1 DEF Shapes, Amounts
<1>3. Holds' /\ Ended'
  BY <1>0, <1>1 DEF Holds, Ended
<1> QED
  BY <1>2, <1>3 DEF TunnelInv

(* Client and target send and leave. *)
LEMMA PeersTunnel == TunnelInv /\ Peers => TunnelInv'
<1> SUFFICES ASSUME TunnelInv, NEW s \in Sides, Send(s) \/ Leave(s) \/ Stall(s)
             PROVE  TunnelInv'
  BY DEF Peers
<1>0. Shapes /\ Amounts /\ Holds /\ Ended
  BY DEF TunnelInv
<1>1. CASE Send(s)
  <2>1. sent' = [sent EXCEPT ![s] = @ + 1] /\ sent[s] < MaxUnits /\ end[s] = "open"
        /\ UNCHANGED <<request, handler, conn, targetConn, hostConn, end, stalled, taken, moved,
                       copier, server>>
    BY <1>1 DEF Send
  <2>2. Shapes' /\ Holds'
    BY <1>0, <2>1 DEF Shapes, Holds
  <2>3. Amounts'
    BY <1>0, <2>1 DEF Amounts
  <2>4. Ended'
    BY <1>0, <2>1 DEF Ended, Amounts
  <2> QED
    BY <2>2, <2>3, <2>4 DEF TunnelInv
<1>2. CASE Leave(s)
  <2>1. UNCHANGED <<request, handler, conn, targetConn, hostConn, stalled, sent, taken, moved,
                    copier, server>>
        /\ \E e \in {"half", "gone"} : end' = [end EXCEPT ![s] = e] /\ (end[s] = "open" \/ (end[s] = "half" /\ e = "gone"))
    BY <1>2 DEF Leave
  <2>2. Shapes'
    BY <1>0, <2>1 DEF Shapes
  <2>3. Amounts' /\ Holds'
    BY <1>0, <2>1 DEF Amounts, Holds
  <2>4. Ended'
    BY <1>0, <2>1 DEF Ended, Shapes
  <2> QED
    BY <2>2, <2>3, <2>4 DEF TunnelInv
<1>3. CASE Stall(s)
  <2>1. /\ stalled' = stalled \cup {s}
        /\ UNCHANGED <<request, handler, conn, targetConn, hostConn, end, sent, taken, moved,
                       copier, server>>
    BY <1>3 DEF Stall
  <2>2. Shapes' /\ Amounts'
    BY <1>0, <2>1 DEF Shapes, Amounts
  <2>3. Holds' /\ Ended'
    BY <1>0, <2>1 DEF Holds, Ended
  <2> QED
    BY <2>2, <2>3 DEF TunnelInv
<1> QED
  BY <1>1, <1>2, <1>3

(* The inductive invariant of a connection.                                *)
THEOREM TunnelInvariant == Spec => []TunnelInv
<1>1. TunnelInv /\ [Next]_vars => TunnelInv'
  <2> SUFFICES ASSUME TunnelInv, [Next]_vars PROVE TunnelInv'
    OBVIOUS
  <2>1. CASE Over \/ UNCHANGED vars
    <3>1. UNCHANGED <<request, handler, conn, targetConn, hostConn, end, stalled, sent, taken,
                      moved,
                      copier, server>>
      BY <2>1 DEF Over, vars
    <3>2. Shapes' /\ Amounts'
      BY <3>1 DEF TunnelInv, Shapes, Amounts
    <3>3. Holds' /\ Ended'
      BY <3>1 DEF TunnelInv, Holds, Ended
    <3> QED
      BY <3>2, <3>3 DEF TunnelInv
  <2>2. CASE Handler
    BY <2>2, HandlerTunnel
  <2>3. CASE \E s \in Sides : Copier(s)
    BY <2>3, CopierTunnel
  <2>4. CASE Server \/ ServeEnds
    BY <2>4, ServerTunnel DEF Server
  <2>5. CASE Peers
    BY <2>5, PeersTunnel
  <2> QED
    BY <2>1, <2>2, <2>3, <2>4, <2>5 DEF Next
<1> QED
  BY <1>1, InitTunnel, PTL DEF Spec

(* The parts of a connection have their types.                             *)
THEOREM TunnelTypes == Spec => []TypeOK
<1>1. TunnelInv => TypeOK
  <2> SUFFICES ASSUME TunnelInv PROVE TypeOK
    OBVIOUS
  <2>1. Shapes /\ Amounts
    BY DEF TunnelInv
  <2>2. server.serving \in 0..1 /\ server.accept \in {"off", "first", "second"}
    BY <2>1 DEF Shapes
  <2> QED
    BY <2>1, <2>2 DEF TypeOK, Shapes, Amounts
<1> QED
  BY <1>1, TunnelInvariant, PTL

(* A tunnel loses nothing a side sent before it ended orderly, however the *)
(* two directions interleave (WithoutTlsStraight).                         *)
THEOREM TunnelComplete == Spec => []NoTruncation
<1>1. TunnelInv => NoTruncation
  <2> SUFFICES ASSUME TunnelInv, handler = "returned", copier # [s \in Sides |-> "off"]
               PROVE  \A s \in Sides : end[s] = "half" /\ end[Other(s)] # "gone" => ~Pending(s)
    BY DEF NoTruncation
  <2>1. \A s \in Sides : copier[s] = "ended"
    BY DEF TunnelInv, Holds, Shapes
  <2> QED
    BY <2>1 DEF TunnelInv, Ended
<1> QED
  BY <1>1, TunnelInvariant, PTL

(* Whatever way handleConnection returns: the client's connection is closed*)
(* or served, the tunnel's is closed, and what certHandler dialled is still*)
(* open only behind a handshake that failed.                               *)
THEOREM NothingStaysOpen == Spec => []NothingLeftOpen
<1>1. TunnelInv => NothingLeftOpen
  BY DEF TunnelInv, Holds, NothingLeftOpen
<1> QED
  BY <1>1, TunnelInvariant, PTL

(* Nothing is copied once the connections are being closed.                *)
THEOREM CopiesBeforeClose == Spec => NoUseAfterClose
<1>1. TunnelInv /\ [Next]_vars => [handler = "returned" => UNCHANGED <<moved, copier>>]_vars
  <2> SUFFICES ASSUME TunnelInv, Next, handler = "returned" PROVE UNCHANGED <<moved, copier>>
    OBVIOUS
  <2>1. \A s \in Sides : copier[s] \notin {"copy", "write"}
    BY DEF TunnelInv, Holds
  <2>2. CASE Handler
    BY <2>2 DEF Handler, Shaking, ReadRequest, Reply, Goes, ReplyFails, BadRequest, CertDial,
      CertFetched, CertFails, Shake, ShakeFails, Dial, DialFails, Joined, CloseConn
  <2>3. CASE Server \/ ServeEnds \/ Peers \/ Over
    BY <2>3 DEF Server, AcceptFirst, ServeEnds, Peers, Send, Leave, Stall, Over, vars
  <2>4. CASE \E s \in Sides : Copier(s)
    BY <2>1, <2>4 DEF Copier, Take, Put, SourceEnds, WriteFails
  <2> QED
    BY <2>2, <2>3, <2>4 DEF Next
<1> QED
  BY <1>1, TunnelInvariant, PTL DEF Spec, NoUseAfterClose

(* A tunnel that has come to rest waits for a side that has not ended or   *)
(* does not read, and whatever else was sent by sides that are still there *)
(* has gone out.                                                           *)
THEOREM RestHoldsNothingBack == Spec => []NothingHeldBack
<1>1. TunnelInv => NothingHeldBack
  <2> SUFFICES ASSUME TunnelInv, AtRest PROVE
        /\ handler = "wait" =>
             /\ \E s \in Sides : end[s] = "open" \/ Blocked(s)
             /\ \A s \in Sides : Pending(s) => Blocked(s) \/ \E t \in Sides : Gone(t)
        /\ handler = "returned" /\ conn => server.serving = 1
    BY DEF NothingHeldBack
  <2>1. Shapes /\ Holds /\ Ended
    BY DEF TunnelInv
  <2>2. ASSUME handler = "wait"
        PROVE  \E s \in Sides : end[s] = "open" \/ Blocked(s)
    <3>1. PICK s \in Sides : copier[s] # "ended"
      BY <2>2 DEF AtRest
    <3>2. copier[s] \in {"copy", "write"}
      BY <2>1, <2>2, <3>1 DEF Shapes, Holds
    <3> QED
      BY <3>2 DEF AtRest
  <2>3. ASSUME handler = "wait", NEW s \in Sides, Pending(s)
        PROVE  Blocked(s) \/ \E t \in Sides : Gone(t)
    <3>1. copier[s] \in {"copy", "write", "ended"}
      BY <2>1, <2>3 DEF Shapes, Holds
    <3>2. copier[s] = "ended" \/ Blocked(s)
      BY <2>3, <3>1 DEF AtRest
    <3> QED
      BY <2>1, <2>3, <3>2 DEF Ended
  <2>4. ASSUME handler = "returned", conn
        PROVE  server.serving = 1
    BY <2>1, <2>4 DEF AtRest, Holds
  <2> QED
    BY <2>2, <2>3, <2>4
<1> QED
  BY <1>1, TunnelInvariant, PTL

-----------------------------------------------------------------------------
(***************************************************************************)
(* No connection lasts for ever over a bounded amount of data: StepsLeft   *)
(* is a natural number, and every step lowers one of its parts.            *)
(***************************************************************************)

(* All parts are natural numbers. *)
NaturalParts ==
  /\ HandlerLeft \in Nat /\ ServerLeft \in Nat
  /\ SideLeft("client") \in Nat /\ SideLeft("target") \in Nat

LEMMA PartTypes == TunnelInv => NaturalParts
<1> SUFFICES ASSUME TunnelInv PROVE NaturalParts
  OBVIOUS
<1>1. Shapes /\ Amounts
  BY DEF TunnelInv
<1>2. HandlerLeft \in Nat
  BY <1>1 DEF Shapes, HandlerLeft
<1>3. ServerLeft \in Nat
  <2>1. server.serving \in 0..1
    BY <1>1 DEF Shapes
  <2> QED
    BY <2>1 DEF ServerLeft
<1>4. ASSUME NEW s \in Sides PROVE SideLeft(s) \in Nat
  <2>1. sent[s] \in 0..MaxUnits /\ moved[s] \in 0..MaxUnits
    BY <1>1 DEF Amounts
  <2>2. MaxUnits - sent[s] \in Nat /\ MaxUnits - moved[s] \in Nat
    BY <2>1
  <2>3. 2 * (MaxUnits - moved[s]) \in Nat
    BY <2>2
  <2>4. CopierLeft(s) \in 0..2
    BY <1>1 DEF Shapes, CopierLeft
  <2> QED
    BY <2>2, <2>3, <2>4 DEF SideLeft
<1> QED
  BY <1>2, <1>3, <1>4 DEF NaturalParts

(* One part lower and none higher. *)
Lower ==
  \/ HandlerLeft' < HandlerLeft \/ ServerLeft' < ServerLeft
  \/ SideLeft("client")' < SideLeft("client") \/ SideLeft("target")' < SideLeft("target")

NoneHigher ==
  /\ HandlerLeft' <= HandlerLeft /\ ServerLeft' <= ServerLeft
  /\ SideLeft("client")' <= SideLeft("client") /\ SideLeft("target")' <= SideLeft("target")

LEMMA PartsFall ==
  ASSUME TunnelInv, TunnelInv', NoneHigher, Lower
  PROVE  StepsLeft' < StepsLeft /\ StepsLeft' >= 0
<1>1. NaturalParts /\ NaturalParts'
  BY PartTypes, PTL
<1>2. PICK a, b, c, d : a = HandlerLeft /\ b = ServerLeft /\ c = SideLeft("client") /\ d = SideLeft("target")
  OBVIOUS
<1>3. PICK a2, b2, c2, d2 : /\ a2 = HandlerLeft' /\ b2 = ServerLeft'
                           /\ c2 = SideLeft("client")' /\ d2 = SideLeft("target")'
  OBVIOUS
<1>4. a \in Nat /\ b \in Nat /\ c \in Nat /\ d \in Nat
  BY <1>1, <1>2, Zenon DEF NaturalParts
<1>5. a2 \in Nat /\ b2 \in Nat /\ c2 \in Nat /\ d2 \in Nat
  BY <1>1, <1>3, Zenon DEF NaturalParts
<1>6. a2 <= a /\ b2 <= b /\ c2 <= c /\ d2 <= d /\ (a2 < a \/ b2 < b \/ c2 < c \/ d2 < d)
  BY <1>2, <1>3, Zenon DEF NoneHigher, Lower
<1>7. a2 + b2 + c2 + d2 < a + b + c + d /\ a2 + b2 + c2 + d2 >= 0
  BY <1>4, <1>5, <1>6
<1>8. StepsLeft = a + b + c + d /\ StepsLeft' = a2 + b2 + c2 + d2
  BY <1>2, <1>3, Zenon DEF StepsLeft
<1> QED
  BY <1>7, <1>8, Zenon

(* What a step leaves alone keeps its part, and natural numbers are ordered. *)
LEMMA SameParts ==
  ASSUME TunnelInv, TunnelInv'
  PROVE  /\ handler' = handler => HandlerLeft' <= HandlerLeft
         /\ server' = server => ServerLeft' <= ServerLeft
         /\ HandlerLeft' < HandlerLeft => HandlerLeft' <= HandlerLeft
         /\ ServerLeft' < ServerLeft => ServerLeft' <= ServerLeft
         /\ \A s \in Sides : sent' = sent /\ moved' = moved /\ copier' = copier /\ end' = end
                               /\ stalled' = stalled
              => SideLeft(s)' <= SideLeft(s)
<1>1. NaturalParts /\ NaturalParts'
  BY PartTypes, PTL
<1>2. handler' = handler => HandlerLeft' = HandlerLeft
  BY DEF HandlerLeft
<1>3. server' = server => ServerLeft' = ServerLeft
  BY DEF ServerLeft
<1>4. \A s \in Sides : sent' = sent /\ moved' = moved /\ copier' = copier /\ end' = end
                               /\ stalled' = stalled
        => SideLeft(s)' = SideLeft(s)
  BY DEF SideLeft, CopierLeft
<1> QED
  BY <1>1, <1>2, <1>3, <1>4 DEF NaturalParts

(* handleConnection goes on to a later place. *)
LEMMA HandlerFalls ==
  ASSUME TunnelInv, TunnelInv', Handler
  PROVE  NoneHigher /\ Lower
<1>0. Shapes /\ Holds
  BY DEF TunnelInv
<1>1. HandlerLeft' < HandlerLeft
  <2>1. \/ handler = "read" /\ handler' \in {"reply", "dial", "returned"}
        \/ handler = "reply" /\ handler' \in {"shake", "dial", "returned"}
        \/ handler = "shake" /\ handler' \in {"cert", "returned"}
        \/ handler = "cert" /\ handler' \in {"shaken", "returned"}
        \/ handler \in {"shaken", "dial"} /\ handler' \in {"wait", "returned"}
        \/ handler = "wait" /\ handler' = "returned"
    BY DEF Handler, Shaking, CertDial, CertFetched, CertFails, ReadRequest, Reply, ReplyFails,
      BadRequest, Shake, ShakeFails, Dial,
      DialFails, Joined, Goes, CloseConn
  <2> QED
    BY <2>1 DEF HandlerLeft
<1>2. sent' = sent /\ moved' = moved /\ end' = end /\ stalled' = stalled
  BY DEF Handler, Shaking, CertDial, CertFetched, CertFails, ReadRequest, Reply, ReplyFails,
    BadRequest, Shake, ShakeFails, Dial,
    DialFails, Joined, Goes, CloseConn, data
<1>3. ServerLeft' <= ServerLeft
  <2>1. CASE Shake
    <3>1. server.accept = "off" /\ server.serving = 0
      BY <1>0, <2>1 DEF Shake, Shapes, Holds
    <3>2. server' = [server EXCEPT !.accept = "first"]
      BY <2>1 DEF Shake
    <3>3. server'.accept = "first" /\ server'.serving = 0
      BY <1>0, <3>1, <3>2 DEF Shapes
    <3> QED
      BY <3>1, <3>3 DEF ServerLeft
  <2>2. CASE ~Shake
    <3>1. server' = server
      BY <2>2 DEF Handler, Shaking, CertDial, CertFetched, CertFails, ReadRequest, Reply,
        ReplyFails, BadRequest, ShakeFails, Dial,
        DialFails, Joined, Goes, CloseConn
    <3> QED
      BY <3>1, SameParts
  <2> QED
    BY <2>1, <2>2
<1>4. SideLeft("client")' <= SideLeft("client") /\ SideLeft("target")' <= SideLeft("target")
  <2>1. CASE Dial
    <3>1. \A s \in Sides : copier[s] = "off" /\ copier'[s] = "copy"
      BY <1>0, <2>1 DEF Dial, Holds
    <3>2. \A s \in Sides : SideLeft(s)' = SideLeft(s)
      BY <1>2, <3>1 DEF SideLeft, CopierLeft
    <3> QED
      BY <3>2, PartTypes DEF NaturalParts
  <2>2. CASE ~Dial
    <3>1. copier' = copier
      BY <2>2 DEF Handler, Shaking, CertDial, CertFetched, CertFails, ReadRequest, Reply,
        ReplyFails, BadRequest, Shake, ShakeFails,
        DialFails, Joined, Goes, CloseConn
    <3> QED
      BY <1>2, <3>1, SameParts
  <2> QED
    BY <2>1, <2>2
<1> QED
  BY <1>1, <1>3, <1>4, SameParts DEF NoneHigher, Lower

(* A step of one direction alone. *)
LEMMA OneSideFalls ==
  ASSUME TunnelInv, TunnelInv', handler' = handler, server' = server,
         NEW s \in Sides, NEW o \in Sides, o # s,
         SideLeft(s)' < SideLeft(s), SideLeft(o)' = SideLeft(o)
  PROVE  NoneHigher /\ Lower
<1>1. NaturalParts /\ NaturalParts'
  BY PartTypes, PTL
<1>2. HandlerLeft' <= HandlerLeft /\ ServerLeft' <= ServerLeft
  BY SameParts
<1>3. CASE s = "client"
  <2>1. o = "target"
    BY <1>3
  <2>2. SideLeft("client")' < SideLeft("client") /\ SideLeft("target")' = SideLeft("target")
    BY <1>3, <2>1
  <2> QED
    BY <1>1, <1>2, <2>2 DEF NaturalParts, NoneHigher, Lower
<1>4. CASE s = "target"
  <2>1. o = "client"
    BY <1>4
  <2>2. SideLeft("target")' < SideLeft("target") /\ SideLeft("client")' = SideLeft("client")
    BY <1>4, <2>1
  <2> QED
    BY <1>1, <1>2, <2>2 DEF NaturalParts, NoneHigher, Lower
<1> QED
  BY <1>3, <1>4

(* A piece is moved or a copy ends, a piece is sent or a side leaves.      *)
LEMMA SideFalls ==
  ASSUME TunnelInv, TunnelInv', NEW s \in Sides, Copier(s) \/ Send(s) \/ Leave(s) \/ Stall(s)
  PROVE  NoneHigher /\ Lower
<1>0. Shapes /\ Amounts
  BY DEF TunnelInv
<1>1. handler' = handler /\ server' = server
  BY DEF Copier, Take, Put, SourceEnds, WriteFails, EndCopy, Send, Leave, Stall
<1>2. PICK o \in Sides : o = Other(s) /\ o # s
  OBVIOUS
<1>3. sent[s] \in Nat /\ moved[s] \in Nat /\ MaxUnits \in Nat
  BY <1>0 DEF Amounts
<1>4. CASE Put(s)
  <2>1. /\ moved' = [moved EXCEPT ![s] = @ + 1] /\ sent' = sent /\ end' = end /\ stalled' = stalled
        /\ copier[s] = "write" /\ copier' = [copier EXCEPT ![s] = "copy"]
    BY <1>4 DEF Put
  <2>2. /\ moved'[s] = moved[s] + 1 /\ moved'[o] = moved[o]
        /\ copier'[s] = "copy" /\ copier'[o] = copier[o]
    BY <1>0, <1>2, <2>1 DEF Amounts, Shapes
  <2>3. SideLeft(o)' = SideLeft(o)
    BY <2>1, <2>2 DEF SideLeft, CopierLeft
  <2>5. CopierLeft(s) = 1 /\ CopierLeft(s)' = 2
    BY <2>1, <2>2 DEF CopierLeft
  <2>4. SideLeft(s)' < SideLeft(s)
    BY <1>3, <2>1, <2>2, <2>5 DEF SideLeft
  <2> QED
    BY <1>1, <1>2, <2>3, <2>4, OneSideFalls
<1>5. CASE Take(s) \/ SourceEnds(s) \/ WriteFails(s)
  <2>1. sent' = sent /\ end' = end /\ moved' = moved /\ stalled' = stalled
    BY <1>5 DEF Take, SourceEnds, WriteFails, EndCopy, data
  <2>2. /\ copier'[o] = copier[o]
        /\ \/ copier[s] = "copy" /\ copier'[s] \in {"write", "ended"}
           \/ copier[s] = "write" /\ copier'[s] = "ended"
    BY <1>0, <1>2, <1>5 DEF Take, SourceEnds, WriteFails, EndCopy, Shapes
  <2>3. SideLeft(o)' = SideLeft(o)
    BY <2>1, <2>2 DEF SideLeft, CopierLeft
  <2>5. CopierLeft(s) \in 1..2 /\ CopierLeft(s)' \in 0..1 /\ CopierLeft(s)' < CopierLeft(s)
    BY <2>2 DEF CopierLeft
  <2>4. SideLeft(s)' < SideLeft(s)
    BY <1>3, <2>1, <2>5 DEF SideLeft
  <2> QED
    BY <1>1, <1>2, <2>3, <2>4, OneSideFalls
<1>8. CopierLeft(s) \in 0..2
  BY <1>0 DEF Shapes, CopierLeft
<1>6. CASE Send(s)
  <2>1. /\ sent' = [sent EXCEPT ![s] = @ + 1] /\ moved' = moved /\ end' = end /\ copier' = copier
        /\ stalled' = stalled
    BY <1>6 DEF Send
  <2>2. sent'[s] = sent[s] + 1 /\ sent'[o] = sent[o]
    BY <1>0, <1>2, <2>1 DEF Amounts
  <2>3. SideLeft(o)' = SideLeft(o) /\ CopierLeft(s)' = CopierLeft(s)
    BY <2>1, <2>2 DEF SideLeft, CopierLeft
  <2>4. SideLeft(s)' < SideLeft(s)
    BY <1>3, <1>8, <2>1, <2>2, <2>3 DEF SideLeft
  <2> QED
    BY <1>1, <1>2, <2>3, <2>4, OneSideFalls
<1>7. CASE Leave(s)
  <2>1. sent' = sent /\ moved' = moved /\ copier' = copier /\ stalled' = stalled
    BY <1>7 DEF Leave
  <2>2. /\ end'[o] = end[o]
        /\ \/ end[s] = "open" /\ end'[s] \in {"half", "gone"}
           \/ end[s] = "half" /\ end'[s] = "gone"
    BY <1>0, <1>2, <1>7 DEF Leave, Shapes
  <2>3. SideLeft(o)' = SideLeft(o) /\ CopierLeft(s)' = CopierLeft(s)
    BY <2>1, <2>2 DEF SideLeft, CopierLeft
  <2>4. SideLeft(s)' < SideLeft(s)
    BY <1>3, <1>8, <2>1, <2>2, <2>3 DEF SideLeft
  <2> QED
    BY <1>1, <1>2, <2>3, <2>4, OneSideFalls
<1>9. CASE Stall(s)
  <2>1. sent' = sent /\ moved' = moved /\ copier' = copier /\ end' = end
    BY <1>9 DEF Stall
  <2>2. s \notin stalled /\ s \in stalled' /\ (o \in stalled' <=> o \in stalled)
    BY <1>2, <1>9 DEF Stall
  <2>3. SideLeft(o)' = SideLeft(o) /\ CopierLeft(s)' = CopierLeft(s)
    BY <2>1, <2>2 DEF SideLeft, CopierLeft
  <2>4. SideLeft(s)' < SideLeft(s)
    BY <1>3, <1>8, <2>1, <2>2, <2>3 DEF SideLeft
  <2> QED
    BY <1>1, <1>2, <2>3, <2>4, OneSideFalls
<1> QED
  BY <1>4, <1>5, <1>6, <1>7, <1>9 DEF Copier

(* The HTTP server gets its connection once, and closes it once. *)
LEMMA ServerFalls ==
  ASSUME TunnelInv, TunnelInv', AcceptFirst \/ ServeEnds
  PROVE  NoneHigher /\ Lower
<1>0. Shapes /\ Holds
  BY DEF TunnelInv
<1>1. UNCHANGED <<handler, sent, moved, copier, end, stalled>>
  BY DEF AcceptFirst, ServeEnds, data
<1>2. server = [accept |-> server.accept, once |-> server.once, serving |-> server.serving]
  BY <1>0 DEF Shapes
<1>3. ServerLeft' < ServerLeft
  <2>1. CASE AcceptFirst
    <3>1. server.accept = "first" /\ server.serving = 0
      BY <1>0, <2>1 DEF AcceptFirst, Holds
    <3>2. server' = [server EXCEPT !.once = TRUE, !.serving = 1, !.accept = "second"]
      BY <2>1, <3>1 DEF AcceptFirst
    <3>3. server'.accept = "second" /\ server'.serving = 1
      BY <1>2, <3>2
    <3> QED
      BY <3>1, <3>3 DEF ServerLeft
  <2>2. CASE ServeEnds
    <3>1. server.serving = 1 /\ server.accept = "second"
      BY <1>0, <2>2 DEF ServeEnds, Shapes, Holds
    <3>2. server' = [server EXCEPT !.serving = 0]
      BY <2>2, <3>1 DEF ServeEnds
    <3>3. server'.accept = "second" /\ server'.serving = 0
      BY <1>2, <3>1, <3>2
    <3> QED
      BY <3>1, <3>3 DEF ServerLeft
  <2> QED
    BY <2>1, <2>2
<1> QED
  BY <1>1, <1>3, SameParts DEF NoneHigher, Lower

(* Whatever peers, policy and network do, a connection takes finitely many *)
(* steps: TunnelEnds can only fail where everybody waits, and what is      *)
(* waited for then is the subject of RestHoldsNothingBack.                 *)
THEOREM ConnectionAlwaysEnds == Spec => ConnectionEnds
<1>1. ASSUME TunnelInv, TunnelInv', [Next]_vars
      PROVE  [StepsLeft' < StepsLeft /\ StepsLeft' >= 0]_vars
  <2> SUFFICES ASSUME Next, ~UNCHANGED vars
               PROVE  StepsLeft' < StepsLeft /\ StepsLeft' >= 0
    BY <1>1
  <2>1. CASE Handler
    BY <1>1, <2>1, HandlerFalls, PartsFall
  <2>2. CASE (\E s \in Sides : Copier(s)) \/ Peers
    BY <1>1, <2>2, SideFalls, PartsFall DEF Peers
  <2>3. CASE Server \/ ServeEnds
    BY <1>1, <2>3, ServerFalls, PartsFall DEF Server
  <2> QED
    BY <2>1, <2>2, <2>3 DEF Next, Over
<1> QED
  BY <1>1, TunnelInvariant, PTL DEF Spec, ConnectionEnds

=============================================================================
