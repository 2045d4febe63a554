----------------------------- MODULE ProbeCache -----------------------------
(***************************************************************************)
(* How a request is answered: ProbeFile forwards it upstream, looks its    *)
(* URL up in two caches (sizes and status codes) and then passes the reply *)
(* on or hands the URL to the chunk engine. Handlers run concurrently; the *)
(* caches have no lock in common, are saved one after the other when main  *)
(* returns, while handlers still run, and are loaded at the next start.    *)
(***************************************************************************)
EXTENDS Integers

CONSTANTS
  Handlers,    \* connections of clients, each with one request at a time
  URLs,
  Resources,   \* what a URL may name
  Ranged,      \* may requests ask for a range? {FALSE}, {TRUE} or both
  ExceedSize,  \* size from which the chunk engine is used
  MayCrash,    \* may the process be killed?
  MaxRestarts  \* bound of the model: starts of the process after the first

(* total: its bytes; ranges: the server honours Range; small: the URL ends *)
(* in one of smallExtensions; missing: every reply is an error status.     *)
ASSUME CacheAssumption ==
  /\ URLs # {}
  /\ Resources \subseteq [total : Nat \ {0}, ranges : BOOLEAN,
                           small : BOOLEAN, missing : BOOLEAN]
  /\ Ranged \subseteq BOOLEAN /\ ExceedSize \in Nat \ {0}
  /\ MayCrash \in BOOLEAN /\ MaxRestarts \in Nat

VARIABLES
  resource,           \* what each URL names
  sizes, codes,       \* GloFileSizeCache, GloCodeCache
  sizeFile, codeFile, \* URIFileSize.json, URICode.json
  server,    \* "up", then "codesSaved", "sizesSaved" and "down"
  restarts,
  pc,        \* each handler's place
  request,   \* and the request it serves
  reply,     \* the upstream's reply
  seen,      \* what URLCheck returned
  answer     \* what the client was last given

caches == <<sizes, codes>>
files == <<sizeFile, codeFile>>
process == <<resource, files, server, restarts>>
handlers == <<pc, request, reply, seen, answer>>
vars == <<caches, process, handlers>>

Absent == -3
NoRecords == [u \in URLs |-> Absent]

Seen(found, size, code) == [found |-> found, size |-> size, code |-> code]

SomeURL == CHOOSE u \in URLs : TRUE
NoRequest == [url |-> SomeURL, ranged |-> FALSE]
NoAnswer == [kind |-> "none", url |-> SomeURL, size |-> 0]

(* Replies of an upstream: a status, its length and its Content-Range, -1  *)
(* and NoRange where the header is missing.                                *)
Reply(status, length, acceptRanges, range) ==
  [status |-> status, length |-> length, acceptRanges |-> acceptRanges, range |-> range]

NoRange == [first |-> -1, last |-> -1, total |-> -1]
NoReply == Reply(0, -1, FALSE, NoRange)

Init ==
  /\ resource \in [URLs -> Resources]
  /\ sizes = NoRecords /\ codes = NoRecords
  /\ sizeFile = NoRecords /\ codeFile = NoRecords
  /\ server = "up" /\ restarts = 0
  /\ pc = [h \in Handlers |-> "idle"]
  /\ request = [h \in Handlers |-> NoRequest]
  /\ reply = [h \in Handlers |-> NoReply]
  /\ seen = [h \in Handlers |-> Seen(FALSE, 0, 0)]
  /\ answer = [h \in Handlers |-> NoAnswer]

-----------------------------------------------------------------------------
(* A range of 1 byte, of a resource whose total the server may not tell; a *)
(* reply to several ranges has its Content-Range in the body.              *)
Partial(r) ==
  {Reply(206, 1, TRUE, [first |-> 0, last |-> 0, total |-> t]) : t \in {r.total, -1}}
  \cup {Reply(206, -1, TRUE, NoRange)}

Full(r) == {Reply(200, len, r.ranges, NoRange) : len \in {r.total, -1}}

Failure == {Reply(404, 1, FALSE, NoRange), Reply(416, -1, TRUE, NoRange)}

Replies(req) ==
  LET r == resource[req.url]
  IN  IF r.missing THEN Failure
      ELSE Failure \cup (IF req.ranged /\ r.ranges THEN Partial(r) ELSE Full(r))

(* Mutant of ParseContentRange: the results in the order of their names. *)
ParseContentRangeNamed(cr) ==
  IF cr = NoRange
  THEN [partSize |-> -1, totalSize |-> -1, ok |-> FALSE]
  ELSE [partSize |-> (cr.last - cr.first) + 1, totalSize |-> cr.total, ok |-> TRUE]

(* parseContentRangeTotal returns the total in the result called partSize. *)
ParseContentRange(cr) ==
  IF cr = NoRange
  THEN [partSize |-> -1, totalSize |-> -1, ok |-> FALSE]
  ELSE [partSize |-> cr.total, totalSize |-> (cr.last - cr.first) + 1, ok |-> TRUE]

Deal(chunks, size, code, ok) == [chunks |-> chunks, size |-> size, code |-> code, ok |-> ok]

(* Mutant of RespDeal: an unknown status is not an error. *)
RespDealLenient(resp) ==
  LET cr == ParseContentRange(resp.range)
  IN  CASE resp.status = 206 -> Deal(FALSE, cr.partSize, 206, cr.ok)
        [] resp.status = 416 -> Deal(FALSE, cr.totalSize, 0, FALSE)
        [] resp.status = 200 ->
             Deal(resp.length >= ExceedSize /\ resp.acceptRanges, resp.length, 200, TRUE)
        [] OTHER -> Deal(FALSE, -1, -1, TRUE)

RespDeal(resp) ==
  LET cr == ParseContentRange(resp.range)
  IN  CASE resp.status = 206 /\ cr.ok -> Deal(FALSE, cr.partSize, 206, TRUE)
        [] resp.status = 206 /\ ~cr.ok -> Deal(FALSE, -1, -1, FALSE)
        [] resp.status = 416 -> Deal(FALSE, cr.totalSize, 0, FALSE)
        [] resp.status = 200 ->
             Deal(resp.length >= ExceedSize /\ resp.acceptRanges, resp.length, 200, TRUE)
        [] OTHER -> Deal(FALSE, -1, -1, FALSE)

-----------------------------------------------------------------------------
(* ProbeFile *)

Running == server # "down"
At(h, place) == Running /\ pc[h] = place
GoTo(h, place) == pc' = [pc EXCEPT ![h] = place]

(* The handler returns; kind is what the client got of it: "pass" the      *)
(* upstream's reply, "cut" a part of that, "stream" the chunk engine's     *)
(* output, "empty" the 200 without a body that net/http writes when the    *)
(* handler wrote nothing, "closed" only the end of the connection.         *)
Return(h, kind, size) ==
  /\ GoTo(h, "idle")
  /\ answer' = [answer EXCEPT ![h] = [kind |-> kind, url |-> request[h].url, size |-> size]]
  /\ request' = [request EXCEPT ![h] = NoRequest]
  /\ reply' = [reply EXCEPT ![h] = NoReply]
  /\ seen' = [seen EXCEPT ![h] = Seen(FALSE, 0, 0)]

Request(h) ==
  /\ At(h, "idle")
  /\ \E u \in URLs, ranged \in Ranged :
       request' = [request EXCEPT ![h] = [url |-> u, ranged |-> ranged]]
  /\ GoTo(h, "probe")
  /\ answer' = [answer EXCEPT ![h] = NoAnswer]
  /\ UNCHANGED <<caches, process, reply, seen>>

(* No network card to use, or client.Do fails. *)
ProbeFails(h) ==
  /\ At(h, "probe")
  /\ Return(h, "empty", 0)
  /\ UNCHANGED <<caches, process>>

ProbeReply(h) ==
  /\ At(h, "probe")
  /\ \E r \in Replies(request[h]) : reply' = [reply EXCEPT ![h] = r]
  /\ GoTo(h, "loadSize")
  /\ UNCHANGED <<caches, process, request, seen, answer>>

(* URLCheck loads from two maps, one after the other; a code that is not   *)
(* there is read as 0. A URL without a size is classified by its ending.   *)
LoadSize(h) ==
  LET u == request[h].url
  IN  /\ At(h, "loadSize")
      /\ IF sizes[u] # Absent
         THEN seen' = [seen EXCEPT ![h] = Seen(TRUE, sizes[u], 0)] /\ GoTo(h, "loadCode")
         ELSE /\ seen' = [seen EXCEPT ![h] = IF resource[u].small THEN Seen(FALSE, 0, 200)
                                             ELSE Seen(FALSE, -2, -2)]
              /\ GoTo(h, "decide")
      /\ UNCHANGED <<caches, process, request, reply, answer>>

LoadCode(h) ==
  LET code == codes[request[h].url]
  IN  /\ At(h, "loadCode")
      /\ seen' = [seen EXCEPT ![h].code = IF code = Absent THEN 0 ELSE code]
      /\ GoTo(h, "decide")
      /\ UNCHANGED <<caches, process, request, reply, answer>>

(* chunksProbe with a bag of this size and code. A 200 is hijacked and     *)
(* streamed; if Hijack fails on a client that has left, conn is nil and    *)
(* conn.Close panics in the handler, which net/http recovers.              *)
ChunksProbe(h, size, code) ==
  \/ code = 200 /\ Return(h, "stream", size)
  \/ code = 200 /\ Return(h, "closed", 0)
  \/ code # 200 /\ Return(h, "empty", 0)

(* The reply is copied to the client, unless either side or one of the     *)
(* 30 s limits of probeClient and the server ends the copy.                *)
PassOn(h) == Return(h, "pass", 0) \/ Return(h, "cut", 0)

(* Mutant of UseEngine: every recorded size will do. *)
UseEngineAlways(h) ==
  /\ At(h, "decide")
  /\ seen[h].found
  /\ ChunksProbe(h, seen[h].size, seen[h].code)
  /\ UNCHANGED <<caches, process>>

UseEngine(h) ==
  /\ At(h, "decide")
  /\ seen[h].size >= ExceedSize
  /\ ChunksProbe(h, seen[h].size, seen[h].code)
  /\ UNCHANGED <<caches, process>>

(* The URL was neither recorded nor small: its record comes from the reply.*)
Miss(h) == seen[h].size = -2 /\ RespDeal(reply[h]).ok
RecordSmall(h) == seen[h].size = 0 /\ seen[h].code = 200 /\ ~seen[h].found

(* What URLSave is called with. *)
Record(h) ==
  IF seen[h].size = -2
  THEN [size |-> RespDeal(reply[h]).size, code |-> RespDeal(reply[h]).code]
  ELSE [size |-> 0, code |-> 200]

SaveSize(h) ==
  /\ At(h, "decide")
  /\ Miss(h) \/ RecordSmall(h)
  /\ sizes' = [sizes EXCEPT ![request[h].url] = Record(h).size]
  /\ GoTo(h, "saveCode")
  /\ UNCHANGED <<codes, process, request, reply, seen, answer>>

(* Mutant of SaveCode: the second store of URLSave is missing. *)
SaveCodeNot(h) ==
  /\ At(h, "saveCode")
  /\ GoTo(h, "saved")
  /\ UNCHANGED <<caches, process, request, reply, seen, answer>>

SaveCode(h) ==
  /\ At(h, "saveCode")
  /\ codes' = [codes EXCEPT ![request[h].url] = Record(h).code]
  /\ GoTo(h, "saved")
  /\ UNCHANGED <<sizes, process, request, reply, seen, answer>>

AfterSave(h) ==
  /\ At(h, "saved")
  /\ IF Miss(h) /\ RespDeal(reply[h]).chunks
     THEN ChunksProbe(h, Record(h).size, Record(h).code)
     ELSE PassOn(h)
  /\ UNCHANGED <<caches, process>>

(* Everything else is passed on as it came. *)
Pass(h) ==
  /\ At(h, "decide")
  /\ seen[h].size < ExceedSize /\ ~Miss(h) /\ ~RecordSmall(h)
  /\ PassOn(h)
  /\ UNCHANGED <<caches, process>>

-----------------------------------------------------------------------------
(* The process. URLSaveLocal runs when main returns, the codes first;      *)
(* connections are still served until the process ends.                    *)

SaveCodesLocal ==
  /\ server = "up"
  /\ codeFile' = codes
  /\ server' = "codesSaved"
  /\ UNCHANGED <<resource, caches, sizeFile, restarts, handlers>>

SaveSizesLocal ==
  /\ server = "codesSaved"
  /\ sizeFile' = sizes
  /\ server' = "sizesSaved"
  /\ UNCHANGED <<resource, caches, codeFile, restarts, handlers>>

(* The handlers vanish with their process. *)
Vanish ==
  /\ server' = "down"
  /\ pc' = [h \in Handlers |-> "idle"]
  /\ request' = [h \in Handlers |-> NoRequest]
  /\ reply' = [h \in Handlers |-> NoReply]
  /\ seen' = [h \in Handlers |-> Seen(FALSE, 0, 0)]
  /\ answer' = [h \in Handlers |-> NoAnswer]

Exit ==
  /\ server = "sizesSaved"
  /\ Vanish
  /\ UNCHANGED <<resource, caches, files, restarts>>

(* Killed, perhaps while it wrote a file: WriteFile truncates first, and   *)
(* what does not parse is loaded as no records.                            *)
Crash ==
  /\ MayCrash /\ Running
  /\ Vanish
  /\ codeFile' \in {codeFile} \cup (IF server = "codesSaved" THEN {NoRecords} ELSE {})
  /\ sizeFile' \in {sizeFile} \cup (IF server = "sizesSaved" THEN {NoRecords} ELSE {})
  /\ UNCHANGED <<resource, caches, restarts>>

(* URLLoad: both caches are filled before the first connection. *)
Restart ==
  /\ server = "down" /\ restarts < MaxRestarts
  /\ server' = "up"
  /\ restarts' = restarts + 1
  /\ sizes' = sizeFile /\ codes' = codeFile
  /\ UNCHANGED <<resource, files, handlers>>

Handle(h) ==
  \/ Request(h) \/ ProbeFails(h) \/ ProbeReply(h) \/ LoadSize(h) \/ LoadCode(h)
  \/ UseEngine(h) \/ SaveSize(h) \/ SaveCode(h) \/ AfterSave(h) \/ Pass(h)

Terminated == server = "down" /\ restarts = MaxRestarts /\ UNCHANGED vars

Next ==
  \/ \E h \in Handlers : Handle(h)
  \/ SaveCodesLocal \/ SaveSizesLocal \/ Exit \/ Crash \/ Restart
  \/ Terminated

Spec == Init /\ [][Next]_vars

-----------------------------------------------------------------------------
Sizes == {r.total : r \in Resources} \cup {0, -1}
Codes == {200, 206}
Reports == Failure \cup UNION {Partial(r) \cup Full(r) : r \in Resources}

CacheTypes ==
  /\ resource \in [URLs -> Resources]
  /\ sizes \in [URLs -> Sizes \cup {Absent}] /\ sizeFile \in [URLs -> Sizes \cup {Absent}]
  /\ codes \in [URLs -> Codes \cup {Absent}] /\ codeFile \in [URLs -> Codes \cup {Absent}]

HandlerTypes ==
  /\ pc \in [Handlers -> {"idle", "probe", "loadSize", "loadCode", "decide",
                          "saveCode", "saved"}]
  /\ request \in [Handlers -> [url : URLs, ranged : BOOLEAN]]
  /\ reply \in [Handlers -> Reports \cup {NoReply}]
  /\ seen \in [Handlers -> [found : BOOLEAN, size : Sizes \cup {-2},
                            code : Codes \cup {0, -2}]]
  /\ answer \in [Handlers -> [kind : {"none", "pass", "cut", "stream", "empty", "closed"},
                              url : URLs, size : Sizes]]

(* Types of the caches, their files and the handlers. Only the codes of    *)
(* successful replies are ever recorded.                                   *)
TypeOK ==
  /\ CacheTypes /\ HandlerTypes
  /\ server \in {"up", "codesSaved", "sizesSaved", "down"}
  /\ restarts \in 0..MaxRestarts

(* Whatever part of it clients asked for, whichever handlers raced to      *)
(* record it and however often the process was restarted or killed: the    *)
(* positive size recorded for a URL is that of the whole resource, not of  *)
(* a range of it (RespDeal.go:14-18).                                      *)
SizeIsTotal ==
  \A u \in URLs :
    /\ sizes[u] > 0 => sizes[u] = resource[u].total
    /\ sizeFile[u] > 0 => sizeFile[u] = resource[u].total

(* The engine cuts what it was told is the file's size: it only ever gets  *)
(* a file of at least ExceedSize, with its true size, from the reply or    *)
(* from a record (HTTPDeal.go:197-218).                                    *)
EngineGetsLargeFile ==
  \A h \in Handlers :
    answer[h].kind = "stream" =>
      /\ answer[h].size = resource[answer[h].url].total
      /\ answer[h].size >= ExceedSize

(* A URL that only ever failed leaves no record behind that would answer   *)
(* for it once it is there (RespDeal.go:45-46, HTTPDeal.go:209).           *)
FailureLeavesNoRecord ==
  \A u \in URLs :
    resource[u].missing /\ ~resource[u].small =>
      sizes[u] = Absent /\ codes[u] = Absent /\ sizeFile[u] = Absent /\ codeFile[u] = Absent

(* Between requests, of a process that was never restarted, a recorded     *)
(* size has its code: without it a large file is answered by nothing.      *)
SizeHasCode ==
  (server = "up" /\ restarts = 0 /\ \A h \in Handlers : pc[h] = "idle") =>
    \A u \in URLs : sizes[u] # Absent => codes[u] # Absent

(* A large file whose upstream answers is never answered by an empty       *)
(* success ("large files trigger the split-chunking engine", README.md:26).*)
LargeFileServed ==
  [][\A h \in Handlers :
       answer'[h].kind = "empty" /\ pc[h] = "decide" =>
         resource[request[h].url].total < ExceedSize]_vars

=============================================================================
