-------------------------- MODULE ProbeCacheProofs --------------------------
(* Proofs about ProbeCache, for any handlers, URLs and resources, any      *)
(* threshold and any number of stops, kills and restarts.                  *)
EXTENDS ProbeCache, TLAPS

(* A handler behind the probe holds a reply to its own request. *)
ReplyFits ==
  \A h \in Handlers :
    pc[h] \notin {"idle", "probe"} => reply[h] \in Replies(request[h])

(* A size a handler was told of is the true one; a URL taken for small is. *)
SeenTrue ==
  \A h \in Handlers :
    /\ seen[h].size > 0 => seen[h].size = resource[request[h].url].total
    /\ RecordSmall(h) => resource[request[h].url].small

(* Nothing is seen before the lookup, and a code is only loaded behind a    *)
(* size that was found.                                                    *)
Looked ==
  \A h \in Handlers :
    /\ pc[h] \in {"idle", "probe", "loadSize"} => seen[h] = Seen(FALSE, 0, 0)
    /\ pc[h] = "loadCode" => seen[h].found

(* Between its two stores a handler still has something to record. *)
Recording ==
  \A h \in Handlers : pc[h] \in {"saveCode", "saved"} => Miss(h) \/ RecordSmall(h)

(* In the first process a size without a code has its second store coming. *)
CodePending ==
  Running /\ restarts = 0 =>
    \A u \in URLs :
      sizes[u] # Absent =>
        \/ codes[u] # Absent
        \/ \E h \in Handlers : pc[h] = "saveCode" /\ request[h].url = u

CacheInv ==
  /\ TypeOK /\ ReplyFits /\ Looked /\ SeenTrue /\ Recording /\ CodePending
  /\ SizeIsTotal /\ EngineGetsLargeFile /\ FailureLeavesNoRecord

USE DEF caches, files, process, handlers, vars

-----------------------------------------------------------------------------
(* Sizes are totals and two small integers. *)
LEMMA SizesAreIntegers == Sizes \subseteq Int
<1>1. \A r \in Resources : r.total \in Int
  BY CacheAssumption
<1> QED
  BY <1>1 DEF Sizes

(* What RespDeal makes of a reply it accepts: the whole resource's size or *)
(* none, a code of success, and the engine only for a large file.          *)
LEMMA AcceptedReply ==
  ASSUME TypeOK, NEW req \in [url : URLs, ranged : BOOLEAN], NEW r \in Replies(req),
         RespDeal(r).ok
  PROVE  /\ ~resource[req.url].missing
         /\ RespDeal(r).size \in {resource[req.url].total, -1}
         /\ RespDeal(r).code \in Codes
         /\ RespDeal(r).chunks => RespDeal(r).size >= ExceedSize /\ RespDeal(r).code = 200
<1> DEFINE res == resource[req.url]
<1>1. /\ res.total \in Nat \ {0} /\ res.ranges \in BOOLEAN /\ res.missing \in BOOLEAN
  BY CacheAssumption DEF TypeOK, CacheTypes
<1>2. r \notin Failure
  BY DEF Failure, Reply, RespDeal, Deal
<1>3. ~res.missing /\ r \in Partial(res) \cup Full(res)
  BY <1>2 DEF Replies
<1> HIDE DEF res
<1>4. CASE r \in Partial(res)
  <2>1. PICK t \in {res.total, -1} :
          r = Reply(206, 1, TRUE, [first |-> 0, last |-> 0, total |-> t])
    BY <1>4 DEF Partial, RespDeal, Reply, ParseContentRange, NoRange, Deal
  <2>2. r.status = 206 /\ r.range = [first |-> 0, last |-> 0, total |-> t]
    BY <2>1 DEF Reply
  <2>3. ParseContentRange(r.range) = [partSize |-> t, totalSize |-> 1, ok |-> TRUE]
    BY <2>2 DEF ParseContentRange, NoRange
  <2>4. ParseContentRange(r.range).ok = TRUE /\ ParseContentRange(r.range).partSize = t
    BY <2>3
  <2> DEFINE d == RespDeal(r)
  <2>5. d.size = t /\ d.code = 206
    BY <2>2, <2>4 DEF RespDeal, Deal
  <2>6. ~d.chunks
    BY <2>2, <2>4 DEF RespDeal, Deal
  <2> QED
    BY <1>3, <2>5, <2>6 DEF Codes, res
<1>5. CASE r \in Full(res)
  <2>1. PICK len \in {res.total, -1} : r = Reply(200, len, res.ranges, NoRange)
    BY <1>5 DEF Full
  <2>2. r.status = 200 /\ r.length = len /\ r.acceptRanges = res.ranges
    BY <2>1 DEF Reply
  <2> DEFINE d == RespDeal(r)
  <2>3. d.size = len /\ d.code = 200
    BY <2>2 DEF RespDeal, Deal
  <2>4. d.chunks => len >= ExceedSize
    BY <2>2 DEF RespDeal, Deal
  <2> QED
    BY <1>3, <2>3, <2>4 DEF Codes, res
<1> QED
  BY <1>3, <1>4, <1>5

(* What a handler with something to record records. *)
LEMMA RecordFacts ==
  ASSUME CacheInv, NEW h \in Handlers, pc[h] \in {"decide", "saveCode", "saved"},
         Miss(h) \/ RecordSmall(h)
  PROVE  /\ Record(h).size \in Sizes /\ Record(h).code \in Codes
         /\ Record(h).size > 0 => Record(h).size = resource[request[h].url].total
         /\ ~resource[request[h].url].missing \/ resource[request[h].url].small
         /\ Miss(h) /\ RespDeal(reply[h]).chunks =>
              Record(h).size >= ExceedSize /\ Record(h).code = 200
<1> DEFINE res == resource[request[h].url]
<1>1. /\ request[h] \in [url : URLs, ranged : BOOLEAN]
      /\ res \in Resources /\ res.total \in Sizes
      /\ -1 \in Sizes /\ 0 \in Sizes /\ 200 \in Codes
  BY DEF CacheInv, TypeOK, CacheTypes, HandlerTypes, Sizes, Codes
<1>2. reply[h] \in Replies(request[h])
  BY DEF CacheInv, ReplyFits
<1>3. CASE Miss(h)
  <2>1. /\ ~res.missing
        /\ RespDeal(reply[h]).size \in {res.total, -1}
        /\ RespDeal(reply[h]).code \in Codes
        /\ RespDeal(reply[h]).chunks =>
             RespDeal(reply[h]).size >= ExceedSize /\ RespDeal(reply[h]).code = 200
    BY <1>1, <1>2, <1>3, AcceptedReply DEF CacheInv, Miss
  <2>2. Record(h).size = RespDeal(reply[h]).size /\ Record(h).code = RespDeal(reply[h]).code
    BY <1>3 DEF Miss, Record
  <2>3. Record(h).size \in Sizes
    BY <1>1, <2>1, <2>2
  <2>4. Record(h).size > 0 => Record(h).size = res.total
    BY <2>1, <2>2
  <2> QED
    BY <2>1, <2>2, <2>3, <2>4
<1>4. CASE RecordSmall(h)
  <2>1. res.small /\ seen[h].size = 0
    BY <1>4 DEF CacheInv, SeenTrue, RecordSmall
  <2>2. Record(h).size = 0 /\ Record(h).code = 200 /\ ~Miss(h)
    BY <2>1 DEF Record, Miss
  <2> QED
    BY <1>1, <2>1, <2>2
<1> QED
  BY <1>3, <1>4

(* What there is to record follows from what was seen and replied. *)
LEMMA SameRecord ==
  ASSUME NEW g \in Handlers, seen'[g] = seen[g], reply'[g] = reply[g]
  PROVE  (RecordSmall(g)' <=> RecordSmall(g)) /\ (Miss(g)' <=> Miss(g))
  BY Zenon DEF RecordSmall, Miss

(* Nobody has asked for anything yet. *)
LEMMA CacheInit == Init => CacheInv
<1> SUFFICES ASSUME Init PROVE CacheInv
  OBVIOUS
<1>1. NoRecords \in [URLs -> Sizes \cup {Absent}] /\ NoRecords \in [URLs -> Codes \cup {Absent}]
  BY DEF NoRecords
<1>2. SomeURL \in URLs /\ 0 \in Sizes
  BY CacheAssumption DEF SomeURL, Sizes
<1>3. HandlerTypes
  BY <1>2 DEF Init, HandlerTypes, NoRequest, Seen, NoAnswer
<1>4. TypeOK
  BY CacheAssumption, <1>1, <1>3 DEF Init, TypeOK, CacheTypes
<1>5. SizeIsTotal /\ CodePending /\ FailureLeavesNoRecord
  BY DEF Init, SizeIsTotal, CodePending, FailureLeavesNoRecord, NoRecords, Absent
<1>6. ReplyFits /\ Looked /\ SeenTrue /\ Recording /\ EngineGetsLargeFile
  BY DEF Init, ReplyFits, Looked, SeenTrue, Recording, EngineGetsLargeFile, RecordSmall, Seen, NoAnswer
<1> QED
  BY <1>4, <1>5, <1>6 DEF CacheInv

(* A handler that returns: what its client got is what the engine was      *)
(* given, and nothing of its request is left.                              *)
LEMMA ReturnStep ==
  ASSUME CacheInv, NEW h \in Handlers, pc[h] # "saveCode",
         NEW kind \in {"pass", "cut", "stream", "empty", "closed"}, NEW size \in Sizes,
         Return(h, kind, size), UNCHANGED <<caches, process>>,
         kind = "stream" => size = resource[request[h].url].total /\ size >= ExceedSize
  PROVE  CacheInv'
<1>1. SomeURL \in URLs /\ 0 \in Sizes /\ request[h].url \in URLs
  BY CacheAssumption DEF SomeURL, Sizes, CacheInv, TypeOK, HandlerTypes
<1>2. HandlerTypes'
  <2>1. pc' \in [Handlers -> {"idle", "probe", "loadSize", "loadCode", "decide",
                              "saveCode", "saved"}]
    BY DEF Return, GoTo, CacheInv, TypeOK, HandlerTypes
  <2>2. request' \in [Handlers -> [url : URLs, ranged : BOOLEAN]]
    BY <1>1 DEF Return, CacheInv, TypeOK, HandlerTypes, NoRequest
  <2>3. reply' \in [Handlers -> Reports \cup {NoReply}]
    BY DEF Return, CacheInv, TypeOK, HandlerTypes
  <2>4. seen' \in [Handlers -> [found : BOOLEAN, size : Sizes \cup {-2},
                                code : Codes \cup {0, -2}]]
    BY <1>1 DEF Return, CacheInv, TypeOK, HandlerTypes, Seen
  <2>5. answer' \in [Handlers -> [kind : {"none", "pass", "cut", "stream", "empty", "closed"},
                                  url : URLs, size : Sizes]]
    BY <1>1 DEF Return, CacheInv, TypeOK, HandlerTypes
  <2> QED
    BY <2>1, <2>2, <2>3, <2>4, <2>5 DEF HandlerTypes
<1>3. TypeOK'
  BY <1>2 DEF CacheInv, TypeOK, CacheTypes
<1>4. SizeIsTotal' /\ FailureLeavesNoRecord'
  BY DEF CacheInv, SizeIsTotal, FailureLeavesNoRecord
<1>5. \A g \in Handlers : g # h => /\ pc'[g] = pc[g] /\ request'[g] = request[g]
                                   /\ reply'[g] = reply[g] /\ seen'[g] = seen[g]
                                   /\ answer'[g] = answer[g]
  BY DEF Return, GoTo, CacheInv, TypeOK, HandlerTypes
<1>6. /\ pc'[h] = "idle" /\ seen'[h] = Seen(FALSE, 0, 0)
      /\ answer'[h] = [kind |-> kind, url |-> request[h].url, size |-> size]
  BY DEF Return, GoTo, CacheInv, TypeOK, HandlerTypes
<1>7. ReplyFits'
  BY <1>5, <1>6 DEF CacheInv, ReplyFits, Replies
<1>8. SeenTrue' /\ Looked'
  BY <1>5, <1>6 DEF CacheInv, SeenTrue, Looked, RecordSmall, Seen
<1>9. Recording'
  BY <1>5, <1>6 DEF CacheInv, Recording, RecordSmall, Miss
<1>10. EngineGetsLargeFile'
  BY <1>5, <1>6 DEF CacheInv, EngineGetsLargeFile
<1>11. CodePending'
  BY <1>5 DEF CacheInv, CodePending, Running
<1> QED
  BY <1>3, <1>4, <1>7, <1>8, <1>9, <1>10, <1>11 DEF CacheInv

(* Nothing is recorded and no answer is given by this step. *)
LEMMA QuietStep ==
  ASSUME CacheInv, UNCHANGED <<caches, process, answer>>, NEW h \in Handlers,
         pc[h] # "saveCode",
         \A g \in Handlers : g # h => pc'[g] = pc[g] /\ request'[g] = request[g],
         HandlerTypes', ReplyFits', Looked', SeenTrue', Recording'
  PROVE  CacheInv'
<1>1. TypeOK'
  BY DEF CacheInv, TypeOK, CacheTypes
<1>2. SizeIsTotal' /\ FailureLeavesNoRecord' /\ EngineGetsLargeFile'
  BY DEF CacheInv, SizeIsTotal, FailureLeavesNoRecord, EngineGetsLargeFile
<1>3. CodePending'
  BY DEF CacheInv, CodePending, Running
<1> QED
  BY <1>1, <1>2, <1>3 DEF CacheInv

(* A new request finds its handler without a reply. *)
LEMMA RequestStep ==
  ASSUME CacheInv, NEW h \in Handlers, Request(h)
  PROVE  CacheInv'
<1>1. PICK u \in URLs, ranged \in Ranged :
        request' = [request EXCEPT ![h] = [url |-> u, ranged |-> ranged]]
  BY DEF Request
<1>2. /\ pc[h] = "idle" /\ pc' = [pc EXCEPT ![h] = "probe"]
      /\ answer' = [answer EXCEPT ![h] = NoAnswer]
      /\ UNCHANGED <<caches, process, reply, seen>>
  BY DEF Request, At, GoTo
<1>3. SomeURL \in URLs /\ 0 \in Sizes /\ ranged \in BOOLEAN
  BY CacheAssumption DEF SomeURL, Sizes
<1>4. HandlerTypes'
  BY <1>1, <1>2, <1>3 DEF CacheInv, TypeOK, HandlerTypes, NoAnswer
<1>5. \A g \in Handlers : g # h => /\ pc'[g] = pc[g] /\ request'[g] = request[g]
                                   /\ answer'[g] = answer[g]
  BY <1>1, <1>2 DEF CacheInv, TypeOK, HandlerTypes
<1>6. pc'[h] = "probe" /\ answer'[h].kind = "none"
  BY <1>2 DEF CacheInv, TypeOK, HandlerTypes, NoAnswer
<1>7. seen[h].size = 0 /\ ~RecordSmall(h)
  BY <1>2 DEF CacheInv, Looked, RecordSmall, Seen
<1>8. ReplyFits'
  BY <1>2, <1>5, <1>6 DEF CacheInv, ReplyFits, Replies
<1>9. \A g \in Handlers : (RecordSmall(g)' <=> RecordSmall(g)) /\ (Miss(g)' <=> Miss(g))
  BY <1>2, SameRecord
<1>10. SeenTrue' /\ Looked' /\ Recording'
  <2>1. SeenTrue'
    BY <1>2, <1>5, <1>7, <1>9 DEF CacheInv, SeenTrue
  <2>2. Looked' /\ Recording'
    BY <1>2, <1>5, <1>6, <1>9 DEF CacheInv, Looked, Recording
  <2> QED
    BY <2>1, <2>2
<1>11. TypeOK' /\ SizeIsTotal' /\ FailureLeavesNoRecord'
  BY <1>2, <1>4 DEF CacheInv, TypeOK, CacheTypes, SizeIsTotal, FailureLeavesNoRecord
<1>12. EngineGetsLargeFile'
  BY <1>2, <1>5, <1>6 DEF CacheInv, EngineGetsLargeFile
<1>13. CodePending'
  BY <1>2, <1>5 DEF CacheInv, CodePending, Running
<1> QED
  BY <1>8, <1>10, <1>11, <1>12, <1>13 DEF CacheInv

(* The upstream's reply is one to this request. *)
LEMMA ProbeReplyStep ==
  ASSUME CacheInv, NEW h \in Handlers, ProbeReply(h)
  PROVE  CacheInv'
<1>1. PICK r \in Replies(request[h]) : reply' = [reply EXCEPT ![h] = r]
  BY DEF ProbeReply
<1>2. /\ pc[h] = "probe" /\ pc' = [pc EXCEPT ![h] = "loadSize"]
      /\ UNCHANGED <<caches, process, request, seen, answer>>
  BY DEF ProbeReply, At, GoTo
<1>3. r \in Reports
  BY DEF CacheInv, TypeOK, CacheTypes, HandlerTypes, Replies, Reports
<1>4. HandlerTypes'
  BY <1>1, <1>2, <1>3 DEF CacheInv, TypeOK, HandlerTypes
<1>5. \A g \in Handlers : g # h => pc'[g] = pc[g] /\ reply'[g] = reply[g]
  BY <1>1, <1>2 DEF CacheInv, TypeOK, HandlerTypes
<1>6. pc'[h] = "loadSize" /\ reply'[h] = r
  BY <1>1, <1>2 DEF CacheInv, TypeOK, HandlerTypes
<1>7. ReplyFits'
  BY <1>2, <1>5, <1>6 DEF CacheInv, ReplyFits, Replies
<1>8. SeenTrue' /\ Looked' /\ Recording'
  <2>1. \A g \in Handlers : RecordSmall(g)' <=> RecordSmall(g)
    BY <1>2, Zenon DEF RecordSmall
  <2>2. \A g \in Handlers : g # h => (Miss(g)' <=> Miss(g))
    BY <1>2, <1>5, SameRecord
  <2>3. SeenTrue' /\ Looked'
    BY <1>2, <1>5, <1>6, <2>1 DEF CacheInv, SeenTrue, Looked
  <2>4. Recording'
    BY <1>2, <1>5, <1>6, <2>1, <2>2 DEF CacheInv, Recording
  <2> QED
    BY <2>3, <2>4
<1> QED
  BY <1>2, <1>4, <1>5, <1>7, <1>8, QuietStep

(* What URLCheck returns of a size is what the cache holds. *)
LEMMA LoadSizeStep ==
  ASSUME CacheInv, NEW h \in Handlers, LoadSize(h)
  PROVE  CacheInv'
<1> DEFINE u == request[h].url
<1>1. /\ pc[h] = "loadSize" /\ UNCHANGED <<caches, process, request, reply, answer>>
      /\ u \in URLs /\ sizes[u] \in Sizes \cup {Absent}
  BY DEF LoadSize, At, CacheInv, TypeOK, CacheTypes, HandlerTypes
<1>2. h \in DOMAIN pc /\ h \in DOMAIN seen
  BY DEF CacheInv, TypeOK, HandlerTypes
<1> DEFINE Lookup == [found : BOOLEAN, size : Sizes \cup {-2}, code : Codes \cup {0, -2}]
           Learned(place, s) ==
             /\ pc' = [pc EXCEPT ![h] = place] /\ seen' = [seen EXCEPT ![h] = s]
             /\ s \in Lookup
<1>3. /\ Learned(pc'[h], seen'[h]) /\ pc'[h] \in {"loadCode", "decide"}
      /\ pc'[h] = "loadCode" => seen'[h].found
      /\ seen'[h].size > 0 => seen'[h].size = sizes[u]
      /\ seen'[h].size = 0 /\ seen'[h].code = 200 => resource[u].small
  <2>1. CASE sizes[u] # Absent
    <3> DEFINE s == Seen(TRUE, sizes[u], 0)
    <3>1. pc' = [pc EXCEPT ![h] = "loadCode"] /\ seen' = [seen EXCEPT ![h] = s]
      BY <2>1 DEF LoadSize, GoTo
    <3>2. s \in Lookup /\ s.found /\ s.size = sizes[u] /\ s.code = 0
      BY <1>1, <2>1 DEF Seen
    <3> HIDE DEF s, Lookup
    <3>3. pc'[h] = "loadCode" /\ seen'[h] = s
      BY <1>2, <3>1
    <3>4. Learned(pc'[h], seen'[h])
      BY <3>1, <3>2, <3>3
    <3>5. seen'[h].found
      BY <3>2, <3>3, Zenon
    <3>6. seen'[h].size = sizes[u] /\ seen'[h].code = 0
      BY <3>2, <3>3
    <3> HIDE DEF Learned
    <3> QED
      BY <3>3, <3>4, <3>5, <3>6
  <2>2. CASE sizes[u] = Absent /\ resource[u].small
    <3> DEFINE s == Seen(FALSE, 0, 200)
    <3>1. pc' = [pc EXCEPT ![h] = "decide"] /\ seen' = [seen EXCEPT ![h] = s]
      BY <2>2 DEF LoadSize, GoTo
    <3>2. s \in Lookup /\ s.size = 0
      BY DEF Seen, Sizes, Codes
    <3> HIDE DEF s, Lookup
    <3>3. pc'[h] = "decide" /\ seen'[h] = s
      BY <1>2, <3>1
    <3>4. Learned(pc'[h], seen'[h])
      BY <3>1, <3>2, <3>3
    <3>5. seen'[h].size = 0
      BY <3>2, <3>3
    <3> HIDE DEF Learned
    <3> QED
      BY <2>2, <3>3, <3>4, <3>5
  <2>3. CASE sizes[u] = Absent /\ ~resource[u].small
    <3> DEFINE s == Seen(FALSE, -2, -2)
    <3>1. pc' = [pc EXCEPT ![h] = "decide"] /\ seen' = [seen EXCEPT ![h] = s]
      BY <2>3 DEF LoadSize, GoTo
    <3>2. s \in Lookup /\ s.size = -2
      BY DEF Seen
    <3> HIDE DEF s, Lookup
    <3>3. pc'[h] = "decide" /\ seen'[h] = s
      BY <1>2, <3>1
    <3>4. Learned(pc'[h], seen'[h])
      BY <3>1, <3>2, <3>3
    <3>5. seen'[h].size = -2
      BY <3>2, <3>3
    <3> HIDE DEF Learned
    <3> QED
      BY <3>3, <3>4, <3>5
  <2> QED
    BY <2>1, <2>2, <2>3
<1>4. HandlerTypes'
  <2>1. seen' = [seen EXCEPT ![h] = seen'[h]] /\ seen'[h] \in Lookup
    BY <1>3
  <2>2. seen' \in [Handlers -> Lookup]
    <3> HIDE DEF Lookup
    <3>1. seen \in [Handlers -> Lookup]
      BY DEF CacheInv, TypeOK, HandlerTypes, Lookup
    <3> QED
      BY <2>1, <3>1
  <2>3. pc' = [pc EXCEPT ![h] = pc'[h]] /\ pc'[h] \in {"loadCode", "decide"}
    BY <1>3
  <2>4. pc' \in [Handlers -> {"idle", "probe", "loadSize", "loadCode", "decide",
                              "saveCode", "saved"}]
    BY <2>3 DEF CacheInv, TypeOK, HandlerTypes
  <2> QED
    BY <1>1, <2>2, <2>4 DEF CacheInv, TypeOK, HandlerTypes
<1>5. \A g \in Handlers : g # h => pc'[g] = pc[g] /\ seen'[g] = seen[g]
  <2>1. pc' = [pc EXCEPT ![h] = pc'[h]] /\ seen' = [seen EXCEPT ![h] = seen'[h]]
    BY <1>3
  <2>2. DOMAIN pc = Handlers /\ DOMAIN seen = Handlers
    BY DEF CacheInv, TypeOK, HandlerTypes
  <2> QED
    BY <2>1, <2>2
<1>6. ReplyFits'
  BY <1>1, <1>3, <1>5 DEF CacheInv, ReplyFits, Replies
<1>7. seen'[h].size > 0 => seen'[h].size = resource[u].total
  BY <1>1, <1>3 DEF CacheInv, SizeIsTotal
<1>8. \A g \in Handlers : g # h => (RecordSmall(g)' <=> RecordSmall(g)) /\ (Miss(g)' <=> Miss(g))
  BY <1>1, <1>5, SameRecord
<1>9. RecordSmall(h)' => seen'[h].size = 0 /\ seen'[h].code = 200
  BY DEF RecordSmall
<1>10. SeenTrue'
  BY <1>1, <1>3, <1>5, <1>7, <1>8, <1>9 DEF CacheInv, SeenTrue
<1>11. Looked'
  BY <1>1, <1>3, <1>5 DEF CacheInv, Looked
<1>12. Recording'
  BY <1>1, <1>3, <1>5, <1>8 DEF CacheInv, Recording
<1> QED
  BY <1>1, <1>4, <1>5, <1>6, <1>10, <1>11, <1>12, QuietStep

(* A code is only loaded for a URL that was found. *)
LEMMA LoadCodeStep ==
  ASSUME CacheInv, NEW h \in Handlers, LoadCode(h)
  PROVE  CacheInv'
<1> DEFINE c == IF codes[request[h].url] = Absent THEN 0 ELSE codes[request[h].url]
<1>1. /\ pc[h] = "loadCode" /\ pc' = [pc EXCEPT ![h] = "decide"]
      /\ seen' = [seen EXCEPT ![h].code = c]
      /\ UNCHANGED <<caches, process, request, reply, answer>>
  BY DEF LoadCode, At, GoTo
<1>2. c \in Codes \cup {0, -2}
  BY DEF CacheInv, TypeOK, CacheTypes, HandlerTypes
<1> HIDE DEF c
<1>3. HandlerTypes'
  BY <1>1, <1>2 DEF CacheInv, TypeOK, HandlerTypes
<1>4. \A g \in Handlers : g # h => pc'[g] = pc[g] /\ seen'[g] = seen[g]
  BY <1>1 DEF CacheInv, TypeOK, HandlerTypes
<1>5. /\ pc'[h] = "decide" /\ seen'[h].size = seen[h].size
      /\ seen'[h].found = seen[h].found
  BY <1>1 DEF CacheInv, TypeOK, HandlerTypes
<1>6. ReplyFits'
  BY <1>1, <1>4, <1>5 DEF CacheInv, ReplyFits, Replies
<1>7. \A g \in Handlers : g # h => (RecordSmall(g)' <=> RecordSmall(g)) /\ (Miss(g)' <=> Miss(g))
  BY <1>1, <1>4, SameRecord
<1>8. ~RecordSmall(h)'
  <2>1. seen[h].found
    BY <1>1 DEF CacheInv, Looked
  <2> QED
    BY <1>5, <2>1, Zenon DEF RecordSmall
<1>9. SeenTrue'
  BY <1>1, <1>4, <1>5, <1>7, <1>8 DEF CacheInv, SeenTrue
<1>10. Looked' /\ Recording'
  BY <1>1, <1>4, <1>5, <1>7 DEF CacheInv, Looked, Recording
<1> QED
  BY <1>1, <1>3, <1>4, <1>6, <1>9, <1>10, QuietStep

(* The first store of URLSave: a size that is true, of a URL that answered.*)
LEMMA SaveSizeStep ==
  ASSUME CacheInv, NEW h \in Handlers, SaveSize(h)
  PROVE  CacheInv'
<1> DEFINE u == request[h].url
           new == Record(h).size
<1>1. /\ pc[h] = "decide" /\ pc' = [pc EXCEPT ![h] = "saveCode"]
      /\ sizes' = [sizes EXCEPT ![u] = new]
      /\ UNCHANGED <<codes, process, request, reply, seen, answer>>
      /\ Miss(h) \/ RecordSmall(h)
  BY DEF SaveSize, At, GoTo
<1>2. /\ new \in Sizes /\ u \in URLs
      /\ new > 0 => new = resource[u].total
      /\ ~resource[u].missing \/ resource[u].small
  BY <1>1, RecordFacts DEF CacheInv, TypeOK, HandlerTypes
<1> HIDE DEF new
<1>3. \A v \in URLs : v # u => sizes'[v] = sizes[v]
  BY <1>1 DEF CacheInv, TypeOK, CacheTypes
<1>4. sizes'[u] = new
  BY <1>1, <1>2 DEF CacheInv, TypeOK, CacheTypes
<1>5. \A g \in Handlers : g # h => pc'[g] = pc[g]
  BY <1>1 DEF CacheInv, TypeOK, HandlerTypes
<1>6. pc'[h] = "saveCode"
  BY <1>1 DEF CacheInv, TypeOK, HandlerTypes
<1>7. TypeOK'
  <2>1. CacheTypes'
    BY <1>1, <1>2 DEF CacheInv, TypeOK, CacheTypes
  <2>2. HandlerTypes'
    BY <1>1 DEF CacheInv, TypeOK, HandlerTypes
  <2> QED
    BY <1>1, <2>1, <2>2 DEF CacheInv, TypeOK
<1>8. SizeIsTotal' /\ FailureLeavesNoRecord'
  <2>1. SizeIsTotal'
    BY <1>1, <1>2, <1>3, <1>4 DEF CacheInv, SizeIsTotal
  <2>2. FailureLeavesNoRecord'
    BY <1>1, <1>2, <1>3, <1>4 DEF CacheInv, FailureLeavesNoRecord
  <2> QED
    BY <2>1, <2>2
<1>9. \A g \in Handlers : (RecordSmall(g)' <=> RecordSmall(g)) /\ (Miss(g)' <=> Miss(g))
  BY <1>1, SameRecord
<1>10. ReplyFits' /\ Looked' /\ EngineGetsLargeFile'
  <2>1. ReplyFits'
    BY <1>1, <1>5, <1>6 DEF CacheInv, ReplyFits, Replies
  <2>2. Looked'
    BY <1>1, <1>5, <1>6 DEF CacheInv, Looked
  <2>3. EngineGetsLargeFile'
    BY <1>1 DEF CacheInv, EngineGetsLargeFile
  <2> QED
    BY <2>1, <2>2, <2>3
<1>11. SeenTrue'
  BY <1>1, <1>9 DEF CacheInv, SeenTrue
<1>12. Recording'
  BY <1>1, <1>5, <1>6, <1>9 DEF CacheInv, Recording
<1>13. CodePending'
  BY <1>1, <1>3, <1>5, <1>6 DEF CacheInv, CodePending, Running
<1> QED
  BY <1>7, <1>8, <1>10, <1>11, <1>12, <1>13 DEF CacheInv

(* The second store: the code that goes with the size. *)
LEMMA SaveCodeStep ==
  ASSUME CacheInv, NEW h \in Handlers, SaveCode(h)
  PROVE  CacheInv'
<1> DEFINE u == request[h].url
           new == Record(h).code
<1>1. /\ pc[h] = "saveCode" /\ pc' = [pc EXCEPT ![h] = "saved"]
      /\ codes' = [codes EXCEPT ![u] = new]
      /\ UNCHANGED <<sizes, process, request, reply, seen, answer>>
  BY DEF SaveCode, At, GoTo
<1>2. Miss(h) \/ RecordSmall(h)
  BY <1>1 DEF CacheInv, Recording
<1>3. new \in Codes /\ u \in URLs /\ (~resource[u].missing \/ resource[u].small)
  BY <1>1, <1>2, RecordFacts DEF CacheInv, TypeOK, HandlerTypes
<1> HIDE DEF new
<1>4. \A v \in URLs : v # u => codes'[v] = codes[v]
  BY <1>1 DEF CacheInv, TypeOK, CacheTypes
<1>5. codes'[u] = new /\ new # Absent
  BY <1>1, <1>3 DEF CacheInv, TypeOK, CacheTypes, Codes, Absent
<1>6. \A g \in Handlers : g # h => pc'[g] = pc[g]
  BY <1>1 DEF CacheInv, TypeOK, HandlerTypes
<1>7. pc'[h] = "saved"
  BY <1>1 DEF CacheInv, TypeOK, HandlerTypes
<1>8. TypeOK'
  <2>1. CacheTypes'
    BY <1>1, <1>3 DEF CacheInv, TypeOK, CacheTypes
  <2>2. HandlerTypes'
    BY <1>1 DEF CacheInv, TypeOK, HandlerTypes
  <2> QED
    BY <1>1, <2>1, <2>2 DEF CacheInv, TypeOK
<1>9. SizeIsTotal' /\ EngineGetsLargeFile'
  BY <1>1 DEF CacheInv, SizeIsTotal, EngineGetsLargeFile
<1>10. FailureLeavesNoRecord'
  BY <1>1, <1>3, <1>4 DEF CacheInv, FailureLeavesNoRecord
<1>11. \A g \in Handlers : (RecordSmall(g)' <=> RecordSmall(g)) /\ (Miss(g)' <=> Miss(g))
  BY <1>1, SameRecord
<1>12. ReplyFits' /\ Looked'
  <2>1. ReplyFits'
    BY <1>1, <1>6, <1>7 DEF CacheInv, ReplyFits, Replies
  <2>2. Looked'
    BY <1>1, <1>6, <1>7 DEF CacheInv, Looked
  <2> QED
    BY <2>1, <2>2
<1>13. SeenTrue'
  BY <1>1, <1>11 DEF CacheInv, SeenTrue
<1>14. Recording'
  BY <1>1, <1>2, <1>6, <1>7, <1>11 DEF CacheInv, Recording
<1>15. CodePending'
  BY <1>1, <1>4, <1>5, <1>6 DEF CacheInv, CodePending, Running
<1> QED
  BY <1>8, <1>9, <1>10, <1>12, <1>13, <1>14, <1>15 DEF CacheInv

(* The ways in which a handler answers. *)
LEMMA AnswerStep ==
  ASSUME CacheInv, NEW h \in Handlers,
         ProbeFails(h) \/ UseEngine(h) \/ AfterSave(h) \/ Pass(h)
  PROVE  CacheInv'
<1>1. UNCHANGED <<caches, process>> /\ pc[h] # "saveCode" /\ 0 \in Sizes
  BY DEF ProbeFails, UseEngine, AfterSave, Pass, At, Sizes
<1>2. ASSUME NEW kind \in {"pass", "cut", "empty", "closed"}, Return(h, kind, 0)
      PROVE  CacheInv'
  BY <1>1, <1>2, ReturnStep
<1>3. ASSUME NEW size \in Sizes, NEW code, ChunksProbe(h, size, code),
             size = resource[request[h].url].total, size >= ExceedSize
      PROVE  CacheInv'
  <2>1. Return(h, "stream", size) => CacheInv'
    BY <1>1, <1>3, ReturnStep
  <2> QED
    BY <1>2, <1>3, <2>1 DEF ChunksProbe
<1>4. ExceedSize \in Nat \ {0}
  BY CacheAssumption
<1>5. CASE ProbeFails(h)
  BY <1>2, <1>5 DEF ProbeFails
<1>6. CASE UseEngine(h)
  <2>1. /\ seen[h].size \in Sizes \cup {-2} /\ seen[h].size >= ExceedSize
        /\ ChunksProbe(h, seen[h].size, seen[h].code)
    BY <1>6 DEF UseEngine, CacheInv, TypeOK, HandlerTypes
  <2>2. seen[h].size \in Int
    <3>1. -2 \in Int
      OBVIOUS
    <3> QED
      BY <2>1, <3>1, SizesAreIntegers
  <2>3. seen[h].size > 0 /\ seen[h].size \in Sizes
    BY <1>4, <2>1, <2>2
  <2>4. seen[h].size = resource[request[h].url].total
    BY <2>3 DEF CacheInv, SeenTrue
  <2> QED
    BY <1>3, <2>1, <2>3, <2>4
<1>7. CASE AfterSave(h)
  <2>1. pc[h] = "saved" /\ (Miss(h) \/ RecordSmall(h))
    BY <1>7 DEF AfterSave, At, CacheInv, Recording
  <2>2. CASE Miss(h) /\ RespDeal(reply[h]).chunks
    <3>1. ChunksProbe(h, Record(h).size, Record(h).code)
      BY <1>7, <2>2 DEF AfterSave
    <3>2. /\ Record(h).size \in Sizes /\ Record(h).size >= ExceedSize
          /\ Record(h).size > 0 => Record(h).size = resource[request[h].url].total
      BY <2>1, <2>2, RecordFacts
    <3>3. Record(h).size \in Int
      BY <3>2, SizesAreIntegers
    <3>4. Record(h).size = resource[request[h].url].total
      BY <1>4, <3>2, <3>3
    <3> QED
      BY <1>3, <3>1, <3>2, <3>4
  <2>3. CASE ~(Miss(h) /\ RespDeal(reply[h]).chunks)
    BY <1>2, <1>7, <2>3 DEF AfterSave, PassOn
  <2> QED
    BY <2>2, <2>3
<1>8. CASE Pass(h)
  BY <1>2, <1>8 DEF Pass, PassOn
<1> QED
  BY <1>5, <1>6, <1>7, <1>8

-----------------------------------------------------------------------------
(* The two files hold what the caches held when they were written. *)
LEMMA SaveLocalStep ==
  ASSUME CacheInv, SaveCodesLocal \/ SaveSizesLocal
  PROVE  CacheInv'
<1>1. /\ UNCHANGED <<resource, caches, restarts, handlers>> /\ Running /\ Running'
      /\ \/ codeFile' = codes /\ sizeFile' = sizeFile /\ server' = "codesSaved"
         \/ sizeFile' = sizes /\ codeFile' = codeFile /\ server' = "sizesSaved"
  BY DEF SaveCodesLocal, SaveSizesLocal, Running
<1>2. TypeOK'
  BY <1>1 DEF CacheInv, TypeOK, CacheTypes, HandlerTypes
<1>3. SizeIsTotal' /\ FailureLeavesNoRecord' /\ EngineGetsLargeFile'
  BY <1>1 DEF CacheInv, SizeIsTotal, FailureLeavesNoRecord, EngineGetsLargeFile
<1>4. ReplyFits' /\ Looked'
  BY <1>1 DEF CacheInv, ReplyFits, Looked, Replies
<1>5. \A g \in Handlers : (RecordSmall(g)' <=> RecordSmall(g)) /\ (Miss(g)' <=> Miss(g))
  BY <1>1, SameRecord
<1>6. SeenTrue' /\ Recording'
  BY <1>1, <1>5 DEF CacheInv, SeenTrue, Recording
<1>7. CodePending'
  BY <1>1 DEF CacheInv, CodePending
<1> QED
  BY <1>2, <1>3, <1>4, <1>6, <1>7 DEF CacheInv

(* The process ends: handlers vanish, a file may be torn. *)
LEMMA EndStep ==
  ASSUME CacheInv, Exit \/ Crash
  PROVE  CacheInv'
<1>1. /\ UNCHANGED <<resource, caches, restarts>> /\ Vanish
      /\ codeFile' \in {codeFile, NoRecords} /\ sizeFile' \in {sizeFile, NoRecords}
  BY DEF Exit, Crash
<1>2. NoRecords \in [URLs -> Sizes \cup {Absent}] /\ NoRecords \in [URLs -> Codes \cup {Absent}]
  BY DEF NoRecords
<1>3. SomeURL \in URLs /\ 0 \in Sizes
  BY CacheAssumption DEF SomeURL, Sizes
<1>4. HandlerTypes'
  BY <1>1, <1>3 DEF Vanish, HandlerTypes, NoRequest, Seen, NoAnswer
<1>5. TypeOK'
  BY <1>1, <1>2, <1>4 DEF Vanish, CacheInv, TypeOK, CacheTypes
<1>6. \A u \in URLs : /\ sizeFile'[u] = sizeFile[u] \/ sizeFile'[u] = Absent
                      /\ codeFile'[u] = codeFile[u] \/ codeFile'[u] = Absent
  BY <1>1 DEF NoRecords
<1>7. SizeIsTotal' /\ FailureLeavesNoRecord'
  BY <1>1, <1>6 DEF CacheInv, SizeIsTotal, FailureLeavesNoRecord, Absent
<1>8. ReplyFits' /\ Looked' /\ EngineGetsLargeFile' /\ SeenTrue' /\ Recording'
  BY <1>1 DEF Vanish, ReplyFits, Looked, SeenTrue, Recording, EngineGetsLargeFile,
              RecordSmall, Seen, NoAnswer
<1>9. CodePending'
  BY <1>1 DEF Vanish, CodePending, Running
<1> QED
  BY <1>5, <1>7, <1>8, <1>9 DEF CacheInv

(* A restart fills the caches from the files. *)
LEMMA RestartStep ==
  ASSUME CacheInv, Restart
  PROVE  CacheInv'
<1>1. /\ sizes' = sizeFile /\ codes' = codeFile /\ server' = "up"
      /\ UNCHANGED <<resource, files, handlers>>
      /\ restarts' = restarts + 1 /\ restarts < MaxRestarts /\ restarts \in 0..MaxRestarts
      /\ MaxRestarts \in Nat
  BY CacheAssumption DEF Restart, CacheInv, TypeOK
<1>2. restarts' \in 0..MaxRestarts /\ restarts' # 0
  BY <1>1
<1>3. TypeOK'
  BY <1>1, <1>2 DEF CacheInv, TypeOK, CacheTypes, HandlerTypes
<1>4. SizeIsTotal' /\ FailureLeavesNoRecord' /\ EngineGetsLargeFile'
  BY <1>1 DEF CacheInv, SizeIsTotal, FailureLeavesNoRecord, EngineGetsLargeFile
<1>5. ReplyFits' /\ Looked'
  BY <1>1 DEF CacheInv, ReplyFits, Looked, Replies
<1>6. \A g \in Handlers : (RecordSmall(g)' <=> RecordSmall(g)) /\ (Miss(g)' <=> Miss(g))
  BY <1>1, SameRecord
<1>7. SeenTrue' /\ Recording'
  BY <1>1, <1>6 DEF CacheInv, SeenTrue, Recording
<1>8. CodePending'
  BY <1>2 DEF CodePending
<1> QED
  BY <1>3, <1>4, <1>5, <1>7, <1>8 DEF CacheInv

(* A stuttering step. *)
LEMMA IdleStep ==
  ASSUME CacheInv, UNCHANGED vars
  PROVE  CacheInv'
<1>1. TypeOK' /\ SizeIsTotal' /\ FailureLeavesNoRecord' /\ EngineGetsLargeFile'
  BY DEF CacheInv, TypeOK, CacheTypes, HandlerTypes, SizeIsTotal,
         FailureLeavesNoRecord, EngineGetsLargeFile
<1>2. ReplyFits' /\ Looked' /\ CodePending'
  BY DEF CacheInv, ReplyFits, Looked, Replies, CodePending, Running
<1>3. \A g \in Handlers : (RecordSmall(g)' <=> RecordSmall(g)) /\ (Miss(g)' <=> Miss(g))
  BY SameRecord
<1>4. SeenTrue' /\ Recording'
  BY <1>3 DEF CacheInv, SeenTrue, Recording
<1> QED
  BY <1>1, <1>2, <1>4 DEF CacheInv

(* Every step of handlers and process keeps the invariant. *)
THEOREM CacheInvariant == Spec => []CacheInv
<1>1. CacheInv /\ [Next]_vars => CacheInv'
  <2> SUFFICES ASSUME CacheInv, [Next]_vars PROVE CacheInv'
    OBVIOUS
  <2>1. ASSUME NEW h \in Handlers, Handle(h) PROVE CacheInv'
    BY <2>1, RequestStep, ProbeReplyStep, LoadSizeStep, LoadCodeStep, SaveSizeStep,
       SaveCodeStep, AnswerStep DEF Handle
  <2>2. CASE SaveCodesLocal \/ SaveSizesLocal \/ Exit \/ Crash \/ Restart
    BY <2>2, SaveLocalStep, EndStep, RestartStep
  <2>3. CASE Terminated \/ UNCHANGED vars
    BY <2>3, IdleStep DEF Terminated
  <2> QED
    BY <2>1, <2>2, <2>3 DEF Next
<1> QED
  BY CacheInit, <1>1, PTL DEF Spec

(* The caches, their files and the handlers keep their types.              *)
THEOREM CacheTypesHold == Spec => []TypeOK
<1>1. CacheInv => TypeOK
  BY DEF CacheInv
<1> QED
  BY <1>1, CacheInvariant, PTL

(* A recorded positive size is that of the whole resource, whichever       *)
(* handlers raced to record it and however often the process ended.        *)
THEOREM SizesAreTotals == Spec => []SizeIsTotal
<1>1. CacheInv => SizeIsTotal
  BY DEF CacheInv
<1> QED
  BY <1>1, CacheInvariant, PTL

(* The engine only ever gets a file of at least ExceedSize, with its size. *)
THEOREM EngineGetsTrueSize == Spec => []EngineGetsLargeFile
<1>1. CacheInv => EngineGetsLargeFile
  BY DEF CacheInv
<1> QED
  BY <1>1, CacheInvariant, PTL

(* A URL that only failed has no record, in the caches and in their files. *)
THEOREM FailuresUnrecorded == Spec => []FailureLeavesNoRecord
<1>1. CacheInv => FailureLeavesNoRecord
  BY DEF CacheInv
<1> QED
  BY <1>1, CacheInvariant, PTL

(* Between requests of a process that was never restarted every recorded   *)
(* size has its code.                                                      *)
THEOREM SizesHaveCodes == Spec => []SizeHasCode
<1>1. CacheInv => SizeHasCode
  BY DEF CacheInv, CodePending, Running, SizeHasCode
<1> QED
  BY <1>1, CacheInvariant, PTL

-----------------------------------------------------------------------------
(* Large files are served by the engine to a client that is alone, asks    *)
(* for no ranges and finds no records of an earlier process. Without any   *)
(* one of the three LargeFileServed fails.                                 *)
Alone == Ranged = {FALSE} /\ MaxRestarts = 0 /\ \A g, h \in Handlers : g = h

(* Only the code of a full reply is recorded, and a size that was found    *)
(* has it: the only handler is not between its two stores.                 *)
CodesFull == \A u \in URLs : codes[u] \in {Absent, 200}

FoundWithCode ==
  \A h \in Handlers :
    /\ ~request[h].ranged
    /\ pc[h] # "idle" => answer[h].kind = "none"
    /\ pc[h] = "loadCode" => sizes[request[h].url] # Absent
    /\ pc[h] = "decide" /\ seen[h].size > 0 => seen[h].code = 200

AloneInv == CodesFull /\ FoundWithCode

(* A full reply that RespDeal accepts has the code the engine asks for.    *)
LEMMA FullReply ==
  ASSUME TypeOK, NEW req \in [url : URLs, ranged : BOOLEAN], ~req.ranged, NEW r \in Replies(req), RespDeal(r).ok
  PROVE  RespDeal(r).code = 200
<1> DEFINE res == resource[req.url]
<1>1. r \notin Failure
  BY DEF Failure, Reply, RespDeal, Deal
<1>2. r \in Full(res)
  BY <1>1 DEF Replies
<1>3. r.status = 200
  BY <1>2 DEF Full, Reply
<1> QED
  BY <1>3 DEF RespDeal, Deal

(* What the end of a handler leaves, and who ends so.                      *)
LEMMA ReturnEnds ==
  ASSUME TypeOK, NEW h \in Handlers, NEW kind, NEW size, Return(h, kind, size)
  PROVE  pc'[h] = "idle" /\ request'[h] = NoRequest /\ answer'[h].kind = kind
<1>1. DOMAIN pc = Handlers /\ DOMAIN request = Handlers /\ DOMAIN answer = Handlers
  BY DEF TypeOK, HandlerTypes
<1> QED
  BY <1>1 DEF Return, GoTo

LEMMA ProbeEnds ==
  ASSUME TypeOK, NEW h \in Handlers, NEW size, NEW code, ChunksProbe(h, size, code)
  PROVE  pc'[h] = "idle" /\ request'[h] = NoRequest /\ (code = 200 => answer'[h].kind # "empty")
<1>1. CASE code = 200 /\ Return(h, "stream", size)
  BY <1>1, ReturnEnds
<1>2. CASE code = 200 /\ Return(h, "closed", 0)
  BY <1>2, ReturnEnds
<1>3. CASE code # 200 /\ Return(h, "empty", 0)
  BY <1>3, ReturnEnds
<1> QED
  BY <1>1, <1>2, <1>3 DEF ChunksProbe

LEMMA PassEnds ==
  ASSUME TypeOK, NEW h \in Handlers, PassOn(h)
  PROVE  pc'[h] = "idle" /\ request'[h] = NoRequest /\ answer'[h].kind # "empty"
<1>1. CASE Return(h, "pass", 0)
  BY <1>1, ReturnEnds
<1>2. CASE Return(h, "cut", 0)
  BY <1>2, ReturnEnds
<1> QED
  BY <1>1, <1>2 DEF PassOn

LEMMA AloneInit == Init => AloneInv
<1> SUFFICES ASSUME Init PROVE AloneInv
  OBVIOUS
<1>1. CodesFull
  BY DEF Init, NoRecords, CodesFull
<1>2. FoundWithCode
  BY DEF Init, NoRequest, FoundWithCode
<1> QED
  BY <1>1, <1>2 DEF AloneInv

(* The handler's own steps. *)
LEMMA AloneHandle ==
  ASSUME Alone, CacheInv, AloneInv, NEW h \in Handlers, Handle(h)
  PROVE  AloneInv'
<1>0. /\ CodesFull /\ \A g \in Handlers : g = h
      /\ ~request[h].ranged
      /\ pc[h] # "idle" => answer[h].kind = "none"
      /\ pc[h] = "loadCode" => sizes[request[h].url] # Absent
      /\ pc[h] = "decide" /\ seen[h].size > 0 => seen[h].code = 200
      /\ request[h] \in [url : URLs, ranged : BOOLEAN]
  BY DEF Alone, AloneInv, FoundWithCode, CacheInv, TypeOK, HandlerTypes
<1>1. /\ DOMAIN pc = Handlers /\ DOMAIN request = Handlers /\ DOMAIN seen = Handlers /\ DOMAIN answer = Handlers
      /\ DOMAIN sizes = URLs /\ DOMAIN codes = URLs
  BY DEF CacheInv, TypeOK, CacheTypes, HandlerTypes
<1> DEFINE Mine == /\ ~request'[h].ranged
                   /\ pc'[h] # "idle" => answer'[h].kind = "none"
                   /\ pc'[h] = "loadCode" => sizes'[request'[h].url] # Absent
                   /\ pc'[h] = "decide" /\ seen'[h].size > 0 => seen'[h].code = 200
<1> SUFFICES CodesFull' /\ Mine
  BY <1>0 DEF AloneInv, FoundWithCode
<1>2. CASE Request(h)
  <2>1. UNCHANGED codes /\ pc'[h] = "probe" /\ ~request'[h].ranged /\ answer'[h].kind = "none"
    BY <1>1, <1>2 DEF Request, GoTo, Alone, NoAnswer
  <2> QED
    BY <1>0, <2>1 DEF CodesFull
<1>3. CASE ProbeFails(h) \/ UseEngine(h) \/ AfterSave(h) \/ Pass(h)
  <2>0. TypeOK
    BY DEF CacheInv
  <2>1. UNCHANGED codes /\ pc'[h] = "idle" /\ request'[h] = NoRequest
    <3>1. CASE ProbeFails(h)
      BY <2>0, <3>1, ReturnEnds DEF ProbeFails, caches
    <3>2. CASE UseEngine(h)
      BY <2>0, <3>2, ProbeEnds DEF UseEngine, caches
    <3>3. CASE AfterSave(h)
      BY <2>0, <3>3, ProbeEnds, PassEnds DEF AfterSave, caches
    <3>4. CASE Pass(h)
      BY <2>0, <3>4, PassEnds DEF Pass, caches
    <3> QED
      BY <1>3, <3>1, <3>2, <3>3, <3>4
  <2>2. ~request'[h].ranged
    BY <2>1 DEF NoRequest
  <2> QED
    BY <1>0, <2>1, <2>2 DEF CodesFull
<1>4. CASE ProbeReply(h)
  <2>1. UNCHANGED <<codes, request, answer>> /\ pc[h] = "probe" /\ pc'[h] = "loadSize"
    BY <1>1, <1>4 DEF ProbeReply, At, GoTo
  <2> QED
    BY <1>0, <2>1 DEF CodesFull
<1>5. CASE LoadSize(h)
  <2>1. /\ UNCHANGED <<codes, sizes, request, answer>> /\ pc[h] = "loadSize"
        /\ \/ pc'[h] = "loadCode" /\ sizes[request[h].url] # Absent
           \/ pc'[h] = "decide" /\ seen'[h] \in {Seen(FALSE, 0, 200), Seen(FALSE, -2, -2)}
    BY <1>1, <1>5 DEF LoadSize, At, GoTo
  <2>2. pc'[h] = "decide" => ~(seen'[h].size > 0)
    BY <2>1 DEF Seen
  <2> QED
    BY <1>0, <2>1, <2>2 DEF CodesFull
<1>6. CASE LoadCode(h)
  <2>1. /\ UNCHANGED <<codes, sizes, request, answer>> /\ pc[h] = "loadCode" /\ pc'[h] = "decide"
        /\ seen'[h].code = IF codes[request[h].url] = Absent THEN 0 ELSE codes[request[h].url]
    BY <1>1, <1>6 DEF LoadCode, At, GoTo, CacheInv, TypeOK, HandlerTypes
  <2>2. Running /\ restarts = 0
    BY <1>6 DEF LoadCode, At, CacheInv, TypeOK, Alone
  <2>3. codes[request[h].url] # Absent
    BY <1>0, <2>1, <2>2 DEF CacheInv, CodePending
  <2>4. codes[request[h].url] = 200
    BY <1>0, <2>3 DEF CodesFull
  <2> QED
    BY <1>0, <2>1, <2>3, <2>4 DEF CodesFull
<1>7. CASE SaveSize(h)
  <2>1. UNCHANGED <<codes, request, answer>> /\ pc[h] = "decide" /\ pc'[h] = "saveCode"
    BY <1>1, <1>7 DEF SaveSize, At, GoTo
  <2> QED
    BY <1>0, <2>1 DEF CodesFull
<1>8. CASE SaveCode(h)
  <2>1. /\ UNCHANGED <<request, answer>> /\ pc[h] = "saveCode" /\ pc'[h] = "saved"
        /\ codes' = [codes EXCEPT ![request[h].url] = Record(h).code]
    BY <1>1, <1>8 DEF SaveCode, At, GoTo
  <2>2. Miss(h) \/ RecordSmall(h)
    BY <2>1 DEF CacheInv, Recording
  <2>3. Record(h).code = 200
    <3>1. CASE Miss(h)
      <4>1. reply[h] \in Replies(request[h])
        BY <2>1 DEF CacheInv, ReplyFits
      <4>2. RespDeal(reply[h]).code = 200
        BY <1>0, <3>1, <4>1, FullReply DEF CacheInv, Miss
      <4> QED
        BY <3>1, <4>2 DEF Miss, Record
    <3>2. CASE RecordSmall(h)
      BY <3>2 DEF RecordSmall, Record
    <3> QED
      BY <2>2, <3>1, <3>2
  <2> QED
    BY <1>0, <1>1, <2>1, <2>3 DEF CodesFull
<1> QED
  BY <1>2, <1>3, <1>4, <1>5, <1>6, <1>7, <1>8 DEF Handle

LEMMA AloneStep ==
  ASSUME Alone PROVE CacheInv /\ AloneInv /\ [Next]_vars => AloneInv'
<1> SUFFICES ASSUME CacheInv, AloneInv, [Next]_vars PROVE AloneInv'
  OBVIOUS
<1>1. CASE \E h \in Handlers : Handle(h)
  BY <1>1, AloneHandle
<1>2. CASE SaveCodesLocal \/ SaveSizesLocal \/ Terminated \/ UNCHANGED vars
  <2>1. UNCHANGED <<sizes, codes, pc, request, seen, answer>>
    BY <1>2 DEF SaveCodesLocal, SaveSizesLocal, Terminated
  <2> QED
    BY <2>1 DEF AloneInv, CodesFull, FoundWithCode
<1>3. CASE Exit \/ Crash
  <2>1. UNCHANGED codes /\ Vanish
    BY <1>3 DEF Exit, Crash
  <2>2. CodesFull'
    BY <2>1 DEF AloneInv, CodesFull
  <2>3. FoundWithCode'
    BY <2>1 DEF Vanish, FoundWithCode, NoRequest
  <2> QED
    BY <2>2, <2>3 DEF AloneInv
<1>4. ~Restart
  BY DEF Restart, Alone, CacheInv, TypeOK
<1> QED
  BY <1>1, <1>2, <1>3, <1>4 DEF Next

(* To such a client a large file is never an empty success (ProbeFile,     *)
(* chunksProbe): the exceptions are races and restarts alone.              *)
THEOREM LargeFilesServedAlone == ASSUME Alone PROVE Spec => LargeFileServed
<1> DEFINE Served == \A h \in Handlers :
                       answer'[h].kind = "empty" /\ pc[h] = "decide" => resource[request[h].url].total < ExceedSize
<1>1. CacheInv /\ AloneInv /\ [Next]_vars => [Served]_vars
  <2> SUFFICES ASSUME CacheInv, AloneInv, Next, NEW h \in Handlers, answer'[h].kind = "empty", pc[h] = "decide"
               PROVE  FALSE
    OBVIOUS
  <2>1. /\ answer[h].kind = "none" /\ DOMAIN answer = Handlers
        /\ seen[h].size > 0 => seen[h].code = 200
    BY DEF AloneInv, FoundWithCode, CacheInv, TypeOK, HandlerTypes
  <2>2. CASE \E g \in Handlers : Handle(g)
    <3>1. Handle(h)
      BY <2>2 DEF Alone
    <3>2. UseEngine(h) \/ SaveSize(h) \/ Pass(h)
      BY <3>1 DEF Handle, Request, ProbeFails, ProbeReply, LoadSize, LoadCode, SaveCode, AfterSave, At
    <3>3. CASE SaveSize(h)
      BY <2>1, <3>3 DEF SaveSize
    <3>4. CASE Pass(h)
      BY <3>4, PassEnds DEF Pass, CacheInv
    <3>5. CASE UseEngine(h)
      <4>1. seen[h].size \in Int
        <5>1. seen[h].size \in Sizes \cup {-2} /\ -2 \in Int
          BY DEF CacheInv, TypeOK, HandlerTypes
        <5> QED
          BY <5>1, SizesAreIntegers
      <4>2. seen[h].code = 200
        BY <2>1, <3>5, <4>1, CacheAssumption DEF UseEngine
      <4>3. ChunksProbe(h, seen[h].size, seen[h].code)
        BY <3>5 DEF UseEngine
      <4> QED
        BY <4>2, <4>3, ProbeEnds DEF CacheInv
    <3> QED
      BY <3>2, <3>3, <3>4, <3>5
  <2>3. CASE SaveCodesLocal \/ SaveSizesLocal \/ Restart \/ Terminated
    <3>1. answer'[h].kind = answer[h].kind
      BY <2>3 DEF SaveCodesLocal, SaveSizesLocal, Restart, Terminated, handlers, vars
    <3> QED
      BY <2>1, <3>1
  <2>4. CASE Exit \/ Crash
    <3>1. Vanish
      BY <2>4 DEF Exit, Crash
    <3>2. answer'[h] = NoAnswer
      BY <3>1 DEF Vanish
    <3> QED
      BY <3>2 DEF NoAnswer
  <2> QED
    BY <2>2, <2>3, <2>4 DEF Next
<1>2. Init => AloneInv
  BY AloneInit
<1>3. CacheInv /\ AloneInv /\ [Next]_vars => AloneInv'
  BY AloneStep
<1> QED
  BY <1>1, <1>2, <1>3, CacheInvariant, PTL DEF Spec, LargeFileServed

=============================================================================
