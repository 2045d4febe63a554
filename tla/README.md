# A TLA+ model of MultiNIC-Proxy

MultiNIC-Proxy (NetBouncer) is a local proxy that downloads large files over
several network cards at once. These modules model the parts of it where
goroutines, channels, contexts, two caches and the life of the process meet.
TLC checks them on small instances; TLAPS proves some of the results for every
value of the constants. Line numbers refer to the Go files in `src/`.

## 1. The system

| component | state | operations | source |
|---|---|---|---|
| Chunk plan | loop variables of two functions | `ChunkCalculate` cuts a file into ranges per card, `ChunksDirectTaskGet` takes the leading ones | ChunksDeal.go |
| Chunk job | three contexts, `taskCh`, `resultCh`, `pending`, `next`, the hijacked connection | `ChunksDeal`, `chunkWorker`, `downloadOneChunk`, `DirectChunksWok` | ChunksDeal.go |
| Probe handler and URL caches | `GloFileSizeCache`, `GloCodeCache` and their two files | `HandReq`, `ProbeFile`, `RespDeal`, `URLCheck`, `URLSave`, `URLSaveLocal`, `URLLoad`, `chunksProbe`, `Hijack` | HTTPDeal.go, URLDeal.go, RespDeal.go, StateCodeDeal.go |
| Process lifecycle | system proxy, wait group, stop context | `main`, `EndKeyMonitor`, `Listener`, the loop of `PeriodCheck`, `StartDashboard`, `handleControl` | ClientApp.go, Connect_Wok.go, NetCardMonitor.go, dashborad.go, ProxyDeal.go |
| Card scheduler | speeds per card, the published snapshot | `TransportPoolCreate`, `IPHTTPClientAndChoInit`, `PeriodCheck`, `getProbeClientP` | NetCardMonitor.go |
| Speed test | byte counts and a result shared with a sampling goroutine | `NetCardCLI`, `TCPSpeedTest`, `SpeedTest` | SpeedTest.go, NetCardCLI.go |
| Connection handling, policy | the two connections, the policy map | `handleConnection`, `CheckPolicy`, `LoadPolicies`, `WithoutTlsStraight` | Connect_Wok.go, CertPolicy_Deal.go |
| Per-connection server | one `net/http` server per connection | `HttpsHandle`, `singleConnListener` | HTTPDeal.go |
| Certificate cache | map of signed certificates | `certHandler`, `GetTls`, `SetTls` | Connect_Wok.go, CertPolicy_Deal.go |
| Root certificate | two files, the user's trust store, `caCert` | `checkRotSrtGen`, `loadCA`, `generateCA`, `InstallCertToSystem` | RotSrtDeal.go, WinCrtLoad.go |
| Dashboard | map of websocket pages under a mutex, `broadcast` | `serveWs`, `handleMessages`, `BroadcastUpdate` | dashborad.go |

**How they interact.** `Listener` hands each connection to `handleConnection`,
which asks the policy: a tunnel to the target with two copying goroutines, or a
TLS handshake with a certificate signed by the proxy's own CA and a server of
its own, whose handler is `HandReq`. The handler picks a card from the
scheduler's snapshot, forwards the request, looks the URL up in the caches and
either passes the reply on or hijacks the connection and runs a chunk job. The
job takes a plan from the current snapshot; its readers and writers count bytes,
which `PeriodCheck` turns into the next snapshot and offers to the dashboard's
pages. Before all that `main` measures every card. A stop (key or dashboard)
cancels the context of `Listener` and `PeriodCheck`; main waits for both, saves
the caches and switches the system proxy off, while handlers still run.

**What is hard.** A job has one direct goroutine, four workers, a feeder, a
context watcher, a closing goroutine and main, joined by three contexts, two
channels and an unlocked `bufio.ReadWriter`; upstreams answer in any order, fail
or break off; clients leave, or stay and stop reading; `net/http` treats the context of a hijacked request
in a way of its own. The two caches have no common lock and are saved without
stopping their writers. A speed test's result is read while a goroutine that
nobody waits for may be writing it. The scheduler divides by values that can be
zero, and a NaN, once stored, stays. Two handshakes for one host race for the
cache. The CA's two files are written one after the other. One page that does
not read holds a lock that others need. Some failures end the whole process.
`PROJECT.json` lists these hazards, each at its line, with the properties that
watch it.

**What makes each part correct.**
The plan: ranges partition the file, none is too large to buffer.
The job: what the client gets is the file in order, the end mark only behind all
of it, no chunk lost or fetched twice, no two writers at once, everything ends.
The caches: a record tells the truth about the resource and leads to an answer.
The lifecycle: a stop stops, and the system is left as it was found.
The scheduler: weights are numbers, and a card with free capacity gets work.
The speed test: a measured result is whole, and start-up ends.
The tunnel: nothing that was sent is lost, nothing is left open, and it ends
with its two sides. The certificates: key and certificate belong together,
through any kill; what is trusted is what signs; the proxy comes up with a CA.
The dashboard: it never delays the scheduler.

## 2. Modules

| module | models |
|---|---|
| `ChunkPlan` | the two loops of the plan; `MCChunkPlan` its instances, `ChunkPlanProofs` its theorems |
| `ChunkStream` | what a download promises its client: the pieces of the file in order, the end with the last one |
| `ChunkJob` | `ChunksDeal` behind the plan; implements `ChunkStream`; `MCChunkJob`, `ChunkJobProofs` |
| `ProbeCache` | the probe handler with the caches, their files, stops, kills and restarts; `MCProbeCache`, `ProbeCacheProofs` |
| `Floats` | fractions with NaN and the infinities |
| `Scheduler` | the turn of `PeriodCheck`, snapshots, `getProbeClientP`; `SchedulerProofs` |
| `SpeedTest` | the test of one card: readers, sampler, shared result |
| `Cards` | composes the two: every card is tested, then the turns begin; `MCCards`, `CardsProofs` |
| `Tunnel` | one connection: `handleConnection`, policy, tunnel, the server of `HttpsHandle`; `MCTunnel`, `TunnelProofs` |
| `Certificates` | CA files, trust store, kills and restarts, and `certHandler` with its cache; `CertificatesProofs` |
| `DashboardHub` | `handleMessages`, `serveWs`, `BroadcastUpdate` and their lock |
| `Lifecycle` | main and the goroutines it starts, composed with `DashboardHub`; `LifecycleProofs` |

The modules meet at these values. `Scheduler`'s snapshot is what `ChunkPlan`
starts from: `SharesUsable` says when its total is the positive number that
`ChunkPlan`'s `Sane` asks for, and `ChunkPlanStart` what happens otherwise. The
result of a `SpeedTest` is the argument of `Scheduler`'s `Measure`, its best
chunk size one of `ChunkPlan`'s `BestChunks`. A plan's `LeftStart` and number of
tasks are the constants `LeftStart` and `NumChunks` of `ChunkJob` (`DirectShare`
and `WorkToShare` say what the plan guarantees about them). A job is the answer `"stream"` of
`ProbeCache`, whose size is the plan's `AllSize`; the requests `ProbeCache`
handles are those a connection's server (`Tunnel`) serves. `certHandler` in
`Certificates` is what `Tunnel`'s `Shake` and `ShakeFails` come from. A panic in
a job or in a handshake is the fault `"job"` of `Lifecycle` and a `Crash` of
`ProbeCache`, a nil response in `SpeedTest` (`crashed`) its fault `"card"`; the
shutdown of `Lifecycle` is the sequence `SaveCodesLocal`, `SaveSizesLocal`,
`Exit` of `ProbeCache`.

Definitions whose comment begins with "Mutant of" are not part of a
specification. They are the definition they name with one plausible mistake,
kept to show that a property notices it.

### ChunkPlan

`BeginEntry` is the head of the loop over the snapshot's entries (:113-120),
`SliceFull` and `SliceRest` the branches of the inner loop (:125-140),
`TakeDirect` one turn of `ChunksDirectTaskGet`. Positions are int64: sums wrap
(`Wrap`), with `MaxInt` for the largest. A share is `prob * size / total` on
natural numbers, rounded down; the code computes it in float64, whose rounding
can move a card's boundary by a byte and no more, and no property depends on
where that boundary is. 0/0 and NaN convert to the least int64, which is what
amd64, the target of build.bat, does. `PlanAssumption` says what snapshots are
(running sums of non-negative probabilities) and that a file plus two chunks is
below 2^63; chunks of fewer than three bytes are excluded, since the direct
share counts two bytes too few of each.

### ChunkJob

One goroutine after the other: the watcher (:161-173), the feeder (:187-191),
`chunkWorker` with `downloadOneChunk`, `DirectChunksWok` and its wrapper
(:196-200), the closing goroutine (:206-211), the loop of `ChunksDeal`
(:219-293). A Go `select` with several ready cases picks any of them: each case
is an action. `taskCh` is a pair of counters (its capacity is all tasks, so the
feeder never waits), `resultCh` a sequence of at most `ResultCap`. Receiving
from a closed channel, sending on one, and a nil response are modelled as what
Go does. Points to know:

- `MainWrite` and `MainWritten` are separate, as are `DirectReply` and
  `DirectCopy`: otherwise two writers could not be seen to overlap.
- The deferred cancellations run in one step (`Return`): nothing that observes
  them tells the two apart.
- The retry branch (:238-252) is not modelled. It is taken for errors whose text
  begins with "retryable:", and `downloadOneChunk` returns no such error.
- Writes to the client only fail once it has left. What it receives is recorded
  in `out` up to that moment.
- A client may stay and read no more (`ClientStall`, with every buffer to it
  full). A write to it then waits (`Waits`), since nothing sets a deadline on the
  hijacked connection, until the client leaves or the handler closes it.
  Upstreams can still break a direct copy off meanwhile: the rest of a short body
  may fit in the buffers.
- Of `r.Context()` the model says what `net/http` documents for `Hijacker`: it is
  cancelled if the client left before the hijack, or when the handler returns.

### ProbeCache

One action per access to shared state: the two loads of `URLCheck`, the two
stores of `URLSave`, the two saves of `URLSaveLocal`. The choice between engine,
record and pass-through (:195-225) is the set of guards on `"decide"`. Replies
are a status, a length, `Accept-Ranges` and a `Content-Range`; `RespDeal` and
`ParseContentRange` are the code's functions on them, the latter with its two
results as the code returns them (the total first). A 3xx or any other status is
like 404 for this code. A HEAD request takes the same path as a GET and is not
told apart. An empty answer is what `net/http` sends when a handler writes
nothing: 200 with no body. A resource does not change while the model runs.

### Floats, Scheduler

A float64 is a fraction or one of NaN and the infinities; rounding is left out,
because no property compares two values that could differ by it. A card's
standard speed moves towards a target by an exponential part of the distance
(:334-357): the model takes any integer strictly before the target, or the
speed it was (`Towards`), and `Lost` for the NaN of 0/0. The three weights are
the code's formulas, those of the saturated branch with the mistakes the code
has (:377-388: `Chunks1P` is still 0 there and `Chunks0P` is a weight, not a
speed). Iteration over a Go map is any order, fixed for one snapshot.
Totals are kept as what their readers can tell of them. `PeriodCheck` runs
as one action: it is the only writer of what it changes, and `atomic.Value`
publishes the snapshot in one step. `getProbeClientP` is the set of cards a
random target can end at (`ProbeChoices`).

### SpeedTest, Cards

One action per `Read`, sample and assignment that the other goroutines can see.
The sampler's four assignments to `outputBag` are one step that can be observed
half done (`Outcomes`: every field as it was or as it will be), since
`SpeedTest` waits for the readers only. Whether the measured speed counts as
stable depends on the clock and is left open; how many bytes the sampler has
seen, which decides when it may, is not. `byteList` is kept from its fourth last
entry on, the only ones that are read. `TCPLink` and `BestProbeClientIP` are
written and never read, and left out; `InitNetCardInfo`'s result is the constant
`Cards`.

### Tunnel

One connection from `ReadRequest` to the last close. Data are counted in pieces.
`ReadRequest` takes the request and any pieces already sent behind it into its
`bufio.Reader`; the tunnel later reads from the connection, not from that
reader. A policy key is the Host of the request as it stands: a CONNECT's Host
carries its port. `Resolves` says that `JoinHostPort` of a host that already has
a port is no address. A peer may end its sending side ("half") or be gone;
`io.Copy` ends on either, the proxy tells nobody (no `CloseWrite`). `io.Copy` is
two steps: `Take` reads a piece, `Put` writes it; a peer may stay and stop
reading (`Stall`), and a `Put` for it then waits (`Blocked`). `hostConn` is the
connection `certHandler` dials inside `tlsShake`, open from `CertDial` until its
deferred `Close`, which a failed handshake with the host (`CertFails`) does not
reach. What the server does with requests is `ProbeCache`.

### Certificates

CAs are numbered as they are made. Every file operation of `generateCA` is a
step, with a file torn between open and write; a kill may come between any two,
and a restart finds the files as they are. `InstallCertToSystem` looks for the
CA's name only, and the user may refuse. A deleted folder (build.bat begins with
that) loses both files but not the store. `certHandler` runs for several
handshakes of one host; nothing joins two hosts. `Dial` and `Fetch` are two
steps, since only behind the second one the host's connection is sure to be
closed (`open`). Time and the target's own certificate move independently of all.

### DashboardHub, Lifecycle

`broadcast` has no buffer and `BroadcastUpdate` does not wait, so a packet is
taken only by a `handleMessages` that is waiting for one. That goroutine holds
`clientsMu` from `HubLock` to `HubUnlock`; a write to a page that does not read
waits with no deadline, and `Register` (in `serveWs`) waits for the lock.

The places of main follow its text and then its deferred calls from last to
first. `log.Fatal` and a panic of a goroutine set `process` and leave everything
else as it is. A turn of `PeriodCheck` is `PeriodPublish`, the step in which
the snapshot is stored and the packet offered.

## 3. Runs

Passing runs:

| run | instance | shows |
|---|---|---|
| `ChunkPlan` | two cards with two clients each, every probability 0..2; one card at start; no card; 3 file sizes, 2 chunk sizes per card | `Partition`, `ChunkBounded`, `DirectShare`, `CutFound`, `WorkToShare` |
| `JobErrors` | 2 workers, 5 chunks, 2 direct, `resultCh` of 2, downloads may fail, the client may leave or stop reading, fair | `NoChunkLost`, refinement `StreamSpec`, `Completes` |
| `JobFaults` | 4 chunks, 2 direct, `resultCh` of 1, every reply, the client may leave or stop reading, fair | `WriterExclusion`, `LeftOrder`, `NobodyStuck`, `JobReturns` |
| `CacheSafe` | 2 handlers, each kind of resource, full and ranged requests, kill, 1 restart | `SizeIsTotal`, `EngineGetsLargeFile`, `FailureLeavesNoRecord`, `SizeHasCode` |
| `Cards` | 2 cards, 2 readers, requests may fail, loads that leave capacity and one that does not, fair | `SharesUsable`, `SpareCardServes`, `StandardInRange`, `BestChunkLarge`, `CompleteWhenStopped`, `StartUpEnds` |
| `Tunnel` | every request to a listed or unlisted host, 3 pieces either way, either side may stop reading, the network may fail, fair | `NoTruncation`, `NothingLeftOpen`, `TunnelEnds` |
| `Certificates` | 2 handshakes, 2 kills at any point, a deleted folder, time 0..2 | `PairMatches`, `TrustedSigns`, `UsableUnlessBroken` |
| `Lifecycle` | every fault but a failing last command, 2 connections, 2 pages, fair | `QuietWhileSaving`, `OneWriter`, `StopWithTraffic`, `PeriodHears`, `NewPageServed` |

Each also checks its module's `TypeOK` (`JobFaults` leaves that to `JobErrors`
and to the proof). Runs that end in a counterexample, each of which refutes a
line of the code's own comments or README (quoted in `PROJECT.json`, "findings"):

| run | property | what the code does |
|---|---|---|
| `ChunkPlanStart` | `WithinFile` | with two cards, a download before the first `PeriodCheck` slices past the file without end; so does one after a card was found full with probes alone, whose weights are NaN |
| `JobDirectCut` | `CompleteWhenEnded` | a body cut in the direct phase is followed by the later chunks and the end mark; their bytes fill up the size it was declared with |
| `JobAbort` | `NoPanic` | a failed chunk ends in a nil dereference and takes the process down |
| `TunnelPlain` | `RequestForwarded` | of a plain HTTP request the tunnel forwards what follows the request, not the request |

The same models show more with other constants or properties:

- `JobErrors` with `LeftStart` = `NumChunks`: `Completes` and `NobodyStuck`
  fail, since the end of the stream is only sent behind a prefetched chunk
  (:288). `ChunkPlan` with a file of 25 bytes, no more than four of its chunks:
  `WorkToShare` fails, so a plan can be like that. The code sets no upper limit
  to the best chunk a speed test reports.
- `JobAbort` with `FairSpec`, six chunks and `ResultQueueCloses`: workers wait
  for ever on a full `resultCh` once main has returned.
- `JobAbort` with `ClientLeaves` = TRUE also panics with "send on closed
  channel": the closing goroutine waits for the workers, not for the feeder (:209).
- `CacheSafe` with `LargeFileServed`: after a ranged request a large file is
  answered by nothing. With two handlers and no ranged requests a request between
  the two stores of another finds a large size with code 0 and is answered by
  nothing. With one handler, no ranged requests and a restart: the codes are
  saved before the sizes, so a URL recorded in between has a size and no code
  after the restart, and stays unanswerable. These three are all: without any
  of them the property is a theorem (`LargeFilesServedAlone`).
- `Lifecycle` with `StopCloses`: a stop needs one more connection to take
  effect, since `Accept` does not look at the context (and waits for nothing
  else: `StopWaitsForAccept`). With `ProxyRestored`
  and the fault `"dashboard"` or `"card"`: the process dies with the system proxy on.
- `Tunnel` with `PassThroughServed`: a host listed by its name is not found
  under the Host of a CONNECT, which carries a port; listed with the port it is
  found, and the address built from it cannot be dialled.
- `Tunnel` with `HostConnClosed`, and `Certificates` with `HostConnsClosed`:
  `certHandler` defers its two `Close` calls behind the handshake with the host
  (:144-156), so a handshake that fails, or shows no certificate, leaves the
  dialled connection open. Go closes it when the garbage collector finds it
  unreachable, which no code here waits for. It is the only connection left
  open, and only then: `NothingLeftOpen`.
- `Certificates` with `NewestCached`: of two handshakes that miss at once, the
  one that fetched first may store last, and puts an older certificate over a
  renewed one. `GetTls` compares times, so the older one is used until it expires.
- `Certificates` with `CAUsable`: a kill between the opening of rootCA.crt and
  its writing leaves a file that no later start replaces; the first handshake of
  each then panics. No other kill does that (`UsableUnlessBroken`), and only
  deleting the folder ends it (`NoRepair`).

Found while reading, with no state to check: `PolicyConfig` names the third list
`ActionIso` where HostPolicy.json has `ActionIsolate`, and `LoadPolicies` uses
neither; `Policies` of `Tunnel` therefore has no isolated hosts.

**Why the bounds are enough.** The plan's sizes are a few multiples of its
chunk sizes (5 and 7 of 60 to 67 bytes, which is what `WorkToShare` calls a
large file), so that a card gets no, one, two or
more full chunks, with and without a rest, and `MaxInt` = 127 is reached by the
wrapped positions only; `MaxTasks` = 20 is above what any of the passing
instances needs (`CutFound` and `Partition` would otherwise not be reached, as
the loops would stop there) and only cuts the runaway loop of `ChunkPlanStart`.
Two workers and two or three prefetched chunks give every order of completion and
a worker that must wait for a `resultCh` smaller than the results under way; two
direct chunks give a direct phase with a middle. Two handlers give every
interleaving of two lookups or records of one URL; no property relates two URLs.
One restart suffices for what a file can do to the next process. `CacheSafe`
uses the symmetry of the handlers (they run the same code and the run checks
safety only). It has one URL, which names any of the resources: all the code
does is by URL.
`Cards` needs two cards for a snapshot with one full and one free, two readers
for one that ends while the other goes on (the code has three), a download of
two units, so that the result can be measured on the last one (`MinBytes` =
`MaxBytes` = 2), and three samples to see a current speed (`MinSamples`; ten in
the code); speeds are small numbers with the order the code's averages have
(`SpeedTestAssumption`). The number of turns is not bounded. `Tunnel`'s three
pieces are one read with the request, one copied and one under way. Two kills
are one in the first start and one in the next; time 2 lets a certificate be
fetched, renewed and expire between two handshakes. `MaxConns` = 2 leaves a
connection before and after a stop, two pages are one that stalls and one that
waits. The code's numbers, 5 workers and a queue of 10, 3 readers, any pages and
handshakes, only add symmetric copies; the theorems below cover all of them.

**Fairness.** Go runs every goroutine that can run, so each goroutine is weakly
fair by itself (`LocalFairness`; `Joined` and each copy of `Tunnel`, whose
handshakes and dialling nothing is assumed of). `FairSpec` adds that an upstream
answers in the end, with data or an error; the code has no timeout for it
(`Timeout: 0`), and a job whose upstream is silent does not notice that its
client has left. Writes to a client or target that stays and does not read are
not fair: they have no deadline, neither behind `Hijack` nor in the tunnel, so
their actions are disabled while that lasts (`Waits`, `Blocked`), the upstream's
fairness does not count then (`~Waits /\ DirectUpstream`), and the properties
name that state as their exception.
`MainSpin`, the busy loop while `DirectCtx` is done
and the next chunk is missing, changes nothing and therefore satisfies no
fairness; the select picks among ready cases at random, so it does not starve
the others. The readers of a speed test are fair because `probeClient` limits a
request with its body to 30 s; of the sampler nothing is assumed, it may never
see a stable speed. A new page is strongly fair in taking `clientsMu`, which
`handleMessages` takes again and again: a `sync.Mutex` goes into its starvation
mode and is handed to who has waited a millisecond. Clients, targets, pages and
users are never assumed to act: `StopWithTraffic` therefore assumes the
connection it needs, `TunnelEnds` that both sides have ended and no write waits
for ever for one that does not read, `JobReturns` the latter of its client,
`Completes` a client that stays and reads, `NewPageServed` that no page stalls, and `StopCloses` without such a condition fails.

## 4. Proofs

Every invariant and action property of a passing run is a theorem, for every
value of the constants its module's assumption admits (`CutFound`, `WorkToShare`
and `NobodyStuck` under a condition named below). Each theorem follows from the
invariance of a stronger formula, because by itself the property does not survive
a step. Behind most liveness properties there are two facts that need no fairness
and are proved too: nothing stands still where it should go on, and nothing goes
on for ever.

| module | theorems | inductive invariant |
|---|---|---|
| `ChunkPlanProofs` | `PlanTypes`, `PlanPartitions`, `PlanChunksBounded`, `PlanEmptyRanges`, `PlanDirectShare`, `PlanCutFails`, `PlanCutFound`, `PlanSharesWork`, `PlanLoopsEnd` | `SlicingInv`, `PlanInv`, `Packed`, `Owned` |
| `ChunkJobProofs` | `JobTypes`, `JobExclusion`, `JobOrder`, `JobLosesNothing`, `JobImplementsStream`, `JobNeverStuck`, `JobCompletesAtRest`, `JobAlwaysEnds` | `JobInv`, `OrderInv`, `LostInv`, `StreamInv`, `FlowInv`, `CleanInv` |
| `ProbeCacheProofs` | `CacheTypesHold`, `SizesAreTotals`, `EngineGetsTrueSize`, `FailuresUnrecorded`, `SizesHaveCodes`, `LargeFilesServedAlone` | `CacheInv`, `AloneInv` |
| `CardsProofs` (on `SchedulerProofs`) | `CardsTypes`, `ChunkSizesLarge`, `ResultsComplete`, `StandardsInRange`, `SharesAreUsable`, `SpareCardsServe`, `StartUpGoesOn` | `TestInv`, `SchedInv`, `Fresh` |
| `TunnelProofs` | `TunnelTypes`, `TunnelComplete`, `NothingStaysOpen`, `CopiesBeforeClose`, `RestHoldsNothingBack`, `ConnectionAlwaysEnds` | `TunnelInv` |
| `CertificatesProofs` | `CertificatesTypes`, `KeyMatches`, `TrustedCASigns`, `OnlyBrokenIsUnusable`, `CAKept`, `NoRepair` | `CertInv`, `Served` |
| `LifecycleProofs` | `LifeTypes`, `QuietShutdown`, `PagesOneWriter`, `StopWaitsForAccept`, `CleanReturn`, `StopAdvances` | `LifeInv`, `StopInv` |

**Assumptions.** Those of the modules. Three are there for the proofs: `URLs # {}`
(`CacheAssumption`), and `IsFiniteSet` of `Workers` (`JobAssumption`, since
`NoChunkLost` and `StepsLeft` count) and of `Readers` (`SpeedTestAssumption`).
Some theorems have a condition of their own:

- `JobImplementsStream`: `PlainReplies`. Upstreams send the range asked for or
  fail, the direct ones do not break off, and one chunk at least is prefetched.
  Without the last a job never sends its end; without the others the client is
  sent something else than the file (`JobDirectCut`).
- `JobNeverStuck`: `LeftStart < NumChunks`, without which it is false.
  `PlanSharesWork` proves it of the plan, under `MoreThanDirect(b, c)`: chunk
  sizes lie between `b` and `c`, and the file outweighs its direct share, one
  largest chunk and what the direct share is counted short by. The engine's
  files (100 MB and more) do that for chunks of 5 to 30 MB. `PlanCutFound` needs
  the weaker `LargeFiles(b)`. `MCChunkPlan` assumes both of its instances, so TLC
  evaluates them.
- `JobCompletesAtRest`: `Undisturbed`. No failing download, no client that
  leaves or stops reading, at least one worker and one chunk to prefetch.
- `LargeFilesServedAlone`: `Alone`. One handler, no ranged requests, no restart;
  section 3 has a counterexample for each of the three.

**Arguments.**

- `SlicingInv`: `Partition` says nothing of where the next range begins, nor
  that the current entry's end is inside the file and that no sum wraps. The
  invariant adds that `startPos` = `endPos` is the byte behind the last task, at
  most one past `limit`, and that `limit` stays below the file's end. The
  arithmetic is in lemmas: `ShareFits` (an entry's share, added to the shares
  before it, stays within the file: from the running sums of `IsSnapshot`),
  `NoWrap`, `BestFacts`, `AppendNumbered`. `PlanInv` adds `ZeroShares` (an empty
  range comes from an empty share), `Bounded`, and `Counted`: `add` is the end of
  the last chunk taken less two bytes for each, which gives both bounds of
  `DirectShare`.
- `PlanCutFails`: the error return of `ChunksDirectTaskGet` needs a file no
  larger than the direct share and two bytes per chunk. `Packed` bounds the
  number of chunks (each full one takes `b` bytes of the file, each entry adds
  one rest), `RestOutweighs` is the arithmetic that makes the two contradict:
  `PlanCutFound`. `PlanSharesWork` adds that the last direct chunk has less than
  two best sizes of its card, which `Owned` says is a card of the snapshot.
- `JobInv`: `WriterExclusion` is about two program counters; why it holds is in
  `Signals`: while main runs, `DirectCtx` is done only if the direct goroutine
  has exited, or if the request was cancelled before the hijack, and then that
  goroutine never starts to copy. `OrderInv` says where the two runs of the
  stream meet and that the second begins only when the direct goroutine has
  written its last; `StreamInv` that, with plain replies and a client that
  is still there, the length of what was sent is `dnext` and what main has written.
- `LostInv`: `NoChunkLost` itself, and that a worker that is not busy holds no
  chunk. Each step moves at most one chunk, from one place to the next; the
  lemmas `TakeMoves`, `SendMoves`, `ReceiveMoves` and `WrittenMoves` are those
  four moves. That a result received replaces none in `pending` follows from the
  count itself. `AppendCount` and `TailCount` count a queue's entries.
- `NobodyStuck`: `FlowInv` says that whoever is over has told the others: a
  watcher that no longer waits has cancelled `jobCtx`, a direct goroutine that
  has exited has cancelled `DirectCtx`. A job at rest in which main still selects
  then has `DirectCtx` done and nothing in a queue or in a worker's hands, so by
  `NoChunkLost` the next chunk is in `pending` (`NextAtHand`) and main may write
  it, a contradiction; what is left are the jobs that have returned and those in
  a write that waits for the client. `RestIsComplete` adds `CleanInv`: undisturbed, the loop is
  left behind the last chunk only.
- `JobEnds`: `StepsLeft` sums what the feeder, the workers with their queues, the
  direct goroutine, main and the events that happen once still have to do. The
  invariants make it a natural number; `FeedFalls`, `WorkerFalls`, `DirectFalls`,
  `MainFalls` and `EventsOnly` show of each action that one part falls and none
  rises. Only `MainSpin` changes nothing.
- `CacheInv`: a reply fits its request (`ReplyFits`), what a handler saw is true
  (`SeenTrue`), nothing is seen before the lookup (`Looked`), between its two
  stores a handler still has something to record (`Recording`), and a size
  without a code has a handler that is about to store it (`CodePending`).
  `AloneInv`: without ranged requests every recorded code is 200, and a lone
  handler that finds a size also finds its code, since nobody is between the two
  stores.
- `TestInv`: the result is written before the context is cancelled, and a reader
  is stopped only by that. `SchedInv`: the snapshot's weights are those of the
  current speeds; a card's speed stays between the measured bounds because each
  target is one of them. `SpareCard` (in `SchedulerProofs`) is the arithmetic of
  the weights: positive numbers, decreasing in the client's own load. `Fresh`:
  between two tests every reader is at its start, which is why a test's length is
  the same for each card and `StartUpLeft` falls when one begins.
- `TunnelInv`: what is open at each place of the handler (`Holds`), and why a
  copy has ended (`Ended`); of the connection `certHandler` dialled, that only
  `CertFails` keeps it beyond its place, with the client's closed. The same invariant bounds `StepsLeft` and says what a
  connection at rest can still be waiting for.
- `CertInv`: the certificate's file is begun only when the key's is complete, and
  never written again (`OnDisk`); what is in memory is one of the files or the CA
  just made (`Memory`). `Served`: whoever comes up beside a whole certificate has
  loaded it, which is `UsableUnlessBroken`.
- `LifeInv`: behind `wg.Wait` both loops have returned, and neither begins anew.
  `StopInv`: a stop is requested only when everything has been started, the period
  loop returns for no other reason, and the deferred calls run in their order.

**Only model-checked.** What needs fairness is out of the prover's reach and
stays with TLC: `Completes`, `JobReturns`, `StartUpEnds`, `TunnelEnds`,
`StopWithTraffic`, `PeriodHears`, `NewPageServed`. What the fairness is applied
to is proved, but for `NewPageServed`: `NobodyStuck`, `RestIsComplete` and
`JobEnds` for a job, `NothingHeldBack` and `ConnectionEnds` for a connection,
`OnlyAcceptWaits` and `StopComesNearer` for a stop, `StartUpAdvances` for the
start-up (that its readers can always go on is left to TLC), `LoopsEnd` for the
plan. `ENABLED` cannot be proved about either, so an `AtRest` is the negation of
the actions' guards, written out beside them (of a direct copy whose write
waits, that it may still break off is left aside); that it says the same as `ENABLED`
was compared with TLC on the instances of section 3, not proved.

## 5. Plan

All components of section 1 are modelled. What would come next, in this order:
`HandReq` of one connection with several requests (keep-alive) in `Tunnel`
composed with `ProbeCache`; a `ChunkJob` whose workers use `Scheduler`'s cards,
for what a job does to the next snapshot; file errors of `generateCA` and
`URLSaveLocal`, which are printed and dropped and leave what a kill leaves.

**Not modelled**, with the reason:

- The HTML page of `serveHome`, console output, the contents of a dashboard
  packet: text.
- `TCPLink`'s delay and `BestProbeClientIP`: written, never read.
- Byte counters as numbers: their readers get a load from `Loads`.
- `InitNetCardInfo`: what the system answers is the constant `Cards`.
- Handshakes without a server name: refused before any state is touched.
- The retry branch of `ChunksDeal` (:238-252): unreachable, see above.
- Signing, hashing and parsing of certificates: pure functions of a library.
