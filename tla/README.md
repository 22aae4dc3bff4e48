# Fetchmark: specifications

Fetchmark is a search service: an API that answers queries by asking several
providers and fetching what they find, a crawler that feeds a local corpus
politely, tools that publish index packs and tools that install them, and a
federation of trusted peers. This directory holds TLA+ modules of the parts
whose correctness depends on the order of events, TLC configurations that check
them on small instances, and theorems about them checked by TLAPS.

Everything is translated from the source. `PROJECT.json` gives for each
definition the lines it stands for, for each run what it shows, for each
property a plausible mistake in the code that the run would catch, and the
hazards at their lines with the properties that cover them.

Contents: [1 Inventory](#1-inventory) · [2 Modules](#2-modules-and-the-code) ·
[3 Runs](#3-runs) · [4 Proofs](#4-proofs) · [5 Not modelled](#5-not-modelled) ·
[6 Plan](#6-plan)

## 1. Inventory

| Component (source) | State it keeps | What is hard | What makes it correct |
|---|---|---|---|
| **Crawl frontier** `adapters/crawlfrontier` | bbolt file: page entries, discovery sources, ownership memberships, link policies, due and lease indexes, host dispatch state, lease sequence | stale workers, expiry, restart, ownership through a cyclic graph, redundant indexes, capacities tested after the writes | an outcome lands only under the lease in force; the schedule is what the ownership graph says; any committed file can be opened again; hosts get their rest |
| **Focused crawl** `core/focusedcrawl`, `cmd/fetchmark-crawl` | one run: stage, job, budgets; the configuration, edited between runs | interruption at any call, narrowed and widened configurations, waiting on hosts | leases do not outlive the run; runs end; configuration edits do what the documents say |
| **Discovery cache** `adapters/discoverycache` | entries with fresh and stale deadlines, recency list, byte total, in-flight map | callers leaving while others join, cancellation after unlock, detached refreshes, bounded slots | one caller never costs another its answer; slots come back; failures keep what is cached; totals are exact |
| **Page cache, fetch pipeline** `adapters/cache`, `core/pipeline/pipeline.go` | memory or Redis entries, fill locks, per-request byte budget, node slots | lock expiry under its holder, budgets claimed before and settled after a fetch, every early return | what a request is charged is what it used; locks and slots are their holders' |
| **Search request** `core/pipeline/expansion.go`, `dedupe.go` | lanes, candidates, verdict | lanes in parallel, cancellation, fusion over positions | verdict and results are true to what the lanes found |
| **SearXNG pool** `adapters/searxng` | circuits and streaks per instance | order taken under the lock and used after it | a search is told what its instances said; no lockout is forever |
| **Provider clients** (`arxiv`, `crossref`, `github`, `mwmbl`, `pubmed`, `scrapling`, `stackexchange`, `wiby`, `wikipedia`, `yacy`), `providerbudget` | slots, token buckets, cooldowns, recent queries | slot, cooldown and token are three waits; a cancelled wait gives back | rates and cooldowns are kept; a verdict claims no more than the answer |
| **Page fetching** `adapters/fetcher`, `adapters/robots` | host gates, robots cache and singleflight | redirects re-enter other hosts' gates, gate eviction, retries | hosts are spared; only allowed pages in scope are requested |
| **Federation** `core/federation`, `federationapi`, `federationpeer` | nonces, slots, trust document | repeated, late messages; a restart; a clock that is set | a signed request is executed at most once; an answer belongs to its question |
| **Rate limiter** `api/middleware` | Redis and local token buckets | lost answers, expiry of buckets, fallback | the limit over any period |
| **Local corpus** `adapters/localartifact`, `adapters/bleveindex`, `core/pipeline/curation.go` | bodies, pointers, manifests, tombstones; index records; quarantine flag | two stores written one after the other, crash in between, out-of-order observations | what was hidden stays hidden; the tally is what is on disk |
| **Pack evidence gate** `adapters/packevidencegate` and its client | bbolt file: host records, two schedules, counters | lost answers and retries, shortened leases, pruning | global and per-host bounds; minimum intervals survive pruning |
| **Evidence collection** `adapters/packevidence` | shards, bundles, locks, staging directories | workers answer out of order, inputs are replaced, kills | a bundle tells of every row of its input once |
| **Pack building** `adapters/openpackbuilder`, `core/indexpackselection` | bundles, staging | permissions that run out while building; deltas | what is distributed was permitted and is verified |
| **TUF publishing** `adapters/tufrepository` | identities, roots, staged generations, mirror directory | offline ceremony of several hands; file-by-file activation | new roots have four hands on them; the head never names what is missing |
| **Pack channel** `adapters/tufchannel`, `cmd/fetchmark-pack` | trusted metadata directory, downloads, candidates | copies of any age, crash between roles, two commands | nothing withdrawn comes back |
| **Installed packs, registry** `adapters/openpackindex`, `openpackregistryfile`, `core/openpackregistry` | objects by digest, registry file, rollback archive | kills, concurrent operators and editors, power failures | an object is exactly its manifest's rows; the registry moves by valid transitions |
| **Server process** `cmd/fetchmark` | what is open, listeners, sweeper | failure half way through the start, shutdown with a time limit | all that was opened is closed once, after its users |
| API handlers, pure search and ranking helpers, configuration, evaluation | none over time | — | translation of data; see §5 |

How they interact: `fetchmark-crawl` opens the frontier (one process at a time,
by the file lock), synchronises the configuration into it, polls due discovery
sources and applies their documents, then leases due pages and hands each to the
server's admission API, whose verdict and links complete the lease. The server's
search request asks its lanes — provider clients behind budgets, the SearXNG
pool, federated peers, installed packs, the local index — through the discovery
cache, fetches the pages they name through gates and robots checks into the page
cache, and admits what it may into the local corpus. The publisher's evidence
commands ask the evidence gate for permission before each dispatch; packs built
from their candidates are staged, activated on a mirror, and followed by
consumers, who fetch, install, and bind them in the registry the server reads.
Each of the parts keeps its own state behind its own lock, file lock or
transaction; they meet only in calls, which is why most modules stand by
themselves. Where two parts do share state — runs and the frontier; index,
artifacts and quarantine of one URL; fetches and the page cache — one module has
both.

## 2. Modules and the code

| Module | Models | Composition |
|---|---|---|
| `LeaseLedger` | abstract promise of the frontier: numbered leases, never reused; results move forward | — |
| `CrawlFrontier` | the frontier store, one action per transaction | implements `LeaseLedger` (`Ledger == INSTANCE … WITH`) |
| `CrawlRun` | successive `fetchmark-crawl` processes; each store step is the `CrawlFrontier` action the code calls | extends `CrawlFrontier` |
| `DiscoveryCache` | the discovery cache, one action per critical section or unlocked step | — |
| `ArtifactFetch` | fetching the URLs of requests through the shared page cache and its fill locks | — |
| `SearxPool` | the SearXNG instances' circuits | — |
| `SearchRequest` | lanes, fusion, deduplication, verdict of one search | — |
| `PackBuild` | builders, delta builders and the verifier of bundles | — |
| `EvidenceGate` | the gate's store, its workers and the requests between them | — |
| `EvidenceFiles` | partition, collect and merge | — |
| `PackChannel` | the consumer's commands on a pack channel | — |
| `ArtifactStore` | the local artifact store with failures, crashes and reopening | — |
| `RegistryActivation` | the compare-and-swap of the registry file with its rollback archive | — |
| `TufRepository` | root rotation, staging, activation on a mirror, consumers | — |
| `PackInstall` | installation of snapshots and deltas, serving | — |
| `LocalCorpus` | one URL in index and artifact store, with requests, searches and restarts | — |
| `RootCeremony` | keys, candidates, contributions, assembly, applying | — |
| `Providers` | eleven search clients behind their gate | — |
| `Federation` | signed searches between instances | — |
| `PageFetch` | host gates, redirects, retries, robots | — |
| `RateLimit` | one API key's buckets | — |
| `ServerRun` | the process from start to exit | — |
| `MCFrontierGraph`, `MCRunGraph`, `MCCrawlRun`, `MCDiscoveryCache`, `MCServices`, `MCPackEvidence`, `MCEvidenceFiles`, `MCNetwork`, `MCStores`, `MCTufRepository` | small constants for TLC | extend the above |
| `LeaseLedger_proofs`, `CrawlFrontier_proofs`, `CrawlRun_proofs`, `Services_proofs`, `PackEvidence_proofs`, `ArtifactStore_proofs`, `Stores_proofs`, `Network_proofs` | theorems | extend what they are about |

Conventions. A transaction of a database, or a critical section, is one action;
every gap between two of them, and between an answer and the lock, is a place
where others may step. An operation that returns an error and writes nothing is
a stuttering step and is left out, except where the caller's state changes. For
a directory there is a pair of variables — what a reader sees and what a power
failure would leave — where the code's syncs matter. Variables marked *history*
are read by no guard.

### CrawlFrontier

A bbolt transaction is atomic and durable. Workers are kept apart from the
store: `work[w]` is the worker's *copy* of its lease, which goes stale while it
sleeps and fetches.

* `entries`, `sources`: the record buckets as total functions with an `absent`
  state. URLs are numbers in key order, so that "the first due key" is a
  minimum. `gen` is the lease generation, `until` the lease expiry, `due`
  the next eligible time; 0 is the zero time.
* `pageOf`, `childOf`, `links`: the membership buckets. Each is stored by the
  code in both directions and written together; the pair is one relation here.
* `due`, `leases`, `srcDue`, `srcLeases`, `refs`: the redundant indexes, kept as
  *separate variables* and updated where the code updates them, incrementally
  or by rebuilding. That they agree with the records is checked, not assumed.
* `hosts`: last dispatch and interval per authority. `seq`: the lease sequence.
* `result` and `dispatch` are history: the generation whose outcome was
  recorded last, and the last dispatch ever granted.
* `Reconcile` is `reconcileDiscoveryState`: reachability by levels (`Within`),
  then sources, then pages, then every index. `completeDiscoverySource` calls
  it with the *next eligible* time rather than the current one; so does the
  model.
* `Reopen` is a restart: `OpenAccepts` is what `Open` insists on before it uses
  the file, and is an invariant here.

Abstracted: URLs and keys, HTTP validators, attempt limits of sources, source
kinds, the by-job due index (a filter here), the text of reasons except
`page ownership removed`, which the code reads back (`orphaned`).

### CrawlRun

`run.stage` is where the process is: `seeds`, `policy`, `roots` (first
synchronisation), `poll` and its item stages, `seedsAgain`, `policyAgain`, then
`admit` and its item stages, and `down`. Each action either is a frontier
action followed by a change of stage or leaves the store alone. `run.exit` says
how the last run ended: `ok`; `interrupted` (the context was cancelled, the
lease is given back); `stopped` (a fatal admission answer); `refused` (the store
returned an error); `policy` (a source without an applicable policy); `killed`.
`run.mark` is the sequence when the run started, so that its own leases can be
told from older ones. `Start(c)` is a restart with a possibly edited
configuration that satisfies `Config.validate` (`Valid`). What a fetch returns
is any set of pages and children that passes the code's own filter (`Eligible`,
`PageLinks`); a 304 is possible only when a snapshot exists. One worker stands
for the process because the file lock admits one.

### DiscoveryCache

A caller's phases are `idle`, `looking` (has read the clock, has not the lock),
`waiting`, `leaving` (woken, has not re-taken the lock), `cancelling` (has
unregistered the fill, has not cancelled it) and the overload path's direct
call. A flight's phases are `calling`, `answered` (not yet stored), `stored`
(not yet published) and `done`. The sequence numbers that order recency are a
sequence of keys; an uncacheable outcome (failure, empty, partial, oversized) is
size 0. An abandoned fill leaves the map at once and runs on until its provider
returns, beside its replacement: `FM_DISCOVERY_MAX_INFLIGHT` bounds *registered*
fills (`cache.go:239,310-322`; README.md:196 speaks of detached fills).

### ArtifactFetch, SearxPool, SearchRequest, PackBuild

* `ArtifactFetch`: one worker per URL of a request walks through `processOne`:
  cache, slot, fill lock, cache again, byte claim, fetch, store, upgrade to a
  rendered page. `fillLock[key]` is the holder of the Redis token; it may expire
  under its holder, which then finds a token that is not its own when it
  releases. A grant whose answer is lost leaves a token nobody believes in, a
  release that fails or times out (`cache.go:346-350`) and a server that dies
  leave theirs; all stay until they expire. `source` is the request's account,
  `consumed` what it really used; the documents that providers send along are
  charged to it too (`options.documents`), one that does not fit with all that
  was left. One server serves a request, and a server that died stays away.
  The configuration requires positive budgets, so flight keys contain the
  request id and callers of one process are never coalesced, although
  `docs/dev/staticvar/fetchmark/cache.md:32-33` says so: `Cache.Do` is left out.
  Some early returns (a fast path whose slot is refused among them) leave a
  result with neither content nor an unsupported mark.
* `SearxPool`: `healthyOrder`, `nextRetryAfter`, `markDown`, `markUp` and the
  quality record are one step each; an instance is read page by page, and what a
  search is told follows from the hits and the classes of the pages it heard. A
  slow success begun before a failure that asked for a Retry-After clears that
  window when it arrives.
* `SearchRequest`: `request` is what is asked and the sources planned for it;
  `Lanes` are the ones `basicLanes` or `advancedLanes` makes of them. Outcomes
  are summarised by lane position, and `report` says of each lane what the API
  answers with. Fetched texts, near-duplicate pairs and scores are given by
  constants; a provider of `Documenting` brings its document along.
* `PackBuild`: `Chosen` says which rows of the stream a build takes, by the
  decisions, exclusions, repeated URLs, hosts and the pack's size. Time passes
  while it works, and permissions given by the stream run out. A delta verifies
  its parent snapshot first and is tried on it before it is published; `bundle`
  keeps what the signed reports account for. The date `created_at` is any the
  specification gives; a build goes on if it is within the skew of its clock.
  Two kinds of snapshots are published that the verifier then refuses
  (`verify.go:169-181`), and `BundlesSound` excepts them by `DatedInTime`: one
  dated ahead whose evidence ends before its `created_at`, and one whose
  evidence was completed more than the skew after its `created_at`. For the
  builder compares the completion, which the clock of another machine gave, with
  its own clock (`builder.go:508-511`), the verifier with the date; with 15
  minutes of skew both ways they may be half an hour apart.

### EvidenceGate, EvidenceFiles, PackChannel

* `EvidenceGate`: `Acquire`, `RecordResponse` and `Release` are one transaction
  and one action each. `Acquire` first reaps every lapsed lease and prunes one
  batch (`Swept`), then decides on what is left; an operation that returns an
  error writes nothing, its sweep included, and the outcomes of `Acquire` are
  `AcquireFails`, `GrantAgain`, `Deny` and `Grant`. `hosts`, `expiries`,
  `prunes`, `active` and `generation` are kept apart and updated where the code
  updates them. `work[w]` is one `coordinatedRoundTrip`; a grant is sent no
  later than `Slack <= ControlGrace` ticks after it was made, which is what the
  grace of the policy is for. `net` holds the requests not yet served: served
  late (`Abandon`), never (`Lost`), or with an unheard answer (`Answer`).
* `EvidenceFiles`: a command claims a lock file, works in a staging directory
  and renames it; a kill leaves both to the operator. Observers work
  concurrently and the writer orders their answers. A merge appends the verdicts
  of one shard after the other (`got`), remembers what it read (`sources`), and
  reads all of it a second time before it renames.
* `PackChannel`: `state` and `stateDisk` are the versions of the three roles in
  memory of the directory and as synced. Expired metadata is a refresh that
  fails; shards are content-addressed and stay out; the parent of a delta is
  kept by the operators.

### ArtifactStore, LocalCorpus

* `ArtifactStore`: a mutex serialises operations and a file lock the processes,
  so each operation takes the disk to what it leaves when it is done, when one
  of its steps fails, or when the process dies in it. `unsynced` is what was
  removed and may come back with a power failure until the directory is next
  synced. When the sync of a tombstone fails, `revokeArchive` purges the bodies
  all the same, although the tombstone is not known to be durable (`archive.go`
  says "durable before any purge"): the model has that branch.
* `LocalCorpus`: a request admits or takes down one URL in artifact store and
  index, one after the other. Curated and archive modes hold the URL's lock;
  personal mode does not and forgets pages after `MaxAge`. A failed admission
  quarantines the lane for the life of the process (`quarantined`); the flag
  does not survive a restart, whatever the comment at `curation.go:305` hopes.
  Admitting a URL that was taken down makes `failClosed`'s tombstones stale and
  so quarantines the whole lane.

### RegistryActivation, TufRepository, PackInstall, RootCeremony

* `RegistryActivation`: prepare (rollback archive, durably), check, rename,
  sync, each a step of `Activate` under the file lock, with retries that find
  their own move done. Editors of the file take no lock: one between the last
  read and the rename loses its edit, which ADR 0016 accepts.
  `recoverAlreadyApplied` does not sync.
* `TufRepository`: versioned files one by one, the timestamp last. Consumers
  read meanwhile. A power failure may undo renames not yet synced, the head's
  among them; of several roots in one activation a prefix persists. A consumer
  that accepts a head before its rename is durable may see it go back: left out.
* `PackInstall`: rows stream through verification into a staging directory that
  is renamed without replacing. `MaxInstallShards` is 1 in production.
* `RootCeremony`: every command is given whatever artifacts its caller has. No
  command keeps old custodians from signing two successors, and
  `MaxRootRotations` is only checked by the last one: `AssembledApplies` says
  when what was assembled can be applied.

### Providers, Federation, PageFetch, RateLimit, ServerRun

* `Providers`: one client per behaviour, the same steps in each: cooldown, slot,
  cooldown, token, cooldown, request. GitHub and PubMed tell an authoritative
  empty result without a request, and in a cooldown too, when the query's domain
  filter leaves out the one host their results are of (`ExcludedByDomain`);
  `VerdictsHold` tells that verdict from those of answers. Assumed: no whole interval passes between
  a token and its request. Not modelled: that `crossref`, `mwmbl`, `wiby` and
  `wikipedia` let their transport follow redirects beyond the budget, and that
  `Reservation.Cancel` of `x/time/rate` may restore less than was taken.
* `Federation`: `wall` is the clock of the askers, the listener's drifts by up
  to `MaxDrift` and may be set; a restart forgets all nonces with what they
  guarded. `exportURLs` may drop all hits of a healthy search.
* `PageFetch`: `inside` is the set of places taken in gates. A 304 that follows
  a redirect back to the first URL is accepted although its validators were
  stripped; a robots request that fails counts as a refusal (`robots.go:88`). A
  fetch keeps its place while it waits for `robots.txt`, but the request for it,
  its redirects and the pipeline's own check (`pipeline.go:541`) take no gate
  and are not counted by `HostsSpared`.
* `RateLimit`: `shared` with its expiry, `buckets` with none; a request that
  Redis grants and the local bucket refuses costs a shared token, as does a call
  whose answer is lost. `losses` counts how often Redis lost its contents, not
  the calls that failed: these grant nothing beyond the limit. `granted` and
  `admitted` are cumulative history.
* `ServerRun`: a listener that fails ends the run without `Shutdown`, so its
  handlers may still run while stores close (`Drained` excepts that); a second
  signal is swallowed; hijacked tunnels are not waited for.

## 3. Runs

Every passing run explores its instance to the end, within five minutes on two
cores.

| Run | Instance | Checked |
|---|---|---|
| `frontier` | two workers and two pages with expiry, pruning, reopening; a root and two nested sources that may name each other, at the limits; three pages that link to each other under changing policies | `TypeOK`, `HoldersDistinct`, `AllReopen`, `ScheduleFollowsOwnership`, `LedgerRefined`, `OwnedStaysActive` |
| `run_graph` | runs over a root and a child, and runs over seeds and links, under edited configurations | `LeasesGivenBack` |
| `run_progress` | two jobs with different intervals on one host, under fairness | `RunTypeOK`, `WorksOnItsLease`, `RunsEnd`, `PoliteDispatch` |
| `cache_sharing` | one query, two callers, two fills, one slot, under fairness | `OthersUndisturbed`, `RegisteredWhileWanted`, `EveryoneServed` |
| `services` | cache limits; two requests over one Redis, with documents of providers and a server that may die; a pool of two; four search requests, one without a source | `ServicesTypeOK`, `CacheAccounted`, `FetchAccounts`, `PoolHonest`, `AnswersTrue` |
| `evidence` | the gate with two workers, two hosts, one slot; shards and a whole selection; two builders; a channel with two operators | `GateTypeOK`, `CountExact`, `RequestsBounded`, `PacedGrants`, `EvidenceExact`, `ChannelTypeOK`, `ChannelSound`, `BundlesSound` |
| `network` | each provider client; two peers; two fetches over three hosts; two servers with one key; a server run | `NetworkTypeOK`, `ClientsHonest`, `PeersTrustworthy`, `FetchesBehave`, `LimitKept`, `RunSound` |
| `stores` | artifact store; registry; mirror; installs; corpus; ceremony | `StoresTypeOK`, `StoreSound`, `RegistrySound`, `HeadServesEveryone`, `ObjectsAreExact`, `HiddenStaysHidden`, `CeremonySound` |
| `run_narrowing` | violated: a narrowed depth stops all admissions | `NarrowingSuppressesNothing` |
| `run_widening` | violated: an owned page stays disabled | `OwnedPagesAreActive` |
| `robots_cached` | violated: a page is admitted that its policy forbids | `OnlyAllowedAdmitted` |
| `tuf_retry` | violated: an exact retry is refused | `ExactRetryPossible` |

**Several components in one run.** `services`, `evidence`, `network` and
`stores` each hold components that share no variable. Interleaving them
would multiply their states and show nothing, so the initial state chooses which
one moves (`focus`) and the others keep their initial state. The run is
the union of the components' own state spaces. The type invariant of such a run
is that of the component in focus. In `frontier` the initial state chooses which
part of one frontier is used (`shape`): leases over time, sources, or links.

What the properties say, beyond their comments:

* `AllReopen` — the eight consistency conditions of `initializeOrValidate`
  (`OpenAccepts`) hold after every transaction, with indexes maintained
  incrementally. `ScheduleFollowsOwnership` — a source is live exactly if a chain
  of live sources leads to a configured root, a page nobody owns is disabled,
  and an owned page is not disabled for want of an owner; the code recomputes
  this only in some transactions. `OwnedStaysActive` — a page stops being
  crawled only when its last owner goes or its worker says so.
* `HoldersDistinct`, `LedgerRefined` — no two workers hold a lease the store
  would honour for the same item; every recorded outcome belongs to the lease in
  force; numbers are never used twice, across pruning and restarts.
* `PoliteDispatch` — two dispatches to one authority are separated by the larger
  of the interval of the first and the one asked for by the second.
  `WorksOnItsLease`, `LeasesGivenBack`, `RunsEnd` — a run's completions are
  never refused as stale; its leases end with it unless it was killed or the
  store refused a write; every run ends.
* `OthersUndisturbed`, `RegisteredWhileWanted`, `EveryoneServed`,
  `CacheAccounted` — cancelling one caller never costs another its answer; the
  map holds exactly the wanted fills; waiters are answered and slots return; the
  running byte total, recency list and limits are exact.
* `FetchAccounts` — when a request is done its account is what it consumed, and
  never over its limit; slots are their holders', and so is a fill lock that was granted,
  although locks expire, releases and grants are lost, servers die and others
  release the same key; nothing says that every token has a holder. `PoolHonest` — a verdict needs an
  instance that said so; no run of failures locks an instance out for longer
  than the cap or than a server asked. `AnswersTrue`, `BundlesSound` — see the
  modules.
* `CountExact`, `RequestsBounded`, `PacedGrants` — counters, records and
  schedules of the gate agree after every transaction; at any time one request
  is out to a host and `GlobalConcurrency` in all, although leases are shortened
  when headers arrive; a host is granted again only after its interval and every
  accepted Retry-After, although the record that remembers them is pruned.
  `PacedGrants` is about grants: dispatches may be closer by `Slack`.
* `ChannelSound` — a version reported is on disk in every role before it is
  reported; a withdrawn pack does not return after any crash.
* `StoreSound` — tally, tombstones and files agree with each other at every
  step and through every crash. `HiddenStaysHidden` — no later search shows what
  an answered call hid. `RegistrySound`, `HeadServesEveryone`,
  `ObjectsAreExact`, `CeremonySound` — see the modules.
* `ClientsHonest` — in any window a client sends no more than its burst and
  rate, never in a cooldown, never the same query too early, and calls an answer
  whole only when it was; without an answer it calls empty only what the query's
  own filter empties. `PeersTrustworthy`, `FetchesBehave`, `LimitKept`,
  `RunSound` — see the modules.

Each property has at least one mutant in `PROJECT.json`: a plausible mistake in
one mapped definition under which the same run finds it violated.

### Bounds

Every bound is a constant in a guard. Time advances only up to `MaxTime`,
`LastGateTime`, `LastSecond`, `LastTick`, `LastDay` and the like; counters stop
at `MaxSeq`, `MaxGeneration`, `MaxVersion`, `MaxCandidates`. They are chosen so
that the interesting case happens and happens again afterwards: a lease of one
tick expires and its item is leased again (`frontier`); the gate grants, loses
or finishes, and grants the same or the other host while the first worker and
its requests are about (`evidence`: three ticks, generations 1 and 2); a nonce is
held, expires and its request arrives once more (`network`: `ReplayTTL` is 5 of
the 5 ticks a request may be old); a bucket expires and is filled anew; a
generation is activated, its successor is staged twice under different roots and
overtaken (`stores`: versions 1 and 2, two roots, three stagings). Two workers
are a stale holder and a current one; two callers one who leaves and one who
stays; three sources a root and a cycle below it; three pages a seed, its link
and a link of that link; three shards of two rows a full and a partial one.
Capacities are at or below what the instance can ask for, so that refusals
happen. What is larger is left to the theorems.

Restrictions of MC modules beyond constants: `SharingNext` has all callers ask
for one query, except that one may first ask for another; `PoolBounded` stops
streaks at three, when the backoff has reached its cap; `FetchChoices` names the
combinations of options that differ; `ShardsBounded` collects one shard at a
time and `WholeBounded` a selection in one job; `BuildBounded` gives snapshots one
output and deltas the other; `StaysOfItsKind` keeps the
operator's edits in `run_graph` to discovery sources or to links, the two
halves of the instance. `PoliteDispatch` is checked and proved with
`PruneLimits = {}`: pruning the last page of a host deletes its dispatch record,
and `PruneDisabled` has no caller outside the tests.

Deadlock is checked where the system has no end: the frontier can be reopened,
a cache's flights are reused, runs are restarted. `services`, `evidence`,
`network` and `stores` say `CHECK_DEADLOCK FALSE`: a search request, a server
run and a published merge end, and clocks stop at their bound. Symmetry is over
model values that are only compared (callers, workers, attempts, operators,
requests, searches), and only in runs without liveness properties.

### Fairness

`FairRuns`: weak fairness on `RunStep` — the process is scheduled and its HTTP
calls end by their timeouts — and on `TimePasses`. Nobody is obliged to start a
run, and neither interruption nor death is fair. `FairSpec` of the cache (inside
`SharingSpec`): weak fairness on the steps of callers that have something to do
and on the steps of flights. A flight's provider call ends because its context
carries `RefreshTimeout`, which a failure at any time stands for. Nothing is
assumed of the callers' contexts, of direct calls, or of new calls.

### Where documents and code disagree

The four violated runs each check one sentence of the repository.

1. `run_narrowing`. A comment in `source_runner.go:208-210` says narrowing must
   not suppress unrelated admissions. For a lowered `max_depth` it does: the
   child is given back as due at once and the run ends with an error, every
   time, until the root's document changes.
2. `run_widening`. ADR 0005 says a page is active while owned. A page disabled
   as outside the scope stays disabled when the scope is widened again.
3. `robots_cached`. The publishing guide says only fully robots-allowed rows
   enter the candidate stream. `observeRobots` keeps the decision made for the
   first page of an origin and uses it for the others. Partition refuses a
   selection that repeats a host and merge evaluates each row again; a selection
   collected whole is not protected.
4. `tuf_retry`. ADR 0017 says an exact retry reuses the names a prepared
   generation has claimed. After a sibling under a rotated root has copied its
   root and failed, the retry is refused for its shorter chain.

## 4. Proofs

| Theorem | Says | Inductive invariant |
|---|---|---|
| `LedgerSafe`, `LedgerForward` | the ledger's leases are distinct, its results move forward | `LedgerInv` |
| `FrontierTyped` | `Spec => []TypeOK` | itself; one lemma per action (`…Step`) |
| `HoldersAreDistinct` | `Spec => []HoldersDistinct` | `NumbersDrawn` |
| `FrontierImplementsLedger` | `Spec => LedgerRefined` | `NumbersDrawn`, step by step |
| `FrontierReopens` | `Spec => []AllReopen` | `FrontierInv`, `NumbersDrawn` |
| `ScheduleIsOwned` | `Spec => []ScheduleFollowsOwnership` | the same |
| `OwnedPagesStay` | `Spec => OwnedStaysActive` | the same |
| `DispatchIsPolite` | `Spec => PoliteDispatch` if nothing is pruned | `Remembered` |
| `RunsUseTheFrontier` | `RunSpec => Spec /\ []RunTypeOK` | `RunShape` |
| `RunsArePolite` | `RunSpec => PoliteDispatch` | that and `DispatchIsPolite` |
| `RunsLeaveSoundStores` | the three frontier results, of `RunSpec` | `RunsUseTheFrontier` |
| `RunsWorkOnTheirLeases` | `RunSpec => []WorksOnItsLease` | `RunShape`, and that no step between lease and completion recovers or revokes |
| `RunsGiveLeasesBack` | `RunSpec => []LeasesGivenBack` | `Tidy` |
| `SharersAreUndisturbed`, `MapHoldsWantedFlights` | the cache's two sharing invariants | `Sharing` |
| `CacheIsAccounted`, `EntriesSurvive` | the cache's totals; failures change no entry | `Accounted`, `AnswersFit` |
| `FetchesAreAccounted` | `FetchSpec => []FetchAccounts` | `FetchInv` |
| `PoolIsHonest` | `PoolSpec => []PoolHonest` | `PoolInv` |
| `GateTyped`, `CountsAreExact`, `GrantsArePaced` | the gate's types, exact counts, pacing | `IInv` |
| `RequestsAreBounded` | `GateSpec => []RequestsBounded` | `RInv` |
| `ChannelTyped`, `ChannelIsSound` | `ChannelSpec => []ChannelSound` | `CInv` |
| `EvidenceIsExact` | `EvidenceSpec => []EvidenceExact` | `EInv` |
| `BundlesAreSound` | `PackBuildSpec => []BundlesSound` | `BInv` |
| `RegistryMovesSoundly` | `RegSpec => RegistrySound` | `RegistryInv` |
| `StoreIsSound` | `StoreSpec => StoreSound` | `StoreInv` |
| `HeadsServe` | `TufSpec => []HeadServesEveryone` | `MirrorInv` |
| `InstalledObjectsAreExact` | `PackSpec => []ObjectsAreExact` | `PackInv` |
| `HiddenIsHidden` | `CorpusSpec => []HiddenStaysHidden` | `CorpusInv` |
| `CeremonyIsSound` | `CeremonySpec => []CeremonySound` | `CeremonyInv` |
| `PeersAreTrustworthy` | `FederationSpec => []PeersTrustworthy` | `FederationInv` |
| `FetchesAreWellBehaved` | `PageSpec => []FetchesBehave` | `PageInv` |
| `LimitsAreKept` | `LimitSpec => []LimitKept` | `LimitInv` |
| `ClientsAreHonest` | `ProvidersSpec => []ClientsHonest` | `ClientInv` |
| `RunsEndInOrder` | `ServerSpec => []RunSound` | `Books`, `Quiet` |

They hold for every value of the constants that the named assumptions allow,
each of which TLC evaluates in a passing run. The assumptions say that limits
are numbers, name sets finite and model values distinct, and these that are
about the code:

* `GlobalLimit <= MaxGates` (`PageFetch`): ten and 1024 by default. With it the
  shared overflow gate is never used, which the proof shows.
* `ReplayTTL > 2 SignedSkew + MaxStall + 2 MaxDrift` (`Federation`): 5 minutes
  against twice 60 seconds; the rest is the margin for a stalled handler and a
  clock that is set.
* `Slack <= ControlGrace` (`EvidenceGate`).
* `RepeatDelay <= RecentCap` (`Providers`): a minute at one query a second at
  most, against 256 places; a full table then drops only what may be asked again.
* A delta's parent is an older revision; identities and signers are distinct
  where the loader of the document refuses them otherwise.

**Frontier.** The step lemmas show that every action is one of three effects on
leases: `Quiet` (leases may end, none is granted), `Granted` (one new number,
`seq + 1`, goes to one item and its worker) or `Finished` (a worker whose lease
is in force records its outcome and goes idle). Reconciliation and expiry
recovery are shown once to only ever *end* leases (`ReconciledKeeps`,
`RecoveryKeeps`). `HoldersDistinct` is not inductive by itself: a leased record
or a busy worker whose number is 0 would match another's. `NumbersDrawn` adds
that leased records and busy workers carry numbers that were drawn, that no
worker's number is beyond `seq`, and that no two workers share one; what a grant
hands out, `seq + 1`, is then new. The refinement to the ledger maps each effect
to one ledger step or a stutter. For politeness, the reservation reads `hosts`
and the property is about `dispatch`: `Remembered` says they agree wherever a
dispatch was made.

`FrontierInv` is what every transaction leaves behind. Its core, `Good`,
`SourcesFollow` and `PagesFollow`, is stated of *any* version of the records and
graphs, because a transaction goes through versions no state shows (seeded, then
reconciled; recovered, then leased). `Good` is what `Open` validates, plus what it
needs of missing records: no configured root, no snapshot, no explicit seed
without a record. `AllReopen` alone is not inductive: one transaction reconciles
and the next may not, so the schedule must follow the graphs in between. Nor is
`OwnedStaysActive` provable from it: `ResultsBehind`, recorded results are older
than the lease in force, makes the outcome of a completion a *new* one.
The argument: `Within` satisfies its recursion and grows with the
depth, so the number of levels a source is missing from is the length of its
shortest path (`HopsAre`), and `ReconciledSources` gives the live sources chains
of falling depth, in graphs with cycles too (`SourcesFollowReconciled`);
`ReconciledPages` does its part (`PagesFollowReconciled`). So an operation that
ends in `Reconcile` has only to hand it good records that lost nothing active
(`ReconcileAgrees`). The others — leasing, completing, pruning, recovering
expired leases — are shown to change no owner and no presence (`ScheduleKept`,
`RecoveredSound`, `PrunedFollow`), and their edits of the index buckets, one key
at a time, to give what a rebuild would (`PageIndexesUpdated`,
`PageIndexesRecovered` and their twins for sources). One lemma per operation
(`…Agrees`) puts them together.

**Runs.** `RunShape` is the run's type with the loop index in the range of the
job order. Every run step is shown to be a frontier step, so the frontier's
theorems carry over unchanged. `WorksOnItsLease` is then inductive: between a
grant and its completion the run takes only steps that leave the records alone.
`Tidy` says at which stage which lease is out: a lease numbered beyond
`run.mark` is the one the stage is about.

**Discovery cache.** `Sharing`: `CallsTyped`, `CallsPlaced` (which phases refer
to which flights), `WaitersCounted` (the counter is the number of attached
callers), `KeysMatch`, `Registration`, `Undisturbed`. The two properties say
nothing about the counter, and the counter decides who leaves last. For the
totals, `Accounted` is the property with the types it needs, and `AnswersFit`
bounds what a running flight may store; removing the least recent key lowers sum
and count by one entry's, and storing evicts only until both limits hold. The
sum over the entries is unfolded by the theorems on folds and finite sets.

**Fetches, pool.** `ChargesExact` balances a request's account over its workers:
claimed but not yet settled, and settled. `LocksOwned` says the lock of
a key that a worker took still holds its token unless it has outlived it. `PoolInv`: `Truthful` ties
the verdict to what was heard, `Bounded` bounds circuits by the backoff's cap.

**Gate.** `Sound` says of *any* version of the records and the two schedules
what they owe each other, because the sweep inside `Acquire` goes through
versions that no state shows: a missing record is blank and generations are
covered (`RecordsSound`), the expiries are exactly those of the active records
(`ExpiriesExact`), a prune entry of a record's own generation means the record
is inactive and due then (`PrunesMatch`), a record with a prune time is on the
schedule (`PrunesCover`), and a host's rest is either over or within what its
record remembers (`RestCovered`). Without `PrunesMatch` a stale prune entry could
delete a record that still restrains its host. `EndAllSound`, `PruneSound` and
`SweepSound` show that ending leases and pruning keep it. `RInv` adds that a
worker's request is covered by an active lease of its own attempt that outlasts
it, so requests inject into held hosts.

**Channel.** `CInv`: a reported version is in every role in memory and on disk
(`Durable`), and a refreshing command's earlier roles are at the head it read,
so a crash between two roles leaves no mix that a later command would accept.

**Evidence and bundles.** `EInv`: a bundle being collected tells of the first rows
of its input in order, and a merge in progress holds exactly the rows up to the
end of the shards it has read; what is published is what one of the two came to
at its end. `BInv`: a build past its selection has a non-empty set of rows, all
decided by then and none excluded, and holds their records and the earliest of
their expiries; snapshots are functions with at least one record, so a delta's
parent is a real one, and applying the changes between two of them to the first
gives the second.

**Artifact store.** `StoreInv`: a shelf may hold more than its pointers name,
never less (`Shelved`); what a power failure may bring back is named by no
pointer or has expired (`Harmless`, of `unsynced`); what a revocation purged is
empty under its tombstone (`EmptiedOf`); while the store is open its tally covers
the shelf (`CountedBy`). Every operation is shown to end on a shelf that is
`Shelved` and succeeds the one before (`ReturnKeeps`, `DeathKeeps`), and
`RepairedShelf` gives the next `Open`. The tally must *cover* the shelf, not
equal it: a recount that ends over the limits keeps the old count of versions.

**Stores.** `RegistryInv`: past its preparation a command's predecessor is kept
durably, and what it looked at is still live until the rename, but for editors.
`MirrorInv`: what a generation's files say is decided when they are first
written; a head is complete whatever job is under way, on disk too.
`PackInv`: an install's rows are those of the manifest it has read so far over
its parent's. `CorpusInv`: which of the two stores may be behind, at each step
of each request, and what the quarantine then covers. `CeremonyInv`: a signed
root carries exactly the signatures its commands verified.

**Network.** `FederationInv`: a nonce is held for longer than any copy of its
request can be accepted (`Remembered`), measured by the askers' clock. `PageInv`:
places are counted per gate and a host's gate is not dropped while used.
`LimitInv`: what a bucket holds, plus what it has granted since any moment, stays
within a burst and the refill since (`Holding`); a bucket that expires would have
been full, because it lives `2 Burst / Refill` (`ExpiresFull`). `Books` and
`Quiet` (`ServerRun`): what has been opened, is owed a close, and has been closed
partition; the sweeper has ended before the first close. `ClientInv`: the token
bucket counts up to one number, `Spent`, and every request sent or still waiting
has a number of its own, at most a burst before the moment it is due
(`Numbered`); so requests of any stretch have that many numbers to share. A
cancelled reservation gives its number back only if it was the last, which is
what `rate.Reservation.Cancel` asks of `lastEvent`. `TableKept`: what was sent is
on StackExchange's table or may be asked again by the time of the next request.

### Only model-checked

* **Liveness**: `RunsEnd`, `EveryoneServed` — out of the prover's reach.
* **What folds compute**: `AnswersTrue` (folds over lanes, sorted answers). Its
  proof needs induction over data.
* **Combined types**: `NetworkTypeOK`, `StoresTypeOK`, `ServicesTypeOK` are case
  distinctions of the MC modules; the parts are in the inductive invariants above.

`EntriesSurvive` is proved, and no run checks it.

## 5. Not modelled

Scoring and text handling (floating point and strings), translation of provider
rows, rendering and extraction, API handlers, the renderer's proxy, flags and
configuration files, metrics and evaluation have no behaviour over time that a
state machine would add to. In what is modelled, these are left out: a
`ReserveHost` that fails for another reason than waiting; changes of limits
between runs; a provider that ignores its context; corruption of files; clocks
of the crawler and the gate that run backwards (`touchClock` refuses those
operations); a Redis whose `TIME` goes backwards, which would let a bucket count
time twice; more than one API key; eviction of the memory page cache by size;
power failures around renames of the ceremony's and the installer's directories;
an observation that a pack's shards are searched in parallel. Each component's
`note` in `PROJECT.json` says what of it is in.

## 6. Plan

Modelled and proved in this order: the lease ledger and the frontier, runs, the
discovery cache, the evidence gate; then the services around a request, the
stores, the pack tools, the network; then their proofs.

Left: `AnswersTrue`, once its folds can be reasoned about; the parts of §5.
