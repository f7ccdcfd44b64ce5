# TLA+ verification of grokcli2api-go

grokcli2api-go is a Go HTTP proxy that offers the OpenAI Chat Completions, OpenAI Responses and Anthropic Messages
APIs on top of a pool of Grok CLI credentials. Requests are scheduled over accounts, expired tokens are refreshed in
place in auth files shared with the CLI, errors of one account fail over to another, conversations stay on the account
that owns their upstream state, and event streams are translated between three protocols.

This directory holds TLA+ modules of its concurrent core, the configurations that check them with TLC, and theorems
checked by TLAPS. Source paths below are relative to `src/`.

## 1. The system and its parts

| Part | Code | State it keeps | Operations |
|---|---|---|---|
| Account pool: scheduling | `internal/auth/pool.go` 251-820, 2444-2542 | `accounts`, published snapshots `active`/`activeByModel`, per-account `inflight`, capacity channel, cursor | `Acquire`, `AcquireForBackends`, `AcquireAccount`, `AcquireAccountForModel`, `AcquireAccountForMetadata`, `Lease.Release`, `rebuildActive`, `rebuildLoop` |
| Affinity cache | `internal/auth/pool.go` 2692-2794 | 16 shards of key -> account with TTL and LRU | `Get`, `Set`, `Delete`, `Bind`, `Unbind` |
| Credential lifecycle | `internal/auth/pool.go` 909-1297, 1679-2400, 2544-2679; `internal/auth/auth.go` | `account` structs, `states`, `files`, `.grokcli2api-state.json`, auth files | refresh, `Disable`, `MarkCooldown`, `DeleteCredential`, `ImportCredentials`, `scan`, `persistState`, `loadState` |
| File lock, atomic write | `internal/auth/filelock*.go`, `auth.go` 621-649 | lock file beside each auth file | `acquireAuthFileLock`, `Close`, `writeCredentialAtomicMode` |
| Upstream client | `internal/grok/client.go`, `inference.go` | retry budgets, model refresh queue | `DoInference`, `OpenInference`, `DoJSON`, `OpenStream`, `handleRetryable`, `deleteCredentialOrDisable`, catalog refresh |
| Event stream reader | `internal/grok/client.go` 1030-1345, `timing.go` | idle timers, partial event | `EventStream.Next`, `Close` |
| Model catalog | `internal/modelcatalog/model.go` | none (pure) | normalise, aggregate descriptors |
| Request planning | `internal/inference/*.go` | none (pure) | canonical form, `Plan`, `Render`, sanitising |
| Inference execution | `internal/server/inference_execution.go` | one `inferenceExecution` per request | `prepareInferenceExecution`, `prepareBoundExecution`, `commitContinuity`, `commitStreamContinuity` |
| Continuity store | `internal/server/continuity.go` | `bindings`, `dirty`, `.grokcli2api-affinity.json` | `Lookup`, `ReserveTurn`, `Bind`, `DeleteAccount`, `flush`, `load` |
| Backend stream adapter | `internal/server/backend_stream.go`, `backend_adapter.go` | blocks, tools, terminal flags of one stream | `Handle`, `Finish`, encoders and decoders |
| Anthropic conversion | `internal/anthropic/*.go` | stream translator | request and stream conversion |
| Tool replay | `internal/openai/tool_replay.go` | bounded cache of tool calls | `Put`, `Get`, remember, replay |
| OpenAI conversion | `internal/openai/{chat_prepare,responses_compat,converter}.go` | compatibility state of one stream | request and stream conversion |
| HTTP server, admin API | `internal/server/server.go`, `tenant.go` | none of its own | routing, decoding, admin calls on the pool and the store |
| Configuration, start | `internal/config/config.go`, `cmd/grok2api/main.go` | none | environment, wiring |

**How they interact.** A handler makes a plan, prepares an execution (looks bindings up in the continuity store and may
pin the request to an account), and calls the client. The client acquires a lease from the pool for every attempt,
sends, and reports the outcome to the pool: `RefreshIfUnchanged` after a 401, `MarkCooldown`, `Disable` or
`DeleteCredential` after other errors. The lease is given back when the body has been read or the stream is closed. A
successful end commits continuity bindings and tool calls. In the background the pool's ticker scans the auths
directory and refreshes due tokens, the rebuild loop publishes new snapshots 25 ms after a request for one, timers end
cooldowns, the client refreshes model catalogs, and the continuity store writes a checkpoint a second after a change.
Other programs (the Grok CLI, another proxy) rotate, log in and log out in the same auth files under the same lock file.

**What is hard.** Goroutines share the pool through five locks (`Pool.mu`, `account.mu`, the refresh channel of an
account, `mutationMu`, `stateMu`), atomics, and a channel that is closed and replaced to wake every sleeper; several
operations take two or three of these one after another and act on what they read under an earlier one. Refresh tokens
can be used once only, so lost answers, failed writes, crashes and sibling programs matter. What a file holds, what the
cache of the file says, what the account holds and what the saved state says are four copies updated at different
times. `PROJECT.json` lists the hazards, each with the line where it bites and the property that covers it.

**What makes each part correct.**

- *Pool*: counts of leases are exact on every path; the limit holds under races; no sleeper is forgotten; every request
  ends; a request waits only when every account it may use is full; a hard-affine key keeps its account; provisional
  accounts are used only when the others cannot serve.
- *Credential lifecycle*: a rotated token is not spent again; a late 401 does not refresh a good credential; an account
  being deleted is never handed out and its file does not come back; the cache of a file does not lie; memory follows
  the file; locks are exact and never waited for in a circle; disabling survives a restart; import lifts a tombstone.
- *Continuity*: a turn number of a session is handed out once; a request never mixes two accounts' state; deleting an
  account forgets its bindings; what is acknowledged is eventually saved.
- *Retry loops*: a request that may have had its effect is not sent again; attempts are bounded; a pinned request stays
  on its account; each account is refreshed at most once per request.
- *Streams*: one terminal event, last; block indexes are used once and closed; a client that streams is told what a
  client that does not stream is told; success is told only of a complete answer, and only then does the turn bind.
- *Tool replay*: the byte count is the sum of what is stored; both bounds hold; what is sent upstream has a call for
  every output; tenants do not see each other's calls; a client is told of a call only once the cache has it.

## 2. Plan

In this order, the most important behaviour first:

1. `LeasePool` (abstract), `PoolCapacity`, `MCPoolCapacity`, `PoolCapacityProofs`: acquiring and giving back accounts.
   *Modelled, checked and proved.*
2. `CredentialLifecycle`: one credential in memory, on disk and in the hands of siblings. *Modelled and
   checked; all safety properties of the passing runs proved (`CredentialLifecycleProofs`).*
3. `ContinuityStore`, `ContinuityStoreProofs`: bindings and their checkpoint. *Modelled, checked and proved.*
   `Continuity`: requests that prepare, send and commit over the bindings. *Modelled and checked for the Responses
   protocol; proved (`ContinuityProofs`).*
4. `InferenceAttempts`: the loops of `DoInference`, `OpenInference` and `DoJSON`. *Modelled and checked; all
   safety properties and `GivesUpLate` proved (`InferenceAttemptsProofs`).*
5. `BackendResponse`, `StreamTranslator`, `BackendStream`, `UpstreamStream`, `StreamExecution`: answers and streams
   between the three protocols. *Modelled and checked; `TypeOK`, `HonestEnding`,
   `CommitMatchesClient` and `AliasHidden` proved (`StreamExecutionProofs`). Worth proving next: of `WellFormed` that every
   block opened is closed.*
6. `ToolReplay`: the cache and the requests that use it. *Modelled and checked; proved
   but for `OutputsHaveCalls` (`ToolReplayProofs`, on top of `FoldLemmas`).*
7. Left: rebuilds of the scheduling snapshot that overtake one another, the queue of background catalog refreshes, and
   the pure functions (backoff, cooldown thresholds, catalog aggregation) against reference definitions.

Which module uses which: `PoolCapacity` implements `LeasePool`. `StreamExecution` extends `UpstreamStream`, which extends
`BackendStream`, which extends `StreamTranslator`, which extends `BackendResponse`. The others stand alone and meet in
what they assume of each other: `InferenceAttempts` and `Continuity` share the pinned request (the first shows that no
retry leaves the account, the second what the account has to be), `StreamExecution` and `Continuity` the commit (the
first says when and with which tokens, the second what it does to the bindings), `CredentialLifecycle` and
`InferenceAttempts` the refresh after a 401.

## 3. The modules

### PoolCapacity and LeasePool

`PoolCapacity` is `Acquire`, `AcquireForBackends`, the pinned and metadata acquisitions, `Lease.Release` and the
capacity channel, one action for each load, compare-and-swap or channel operation that another goroutine can come
between.

| Module | Code |
|---|---|
| `pc[r]`, `job[r]`, `acct[r]` | where a request is in `Acquire`, what it asks for, the account it works on or holds |
| `search[r]`, `saturated[r]` | local variables of the scan (`snapshot` left, `tried`, `best`, `saturated`) |
| `signalled[r]` | the captured capacity channel is closed: `NotifyCapacity` closes the channel of everybody |
| `inflight`, `avail`, `usable` | `account.inflight`, `disabled`/`cooldownUntil`, whether the access token can be used |
| `active`, `rebuildPending`, `timerNotifies` | the snapshot, `rebuildCh`, the cooldown goroutine between its two calls |
| `binding` | the affinity cache's entry for the one key the requests share |

`EnsureUsable` is the pool's view of a refresh: it succeeds, backs off, disables, or is cancelled. `External` events
(cooldowns, disablings, expiries) stand for what requests outside the model cause. Abstractions: one model and one
affinity key; an account's candidate batch is read in one step (its reads are not serialised in the code either, but
nothing but `inflight` is compared across accounts); cursor arithmetic is "any account may be first"; rebuilds are one
step. `LeasePool` is what callers rely on: sets of leases, and `Grant` only below the limit except for exempt requests.

### CredentialLifecycle

One credential and the four copies of it.

| Module | Code |
|---|---|
| `objects`, `current` | `account` structs and the one that `Pool.accounts` points to; goroutines keep pointers (`my[t].obj`) to dropped ones |
| `sameGen[t]` | the generation the goroutine observed is still that of its object (comparison is all the code does with it) |
| `states`, `stateFile` | the entry of `Pool.states`, and what `persistState` saved |
| `cache` | the entry of `Pool.files`; `match` says size and mtime are those of the file |
| `reading` | what the scan under `mutationMu` has read and not yet applied |
| `file`, `flock` | the auth file and its lock file |
| `refreshTok`, `access` | what the identity provider and the upstream think of the tokens of each version |
| `my[t]` | locals: the leased credential, the one being refreshed, what to do after the refresh |

A version is a pair of access and refresh token. The code between two lock operations is one step. `Check` to `Refused`
are `refreshCredential` and `credential.refresh`; `Penalty` to `PenaltyPersist` are `Disable` and `MarkCooldown`, with
their two separate critical sections; `DeleteStart` to `DeleteStates`, `ImportStart` to `ImportRevive`, `ScanStart` to
`Leave` are the three operations under `mutationMu`. `SiblingLocks` and `SiblingActs` are other programs; `Restart` is a
crash at any point, with what `loadState` and the first scan make of the disk. Left out: credentials that are not OIDC
(they are never refreshed), several accounts in one file, model cooldowns, catalogs, and the read errors of a directory.

### ContinuityStore

The store of hard affinities for itself: what its operations do to the bindings and how these get to the file.

| Module | Code |
|---|---|
| `bindings`, `dirty` | the fields of those names; a binding's account, model, backend and upstream session are one value, its `route` |
| `wake` | the one-place channel `wake` is full |
| `timer`, `loop` | the timer of `checkpointLoop`, and where the loop is: in its `select`, about to flush, or writing the file without the mutex |
| `closing`, `running` | `closeCh` is closed; the process exists |
| `snapshot`, `disk` | the copy that `flush` took, and the affinity file |
| `clock` | time, compared with a binding's `until` (`ExpiresAt`) |
| `abandoned` | auxiliary: the last write ended before its temporary file existed |

`Lookup`, `ReserveTurn`, `Bind` and `DeleteAccount` hold the mutex throughout and are one step each, eviction and
removal of the expired included. `Snapshot` is the part of `flush` under the mutex; `Written`, `WriteFails` and
`WriteDoesNotStart` are the three ways the rest ends, which differ in `dirty`. `Stop` is a crash at any point or the end
after `Close`; `Restart` is `newContinuityStore` with `load`.

### Continuity

What requests do with the store: `prepareInferenceExecution` and `prepareBoundExecution`, the last attempt of
`DoInference` or `OpenInference`, and `commitContinuity` or `commitStreamContinuity`. Each call of the store is a step,
so that other requests, deletions and catalog changes come in between.

| Module | Code |
|---|---|
| `pc[r]` | before its lookups, reserving a turn, sending, sent, committing, ended |
| `asked[r]` | tenant, session alias and state handles of the request |
| `todo[r]`, `known[r]` | lookups still to do (later: bindings still to write), and `continuityLookup`s that found something |
| `pinned[r]`, `reserve[r]`, `turn[r]` | the binding that leads, the key whose turn is reserved, the turn |
| `pending[r]` | keys of the execution to bind on success |
| `wire[r]` | account, backend, session and state that went upstream |
| `emitted` | state handles that clients hold and may send |
| `bindings`, `catalog`, `deleting` | the store, the backend each account offers, deletions between the pool and the store |

Abstractions: the Responses protocol and one model; a state handle is named by the request that produced it, an
upstream session by the request that opened it; `responses` is the backend whose renderer keeps opaque state, `chat`
stands for those that drop it; retries before the last attempt change nothing here (a pinned request stays on its
account in all of them, which is the subject of `InferenceAttempts`). A decision that looks at several catalogs (which
state any renderer would keep, whether each binding's account still offers its backend) reads them in one step; between
two decisions they may change. Expiry and eviction are the event `Expire`.

### InferenceAttempts

The loops that decide which account a request is sent to next, and when it ends: `DoInference`, `OpenInference` (the same
loop for streams) and `DoJSON` for bodiless calls.

| Module | Code |
|---|---|
| `role[r]` | which loop runs: streaming, proxied (`DoJSON`), and whether the request is pinned by its state |
| `pc[r]`, `lease[r]` | where the loop is; the lease it holds |
| `loop[r]` | its locals: account and descriptor of the round, `used`, `refreshed`, `preferredID`, `transportAttempts`, `maxAttempts`, `lastErr`, the pin and the expected backend |
| `account`, `catalog`, `lastInference`, `inflight` | what the loops see of the pool |
| `left[r]` | the caller's context is cancelled |
| `tries`, `ran`, `failedRuns`, `blame` | history: accounts a request was sent to, runs upstream (known or possible), those answered with a server error, why an account lost its place |

An action is a part of a round between two calls that wait. The upstream answers with an error class (`Failures`), which
stands for the status and the body that `client.go` 930-967 look at; `Unwilling` cools the account down or does not,
`Remove` deletes its credential, `Renew` to `RejectedAgain` are the refresh after a 401. `FetchCatalog` is the refresh of
an account that was idle for ten minutes, after which the backend of the model may be another one. The queue and the
affinity cache of the pool are `PoolCapacity`'s subject: here a request takes any eligible account with a free slot.
Whether the upstream had run a request that it answers with an error is known for none of the server errors, so `Rejected`
leaves it open. After a 401 the fetch of a catalog refreshes the account and asks once more (`client.go:398`); that
second call is left out, and with it the verdicts on an account that come from fetching alone.

### BackendResponse, StreamTranslator, BackendStream, UpstreamStream, StreamExecution

The answer of an upstream that speaks Chat Completions, Responses or Messages, for a client that speaks any of them,
whole or as a stream. An answer is a sequence of items (text, reasoning with a signature, tool call) given in chunks; a
chunk is a short sequence of tokens, because cuts matter and characters do not. Formatting is left out.

| Module | Code | What it defines |
|---|---|---|
| `BackendResponse` | `backend_adapter.go`, `converter.go` 548-714 | `AdaptBackendResponse`: a whole answer as the client gets it without streaming; a failed Responses answer is an error |
| `StreamTranslator` | `internal/anthropic/stream.go` | Responses events to Messages events, blocks and the filter for stop sequences |
| `BackendStream` | `backend_stream.go` | `Handle` and `Finish`: decoding to atoms, the three encoders, native pass-through with aliases |
| `UpstreamStream` | (external) | the events in which each dialect tells an answer; those that the decoders read |
| `StreamExecution` | `inference_execution.go` 397-614 | the state machine: the loop that reads, handles, writes, collects tokens and commits |

The first four define operators only: an operator that handles an event returns the adapter's next state and the events
for the client. In `StreamExecution` `ad` and `answer` are chosen at the start, `s` is the adapter, `read`, `part` and
`switches` say how far the upstream has got with which item, `sent` is what the client has received, `collector` and
`bound` what a commit binds, `fate` why a stream ended early. Its actions are the next event (`Deliver`, which may meet a
client that is gone at any of the events it writes), an error of the upstream, the end of the stream, a failed read, a
cancelled request and the commit.

Abstractions: arguments are JSON with at least one token; a JSON value that is parsed and written again loses its spaces
(`Remarshal`); the identifiers of a native Responses upstream begin with `resp_`; the order in which blocks are closed at
the end, which in the code is that of a Go map, is ascending.

### ToolReplay

Requests of the Responses endpoint over the cache of tool calls: what is looked up before a request is planned, what of it
reaches the upstream, what its answer leaves behind.

| Module | Code |
|---|---|
| `entries`, `bytes` | the fields of `ToolReplayCache`: key (tenant, kind, name) to items, size, store flag and whether the ttl has passed |
| `req[r]` | the body a client sent, its input as rewritten so far, what was sent upstream, what of the answer was received, what is still to be put, what the client was told |
| `lost` | history: keys that were evicted or expired |

Each call of the cache is one step, because its mutex is released in between: `LookUpPrevious`, `Expand` (one element at
a time), `Apply`; then `Render`, and for an answer `ItemDone`, `Completed` and `Remember`, one key at a time, before `Tell`.
`Put` evicts expired entries and then arbitrary ones (`Evictions`), as the iteration over a Go map does. One model stands
for all; an item's identifier is unique within its tenant, which is what upstreams give.

## 4. What the runs check

`MaxEvents`, `MaxOps`, `MaxFaults`, `MaxTime`, `MaxVersion` and `MaxChanges` bound counters that would grow for ever; they are guards of the
external events only, never of the code's own steps (when versions run out the provider answers with an error, which
the code has to handle anyway). Three configurations have an `ACTION_CONSTRAINT` besides, defined in their `MC` module,
and `InferenceAttempts_loops` begins in some of the initial states only. The constraints leave out combinations of
requests, operations of the administrator and outside events, all of which may come or not; once a request or an
operation has begun nothing of it is held back, so that they do not stand in for fairness.

| Run | Bounds | Shows |
|---|---|---|
| `PoolCapacity_safety` | 2 requests of 5 kinds, 2 backends of 1 account with 1 slot, tokens usable at first, 1 event (`FewJobs`: after which one request is plain and none has soft affinity) | types, exact counts, limit, no lost wake-up, refinement of `LeasePool`, every request ends |
| `CredentialLifecycle_siblings` | 1 request, background loop, 3 versions, 2 events: rotation and login by siblings, lost answers, restart | no rotated token is spent again |
| `CredentialLifecycle_faults` | request, loop, administrator, 2 versions, every fault of the process and its providers but an early expiry (which the other run has), 1 event | types, deleted accounts not handed out, no resurrection by the process itself, honest cache, refresh lock exact |
| `CredentialLifecycle_live` | request, scanning loop, administrator, 2 versions, 1 failure, 1 event: revocation, login or logout by a sibling, with an import before it and a deletion after it (`ImportsFirst`) | every operation ends; memory comes to follow the file |
| `ContinuityStore_checkpoint` | 3 keys, 2 routes, limit 2, lifetime and time of 1 tick, 3 operations, 2 faults | types and bound, what is clean is saved, what is dirty is scheduled, everything is saved in the end |
| `Continuity_routing` | 3 streaming requests, 2 at a time, 2 tenants, 1 alias, 2 hints each, 2 accounts on different backends, 1 event: expiry, deletion or catalog change; one request of the public namespace at most, and that one alone (`PublicAlone`) | state goes home, a session has one home, the owner of a response is remembered |
| `InferenceAttempts_loops` | a stream that only one backend can render beside a pinned request, each of them alone, or a proxied GET alone; 2 accounts with 1 slot, 2 backends, a budget of 2, 1 change: a client that leaves, a catalog that moves; accounts idle for long when a request is alone (`FirstSpec`) | types, leases exact on every exit, no replay but after an error answer, pinning, budgets, verdicts on accounts, no early failure, every request ends |
| `StreamExecution_routes` | 11 answers of up to 3 items over the 9 pairs of protocols with aliases, CLI clients, thinking and stop sequences; 1 switch between unfinished items; every way to break off at every event | types, well-formed streams, the same content and state tokens as without streaming, honest endings, what a commit binds, hidden aliases |
| `ToolReplay_turns` | a first turn with 2 calls (2 bodies), a follow-up (9 bodies) and another tenant with the same names (2 bodies), at once; 3 entries, 4 bytes, any expiry | accounts of the cache, outputs have calls, replay within tenant and response, remembered before told |

Why the bounds are enough for what they show: two requests and one slot give every race for a slot (for any number the
theorems speak); two accounts give a choice and a batch with something left in it. In the lifecycle the faults
interact pairwise (a 401 with an import, a refresh with a rotation, a deletion with a scan); three actors and one or two
outside events produce each pair with a bystander. In the store three keys overfill it, and one tick makes a binding
expire; three operations put a change before, during and after a checkpoint, and two faults a failed write before a
crash. In the routing a first request makes state, and two more use it at once through different keys; with two hints a
request can bring state of two owners. Only streaming requests are in that run because they are the harder case: their
client has the state before the bindings are written. Unknown state of the public namespace is passed on by design,
so that such a request is of interest for the types and for what it leaves in the store, less for its races. In the loops two accounts give a failover, a refresh and an
exhausted search, and a budget of two separates "again" from "elsewhere"; by symmetry the pin may be to the first.
Only a request that is alone refreshes the catalog of idle accounts, but a catalog may move at any time in every mix. In the streams three items overlap in twos, with
text on either side of a call; chunks are cut within a stop sequence, within arguments and before a name. In the replay a
cache of three entries and four bytes cannot hold the seven entries that the two first turns leave, so that some go.

**Violations.** These runs show places where the code does not do what a comment or a test says; each is quoted in
`PROJECT.json` under "findings" and shown by a trace of a few steps:

| Run | What happens |
|---|---|
| `CredentialLifecycle_saved` | a disabling is lost from the saved state beside a refresh |
| `Continuity_turns` | two requests that continue one session through different keys get the same turn |
| `StreamExecution_signature` | the signature of a thought comes after its block was closed and does not reach a Messages client that streams |

**Disagreements without a run.** The modules also define properties that state what the repository says and that do not
hold; no configuration is kept for them. Each is seen by adding it as an `INVARIANT` (or `PROPERTY`) to the configuration
named:

| Property | Configuration | What happens |
|---|---|---|
| `NoNeedlessWait` | `PoolCapacity_safety` with `Requests = {r1, r2, r3}`, `Backends <- OneBackend`, `Jobs <- PlainJobs`, `MaxEvents = 0` | "excess requests wait for capacity" (`README_EN.md:386`), but a request that loses the race for the best account skips the others of its batch and sleeps beside a free one (`pool.go:497`) |
| `RecoversWhatFailed` | `CredentialLifecycle_faults` with `MaxVersion = 3`, `Faults = {"transient", "revoke"}` | "later callers observe the new generation and reuse it" (`pool.go:1690`), but generations start again at 1 when an account is deleted and imported, and a late 401 of the old one refreshes the new credential |
| `FollowsFile` | `CredentialLifecycle_siblings` with `SPECIFICATION FairSpec`, `MaxVersion = 3`, `Faults = {"transient", "revoke", "login"}` | "hot-reloads credentials" (`README_EN.md:154`), but a sibling's write between the refresh's file lock and its `stat` (`pool.go:2089`) is never loaded |
| `DistinctAccountsBudgeted` | `InferenceAttempts_loops` with `MaxAttempts = 1` | "Maximum number of distinct accounts tried per request" (`README_EN.md:388`), but a refresh gives the attempt back (`inference.go:162`), and a changed catalog spends none: a second account is tried |
| `RunsAtMostOnce` | `InferenceAttempts_loops` | "an unknown failure must not be cross-account replayed" (`client.go:837`), but an answer of 500, 502, 503, 504 or 520 leads to another account (`client.go:921`, `inference.go:180`, 343), and a gateway timeout does not say that the request was not run. A test wants these retries (`client_test.go:1045`); they are the exception in `NoBlindReplay` |
| `StoredNeverReplayed` | `ToolReplay_turns` | "Only store:false responses are eligible for local minimal tool-call replay" (`tool_replay.go:284`), but the flag is looked at for `previous_response_id` only (`tool_replay.go:493`, 423) |

`NoResurrection`, `CacheHonest` and `FollowsFile` hold as long as siblings leave the file alone during a refresh (the
passing runs) and fail when one does not (a refresh also writes back a credential that a sibling removed meanwhile): that
boundary is the result. `RecoversWhatFailed` also fails when a sibling rotates the token and a scan applies it between the
comparison of generations and the snapshot of the credential. `NoTokenReplay` fails when tokens are imported: an import
that took up the tokens of the file waits for the locks while a refresh rotates them, then writes the used-up token back,
and the next refresh sends it (`CredentialLifecycle_faults`, which has imports, therefore does not list it). Other disagreements met while modelling: after a failed
refresh the rest of the batch is skipped like after a lost race; a metadata request exceeds the limit; two concurrent
first requests move a hard-affine key; a permanent refresh failure counts instead of resetting the counter; importing
unchanged tokens leaves a failed deletion's account disabled; a stale scan can put a rejected credential back before the
retry; a restart brings back a disabling or a cooldown that a refresh lifted, because nothing saves the state then.

The retry loops: an unpinned request whose account goes away during its refresh ends although other accounts are ready
(the exception in `GivesUpLate`); a refresh that fails because the caller left disables the account; a second 401
disables without comparing generations; a pinned request whose account goes away during its refresh returns the 401
rather than "state unavailable".

The streams: a stop sequence that spans two text items, or that begins the answer, is not treated alike with and
without streaming; several summary parts of one thought are cut after the first by the translator; a Messages
client gets no input tokens from a Chat upstream; a Chat answer that ends for its length becomes a completed Responses
answer, both ways; chunks of a native Chat stream give the item's identifier as that of the call. `SameAsNonStreaming`
compares what the two ways both promise: calls as a bag, text of one item as a prefix at any moment. A Responses answer
that failed is an error for clients of the other protocols without streaming; a stream of it may have begun with text,
but must not succeed.

The replay: a stream that ends as incomplete leaves nothing under its response or its session, while the same answer
without streaming does; when the entry of a stored response was evicted and those of its items were not, references are
expanded and the handle is sent too, so that the upstream sees the calls twice; two turns of one session at once
overwrite each other's entry.

Two properties of the continuity modules have an exception that is itself a result. `StateStaysHome` leaves out a
request that found no route and was sent after a catalog had changed: what state its body may keep was decided with the
catalogs of before. `CleanIsSaved` and `EventuallySaved` leave out a checkpoint that could not create its temporary
file: the store counts as clean then, and the change waits for the next one. Neither `StateStaysHome` nor
`OwnerIsRemembered` speaks of the public namespace, where unknown state is passed on by design. What happens besides,
is this: between the terminal event of a stream and the commit a client that continues is told
404; a commit after `DeleteAccount` binds the deleted account again; a checkpoint of a full store evicts one binding
though nothing is to be added.

**Fairness.** `PoolCapacity`: goroutines that can run do run (the Go scheduler), a lease is given back (upstream
exchanges have deadlines, streams an idle timer), cooldown timers fire, the rebuild loop runs. Nobody has to start or
cancel a request and no external event has to happen. `CredentialLifecycle`: weak fairness for a goroutine's own steps;
strong fairness for taking a lock, because `sync.Mutex` in starvation mode and channel receives serve waiters in order;
a sibling releases the lock file; the ticker goes on (strong fairness of the scan). The file lock is polled and has a
timeout, so waiting for it is one of the steps that end either way. `ContinuityStore`: the checkpoint loop's goroutine
runs and its timer fires; no operation, fault, restart or shutdown has to happen. Its run does not check for deadlock,
because the process may end for good; in all others a state without a successor would be an error. `InferenceAttempts`:
a call of the upstream or of the pool comes back (they have deadlines, a stream is read to its end or closed); clients
need not leave, catalogs need not change and cooldowns need not end. `StreamExecution` and `ToolReplay` state no fairness.

Every property of a passing run has a mutant in `PROJECT.json`: a plausible bug in one mapped definition, kept beside
it as a "Wrong variant", under which the same run fails.

## 5. What is proved

**The pool.** For every number of accounts and requests, every limit, batch size and preference of backends, from
`ConstantsAssumption` only (finitely many requests, a limit of at least one, jobs that name an account where the API
requires one).

| Theorem (`PoolCapacityProofs`) | Property |
|---|---|
| `TypeCorrect` | `TypeOK`: types, and an account wherever the code dereferences one |
| `AccountingCorrect` | `SlotAccounting`: `inflight` is the number of requests occupying the account |
| `LimitCorrect` | `LimitRespected` |
| `NoLostWakeupCorrect` | `NoLostWakeup` |
| `Refinement` | `ImplementsLeasePool` |

`TypeOK` is inductive; one lemma per part of `Acquire`. For the accounting every step is shown to be a `SlotStep`: it
leaves each slot where it is, or takes one, or gives one back, and moves the count with it; the cardinality facts are
used once, on those three shapes. The limit follows by induction with the accounting: a slot is taken below the limit,
and metadata requests only add to the count that is compared. `NoLostWakeup` is not inductive: a request that has seen
a full account is not asleep yet. The strengthening says that while a request whose captured channel is open has met a
full account (`saturated`, or about to sleep on a busy one), someone occupies a slot or is about to notify; it is kept
because a slot that is given back leads to a notification that closes every captured channel. The refinement maps
`leased` to the sets of requests that occupy each account.

**The continuity store.** For every set of keys and routes, every limit and lifetime, from `StoreAssumption` only
(finitely many keys, a limit of at least one; the bounds on time, operations and faults are any numbers).

| Theorem (`ContinuityStoreProofs`) | Property |
|---|---|
| `TypeCorrect` | `TypeOK`, with the bound on memory, snapshot and file |
| `DirtyScheduled` | `DirtyIsScheduled` |
| `CleanSaved` | `CleanIsSaved` |

The bound holds because eviction leaves room for one (`EvictedFits`) and a file within the limit is loaded without
eviction (`LoadedLive`). `DirtyIsScheduled` is not inductive: the end of a write must find a signal if anything changed
since the snapshot. `ScheduledInv` adds that what is dirty during a write has been signalled. `CleanIsSaved` says
nothing during a write; `CleanInv` adds that memory then agrees with the snapshot, which the end of the write makes the
file, also when an earlier write was abandoned. Time enters with `AgreeLater`: stores that agree on what has not
expired go on agreeing.

**One credential.** For every finite set of goroutines, their roles, any number of token versions, faults and events, from the module's
assumptions only. The last three need a hypothesis on what siblings or the operator do.

| Theorem (`CredentialLifecycleProofs`) | Property | Hypothesis |
|---|---|---|
| `TypeCorrect` | `TypeOK` | |
| `DeletingDisabled` | `DeletingIsDisabled` | |
| `RefreshLockCorrect` | `RefreshLockExact` | |
| `NoResurrectionCorrect` | `NoResurrection` | no sibling removes the credential (`"logout"`) |
| `CacheCorrect` | `CacheHonest` | no sibling writes the file (`"rotate"`, `"login"`, `"logout"`) |
| `NoReplay` | `NoTokenReplay` | no sibling removes the credential; nobody imports tokens |

The hypotheses are the boundary of what holds: TLC finds each property violated when any one of the faults named, or
imports, are let in (`CredentialLifecycle_siblings` and, with imports, `CredentialLifecycle_faults`; see also section 4). `Core` is the
invariant without hypotheses: types, `DeletingIsDisabled`, `Paths` (which operation may be at which point, and that the
operations that need `mutationMu` have it) and `OneInside` (a taken refresh lock has one goroutine inside). The lock is
shown by classing every action as one that passes, takes or gives back a lock. `NoResurrection` is about the moment of
the write, but the file may go at any moment before it: `Living` adds that a refresh that has seen its account enabled
works on the pool's account and has a file, that an account the pool dropped is disabled, and that whoever removes the
file excludes every refresh. `Fits` adds to `CacheHonest` what a scan has read and what a refresh is about to apply.
`NotSpent` adds that who exchanges a token holds the file lock and has the tokens of the file: a sibling's rotation
cannot come between the reading and the exchange, and a spent token stays in the file only while it is being replaced.

**Requests and their bindings.** For every set of tenants, accounts, requests, aliases and catalogs.

| Theorem (`ContinuityProofs`) | Property |
|---|---|
| `TypeCorrect` | `TypeOK` |
| `SessionHome` | `SessionHasOneHome` |
| `StateHome` | `StateStaysHome` |
| `OwnerKnown` | `OwnerIsRemembered` |

None of these is inductive, as a request acts on bindings it read some steps ago, which may have expired or been
evicted. The invariant is therefore not that a binding a request holds is still in the store, but that it is true of
the requests that produced it: `Lives` says that the session of a route was opened by an answered request of the tenant
on the account and backend of the route, `Produced` that the key leads where the request that produced it was sent. Both speak
of requests that have been answered and never change again. They hold of the store (`Stored`), of what a request looked
up (`Looked`), of the route it follows (`Bound`), of what it sent (`OnWire`) and of what it will bind. `Free` covers the
request that follows no route, and is where the exception in `StateStaysHome` comes from.

**The retry loops.** For every number of requests and accounts, every set of backends, mix of requests and budget, from
`AttemptsAssumption` only.

| Theorem (`InferenceAttemptsProofs`) | Property |
|---|---|
| `TypeCorrect` | `TypeOK` |
| `LeasesExact` | `LeaseExact` |
| `NoBlindReplayCorrect` | `NoBlindReplay` |
| `PinnedHome` | `PinnedStaysHome` |
| `TriesBudgeted` | `TriesAreBudgeted` |
| `VerdictCorrect` | `VerdictNeedsRefresh` |
| `GivesUpLateCorrect` | `GivesUpLate`, an action property |

`Steps` classes the actions by what they leave alone (a request ends, goes on, works, streams...), so that a part of
the invariant is argued once per class. `Place` says where a request holds a lease and what its loop then knows.
`NoBlindReplay` needs that in a request which may still be sent every run so far was answered with a server error. `Budgeted` is the strengthening of
`TriesAreBudgeted`: the tries made, and the one under way, are covered by the attempts spent and one per refresh
(`Counted`), what was tried is excluded from the next choice or preferred because its token was refreshed (`Known`), and
an account about to be sent to was not tried before, or was tried last and then refreshed (`Order`). `VerdictNeedsRefresh`
follows from the last, as the two tries are consecutive.

**The replay cache.** For every set of requests, bodies and answers of any length, every limit and size of items, from
`ReplayAssumption` (limits of at least one, answers and inputs are sequences, sizes are numbers).

| Theorem (`ToolReplayProofs`) | Property | Hypothesis |
|---|---|---|
| `BudgetHolds` | `CacheWithinBudget` | |
| `ReplayHome` | `ReplayStaysHome` | |
| `Remembered` | `RememberedBeforeTold` | `DistinctNames` |

What the cache does are folds: the sum over the entries, the calls picked from an answer, those missing from an input.
The prover cannot instantiate an induction theorem that takes an operator, but it can use one that takes a set:
`FoldLemmas` proves induction over numbers and over finite sets in that form and derives from it that the folds of the
community modules compute what their recursion says (`FoldExists`, `FoldUnique`, `SequenceFold`); its last part, on one fixed operation, is for the streams below. On that rest
`TotalSums` (the sum does not depend on the order in which `CHOOSE` takes the entries), `TotalSplit` and `TotalWith` (it
splits, and grows by what is put in), and `EvictionsFit` (whichever entries are evicted, the new one fits).
`Accounts` is then inductive: every entry's size is that of its items, `bytes` is their sum. `ReplayStaysHome` is about
what was sent; the strengthening follows the calls from the answer to the queue of puts, the entry (`Home`: what is
under a key are calls `From` answers to its tenant, and of the named response if the key names one) and the input of
another request (`Allowed`). `RememberedBeforeTold` needs `Promises`: what is done of an answer is in the cache or in
the queue, and the queue is empty when the client is told. It also needs that no other request puts something else under
the same key, which is up to the upstream: `DistinctNames` says that the names of its responses differ, and that calls
with one item identifier within one tenant are the same. The run's instance satisfies it.

**Streams.** For every set of adapters and answers of any length, cut into any chunks, with any number of switches
between unfinished parts, from `StreamAssumption` (the three protocols, answers whose items and chunks are sequences,
no alias with the empty name).

| Theorem (`StreamExecutionProofs`) | Property |
|---|---|
| `TypeCorrect` | `TypeOK` |
| `HonestEndingCorrect` | `HonestEnding` |
| `CommitCorrect` | `CommitMatchesClient` |
| `AliasHiddenCorrect` | `AliasHidden` |

One step of the loop is a whole adapter, so most of the proof is about operators. `HandleEnds` is their sum: of an
adapter that is `Running` and an event its upstream can send (`Heard`: each dialect has its own names for the end),
`Handle` either goes on and writes nothing of the end (`Calm`), or fails with one error as the last event (`Fails`), or
succeeds, which needs an event that tells success (`Succeeds`; the sentinel of a Chat client is written after the
commit). It is shown for the native pairs, for the translator (`TranslatorGoes`, `FinishEnds`) and for the atoms of the
three dialects (`ChatDecodes`, `ResponsesDecodes`, `MessagesDecodes`) through the three encoders. The adapters go
through calls, blocks, atoms and numbers with folds whose elements and results have no type; `FoldLemmas` is instantiated
with the operation of each fold and says what every step keeps, the fold keeps (`LeftInvariant`). `FinishEndsStream` says
that an upstream that closes gives a success only to a Chat stream that had its reason to stop. On the upstream's side
`PartSays` shows that only the last part of a stream says anything of the end or of a reason to stop. The inductive
invariant `SInv` has a part for each phase: while it reads, nothing of the end was sent, and a reason to stop was met only
when everything was told; between the reading and the commit the stream is won; at the end it was told one ending, or
none because its client had left. `SInvBound` adds that a turn is bound exactly when the stream ended in success.

The last two are about what a Responses client was told, and `Faithful` is their inductive invariant. Everything that
was sent is `Fit`: no name in it is one of the wire's, and an event that creates or completes the response carries the
one id this adapter uses (`Id`: the upstream's if that speaks Responses too, else its own). For an event that lists
items this includes the items, so the invariant has to know what the final response is made of. An adapter that encodes
for Responses is therefore `Known`: its tools are kept under public names, and every output index it gave away is that
of a message, a thought or a call it has (`Places`), so that nothing else can appear among the items of the final
response. Each step of the encoder keeps this (`Keeps`, `HandleAtomsKeeps`, `FinishKeeps`); the folds use
`LeftInvariant` again. The native pair passes events on: `UpEvent` says of what an upstream sends that it names tools
only in calls, where `RestoreCall` undoes the alias. `CommitCorrect` puts `Faithful` and `SInvBound` together: what is
bound is bound of a stream whose success was told, under the id that was told.

**Only model-checked.**

- Liveness: `EveryRequestEnds`, `EveryOperationEnds` and the like need fairness and `ENABLED`, which the prover does not
  have.
- The rest of `StreamExecution`: `WellFormed` and `SameAsNonStreaming`. They are about the content of what the nine
  pairs write and its order, of which the lemmas keep only whether it ends the
  stream, the names of tools and the id of the response.
- `OutputsHaveCalls`. It rests on what clients send (no call twice in an input, a call before its output), which the run
  enumerates, and on positions in sequences that are filtered and spliced.
- The three properties that runs show violated, and those of "Disagreements without a run".

## 6. What is not modelled

- HTTP routing and JSON decoding, header values, model names, configuration: no state of their own.
- The byte-level parsing of event streams and its idle timers; their users see an event, an end or an error.
- The conversion of requests (`chat_prepare.go`, `responses_compat.go`, `converter.go`, most of `internal/inference`) and
  of catalogs: pure functions over JSON documents, well within the reach of unit tests.
- The queue of background catalog refreshes; a change of the catalog is an event in `InferenceAttempts` and `Continuity`.
- Code that no live path reaches: `OpenStream` and the streams of `responses_compat.go` and `TranslateStream`, whose
  compatibility argument is always nil, and `PrepareCompatibleResponses`, which only tests call.
- Rebuilds of the scheduling snapshot that overtake one another, several affinity keys, and the LRU order of the affinity
  cache; model cooldowns apart from account cooldowns; several accounts in one auth file.
- The pooling of HTTP connections, logging.
