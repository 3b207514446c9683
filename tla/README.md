# A TLA+ development of authorize-svc

`authorize-svc` decides, inline and in milliseconds, whether an agent may make a
payment: APPROVE, DENY or REVIEW. Around that decision it authenticates and
limits requests, serves policies that are edited and published meanwhile, keeps a
hard spending cap in Redis and Postgres, replays decisions to retrying clients,
and writes a hash-chained audit log in the background. This directory models those
parts in TLA+, checks them with TLC on small instances, and proves the most important
properties for every instance with TLAPS.

Source paths below are relative to `src/services/authorize-svc/internal/` unless
they start with `src/`. `PROJECT.json` maps every definition to its lines.

## 1. The system

| Part | State it keeps | Operations | Talks to |
|---|---|---|---|
| Authorize endpoint (`server/authorize.go`) | none of its own | `POST /v1/authorize` | idempotency cache, engine, audit writer |
| Idempotency cache (`idempotency/`) | a decision per (org, key), TTL 24 h | Lookup, Save (overwrites) | Redis |
| Engine (`engine/`) | none | Authorize: resolve policy, evaluate, reserve, combine, sign | bundle provider, reserver, signer |
| Verdict algebra (`engine/verdict.go`) | none | Combine, effectiveOutcome | - |
| Local predicates and policy files (`engine/predicates.go`, `policy/policy.go`) | none | six predicates, Load, Parse | - |
| Rule validation and compilation (`policyctl/validate.go`, `bundle/bundle.go`, `simulate.go`) | none | Validate, CompileRules, Simulate | - |
| Budget reserver and counter (`budget/reserver.go`, `redis.go`) | cents counted per (org, budget, window), with a TTL | Reserve, Release, Set, as Lua scripts or single commands | Redis, hold ledger |
| Hold ledger (`hold/postgres.go`) | a row per approved decision: held, captured, voided, expired | Place, Get, Capture, Void, ExpireDue, ListActiveByWindow | Postgres |
| Hold endpoints (`server/holds.go`) | none | capture, void | reserver |
| Reconciler (`budget/reconcile.go`) | the batch it is working on | ReleaseExpired every minute; RebuildWindow (called by nobody) | ledger, counter |
| Audit writer (`audit/writer.go`) | a buffered channel, a closed flag, an in-flight count | Enqueue, worker, Flush, Close | audit store |
| Audit log (`audit/postgres.go`) | the rows of `decisions`, an advisory lock per org | Append, Get, List, verification | Postgres |
| Authentication (`auth/`) | key cache (5 min), nonces (10 min) | Authenticate | Redis, Postgres |
| Key administration (`auth/admin.go`, `server/keys_admin.go`, `provision.go`) | the rows of `api_keys` | create, provision, revoke with eviction | Postgres, Redis |
| Policy control plane (`policyctl/`, `server/policies.go`) | working copies, immutable versions, the org's active version | Create, Update, Publish, Rollback | Postgres, bundle provider |
| Bundle provider (`bundle/`) | a compiled policy per org, in memory | Active, Invalidate, refresh every 5 s | policy store |
| Rate limiter (`ratelimit/`) | counters per key and second or minute | Allow | Redis |
| Signing, SDKs, dashboard, tools | - | pure, sequential or presentation | - |

What is hard here:

* **No transaction spans Redis and Postgres.** The counter gates, the ledger is
  the truth, and each operation on a budget is a chain of calls to one or the
  other with other processes, errors and crashes in between.
* **Capture, void, expiry and compensation race** for the same reservation from
  different requests and service instances, and only one may release it.
* **Publishing is a chain of writes.** Version, row and bundle pointer are three
  statements, the row is written back whole as it was read, and every instance
  serves a copy that loads, reloads and refreshes overwrite in any order.
* **The gate acts on what it read earlier**: a cached key record against its
  revocation, a timestamp against the nonce that outlasts it, a counter named
  after a second that has passed.
* **Rules pass through several tables**: schema, validator, wire form, compiler and
  file loader each decide for themselves what a field means.
* **Retries.** The idempotency cache is read before a decision is made and
  written after it, on the request's own context.
* **The audit path is asynchronous**: a bounded channel, a lock that orders
  sends against its close, a worker that must drain it, and a log in which
  several instances append to one chain.

## 2. The modules

| Module | Models | Depends on |
|---|---|---|
| `Money` | sums of amounts over sets of decisions | - |
| `Budget` | counter, reserver, ledger, hold endpoints, reconciler | `Money`; `BudgetGate` as its abstraction |
| `BudgetGate` | what a budget promises: one answer, in one step, within the limit | - |
| `Verdict` | the verdict algebra | - |
| `Rules` | rule documents, Validate, CompileRules, Load, the predicates, Authorize and Simulate over a policy | `Verdict` |
| `Authorize` | endpoint, idempotency cache, engine | `Verdict`; the budget as `BudgetGate` |
| `PolicyBundle` | control plane and bundle provider | - (a document is valid or not) |
| `RequestGate` | authentication, key administration, rate limiter | - |
| `AuditWriter` | the asynchronous writer | - (Append as one step) |
| `AuditLog` | `PostgresStore.Append` of several instances | `AuditChain` as its abstraction |
| `AuditChain` | a list per org that only grows at its end | - |
| `MC*` | instances for TLC (`AuditWriter` and `PolicyBundle` need none) | the module they are named after; `MCVerdict`: `Rules` |
| `*Proof` | theorems and proofs | the module they are named after; `BudgetGateProof`: `BudgetProof`; `VerdictProof`: `MCVerdict` |

Two abstractions join the pieces. `Authorize` uses the budget as `BudgetGate`
describes it, and `BudgetGateProof` proves that `Budget` implements that gate; so
the interleavings inside the budget and those of retrying requests need not be
multiplied. In the same way `AuditWriter` takes Append for one step that may
fail, and `AuditLog` shows that it is. Two more seams are by data: `Authorize`
takes the results of the local predicates as arbitrary lists, which `Rules`
computes, and `PolicyBundle` takes a set of `Publishable` documents, which is what
`Validate` of `Rules` decides.

### Budget

One instance is one (org, budget). `counter[w]` is the Redis key of window `w`
(a missing key reads 0), `ledger[d]` the state column of decision `d`'s row,
`wk[d]` the window key that was fixed when its request read the clock, and `due`
the rows whose `expires_at` has passed: expiry is *computed* by `Get`
(`Effective`) and *written* only by ExpireDue. Each Redis or Postgres call is one
action: `ReserveBegin`, `CounterReserve(Fails)`, `Place(Fails)`, `UndoReserve`
are `Reserver.Reserve`; `CaptureGet`/`VoidGet`, `CallUpdate`, `VoidRecord`,
`VoidReport`, `CallConfirm`, `VoidRelease` are the two endpoints with the retry
loops of `PostgresStore`; `ExpireDue`, `ReleaseExpired` and `RebuildList`,
`RebuildSet` are the reconciler. `released` and `told` are history variables, for
what left the counter and what callers were answered.

`Faults` says what may go wrong. *Benign* faults (crashes between any two steps,
Redis errors with or without effect, Postgres errors without effect) are those
the code defends the cap against. The others are events the code has no defence
for - a commit whose answer is lost, a Redis restart, RebuildWindow, a READ
COMMITTED overlap of ExpireDue - and switching them on shows what is lost.

The last of these, `snapshotRace`, is no failure but ordinary operation of Postgres.
Without it ExpireDue is one step: its statement overlaps no other write to its rows.
With it, ExpireDue is two: the inner SELECT reads a snapshot, and the UPDATE re-checks,
on the row version it finds, only the key. A capture in between is undone
(`budget_terminal`), a void or another reconciler's ExpireDue in between means that
the amount is released twice (section 3). What is said below about the
cap and about single releases therefore holds of statements that do not overlap.

Amounts are naturals; `toCents` failing is the UNAVAILABLE branch of
`ReserveBegin`. Windows are calendar windows.

### Verdict and Authorize

`CombineLoop` is the loop of the code with its early return; `Combine` is the
precedence the rest of the project uses; `LoopIsPrecedence` is why it may.

In `Authorize` every HTTP request is a process that walks through
`handleAuthorize`: Lookup, EvalLocal, Reserve, Sign, Save, Respond, EnqueueAudit.
Requests with the same key are a client and its retries; each mints its own
decision. `Local` gives, per key, the results of the local predicates, an
arbitrary list. `told[r]` records the decision a request was answered with;
headers are left out. A disconnected client (`gone`) has its
context cancelled: cache calls fail, a policy that must be loaded may fail.
`net/http` may hold a small response back until the handler returns, so the model,
which lets the answer reach the client before the audit hand-over, allows more
than the server does.

### Rules

A rule document is a record with the fields it has: a field may be missing, empty
or malformed, and `Wire` drops empty fields where the Go struct says `omitempty`.
`Validate` is the schema plus the hand-written checks, `CompileRules` and `Load`
the two ways to a policy, with the types each of them knows. There are two readers of
amounts: `ParseMoney`, by which predicates read any decimal, and `ToCents`, by which
the reserver reads an amount and a limit, in whole cents and never negative. Each
returns a set of at most one number. The schema admits a limit of any number of
decimals, so a budget of "5.125" can be published; `ReserveAnswers` then leaves the
reserver no answer but UNAVAILABLE. `Simulate` takes a draft, which must validate, or
the rules of a stored version, which are compiled as they are.

`EvalLocal`, `Authorize` and `Simulate` build the
rows of a decision from the six predicates, the default deny, the first budget of
the agent and the obligation to capture; `Kept` is the loop by which the code filters
its lists. Explanations are reduced to the rule that
a refusal names. `MCVerdict` enumerates policies and requests over them.

### PolicyBundle

One instance is one organisation. `policies`, `versions` and `bundle` are the three
tables; `cache[i]` is the provider's entry on instance `i`. A version hash is the
pair (policy, document): ContentHash is taken to be injective. A control-plane
request is a slot that reads the row (`Update`, `Publish`, `Rollback`), then makes
one store call per action - `WriteWorkingCopy`; `LookupVersion`, `InsertVersion` or
`FindTarget`; `SetActive`; `PointOrgBundle` - and reloads the local cache
(`InvalidateRead`, `InvalidateStore`). `CallFails` ends a request at any of them, and
since every store call is also the last step before such an end, it stands for calls
that failed with and without effect. `ColdMiss`, `ColdStore` are a decision
request that misses the cache, `RefreshRead`, `RefreshCompare`, `RefreshStore` the
ticker. An organisation that has published nothing is decided under the static boot
policy, if the service was started with one (`engine/engine.go:237-239`); that policy is
loaded from a file, never enters the cache and is left out here (`Rules` has it as
`Load`). So `ServedIsPublished` speaks of what the provider serves, not of every
decision. `alone` is a history variable: no other request has written since this one
read.

### RequestGate

A delivery is one arrival of a message: `LookupCache`, `LookupSource`, `FillCache`
are `CachedKeyStore`; `Verify` the signature, skew and status; `Remember` the
SETNX; `ReadTime`, `HitBurst`, `HitWindow` the limiter. The clock ticks between any
two of them, but not for more than `MaxDelay` between a read and the write that
rests on it. A limiter call that errors lets the request through, and may have
been counted or not. `RevokeKey` and `Evict(Fails)` are the revoke endpoint. A message is
signed or not; several deliveries may carry the same one.

### AuditWriter and AuditLog

`AuditWriter` has the RWMutex (a waiting writer keeps new readers out), the
channel with its capacity, the worker that ranges over it and exits when it is
closed and empty, the WaitGroup, any number of Close calls and one Flush.

`AuditLog` has one transaction per appender: advisory lock, tail, INSERT ... ON
CONFLICT DO NOTHING with both unique indexes of migration 0002, commit, rollback.
Sequence numbers are drawn and never returned. A record stands for its own hash:
SHA-256 is taken to be injective.

## 3. What is checked

Each property of each passing run has a mutant in `PROJECT.json`: a plausible
bug in one definition under which TLC finds the property violated.

| Run | Shows |
|---|---|
| `budget_safety` | two requests that do not both fit, two calls, two reconcilers whose statements overlap no other write, a rollover, all benign faults: the cap holds, the counter covers the ledger and counts only requests that were counted once and not released, nothing is released twice, answers stay true, rows follow their state machine, and every step is one of `BudgetGate` |
| `budget_faults` | every fault, the split ExpireDue and crashing reconcilers included, fair: an overdue hold is resolved in the end |
| `verdict` | every list of up to four results: loop = precedence, no fabricated approval, one more result is never more permissive. Every policy of up to two rules and a budget: what validates compiles and is served whole, a decision, a decision under a policy file and a dry run say what the documents say, and nothing is held for an amount above the limit |
| `policy` | two control-plane requests, a cold load, the refresher, failures and a restart: the provider serves only published and validated versions, parents form a history, a publish that nobody disturbed has taken effect as a whole, and instances converge |
| `gate` | arrivals of signed and unsigned messages at the boundaries of skew, TTLs, seconds and minutes: a signed message is accepted once, revocation takes hold, the limiter neither admits too many nor refuses without cause |
| `authorize_mixed` | retries with mixed keys under every fault: an approval is backed by the budget, only approvals are charged, and what was answered, fresh or replayed, is handed to the audit writer unless its process died |
| `authorize_retry` | a client that retries one attempt after the other gets one decision and one hold |
| `auditlog` | three appenders, two orgs, failing statements, lost commits: linear chain, acknowledged is logged, no INSERT meets a moved tail, rows appear in order and once each, every Append returns |
| `auditwriter` | no send on a closed channel, nothing dropped or handled twice, the Close that closed the channel and a Flush have drained when they return (`DrainedOnReturn`), and every Enqueue, Close and Flush returns (`AllReturn`) |

Three runs end in a counterexample on purpose: a comment or a contract says more
than the code does. `PROJECT.json` quotes the text.

| Run | What the code does |
|---|---|
| `budget_ambiguous` | a Place that committed with a lost answer is compensated: its row is held and no longer counted, and the cap is exceeded |
| `budget_terminal` | ExpireDue turns a row captured meanwhile into an expired one |
| `authorize_disconnect` | a disconnect after the reserve makes the retry reserve again |

`authorize_retry` has no disconnect, signer error or crash: each of them ends an
attempt after the reserve and before the save, and the next attempt reserves again.

Other disagreements between text and code met while modelling have no run of
their own:

* RebuildWindow overwrites a reservation made since it read the ledger: add
  `"rebuild"` to `Faults` in `MCBudget_safety.cfg` and `CounterCoversLedger`, then `NoOversell`, falls.
* Double release. "Each is released from the counter exactly once"
  (`hold/postgres.go:128-129`; also `budget/reconcile.go:59-61`), but when the ExpireDue
  statements of two reconcilers overlap, both have selected the due row, the second
  UPDATE waits for the first and re-checks only the key, and both return the row and
  release its amount: give `MCBudget_terminal.cfg` two reconcilers and the invariant
  `ReleasedAtMostOnce`, and it falls after ten steps. A void between the SELECT and
  the UPDATE has the same effect. The counter is then too low: with three decisions
  of 1, 2 and 2 cents and a limit of 3, `NoOversell` falls as well.
* Close "drains what is queued, and waits for the worker to exit" (`audit/writer.go:92-93`),
  but a Close that finds the channel closed returns nil at once (`writer.go:96-98`),
  with records still in the buffer. `main.go:293` calls it once. `DrainedOnReturn`
  promises the draining of the first Close, and of the others only that there was a first.
* A budget whose limit has more than two decimals is admitted by the schema and
  then UNAVAILABLE to every request, since `toCents` cannot read it.
* A release that fails leaves the counter too high until the window's TTL; `Run`
  (`budget/reconcile.go`) never calls the RebuildWindow that comments rely on.
* A caller told that a hold has expired may see it captured afterwards: the
  UPDATE of Capture does not test `expires_at`, so a request that passed its Get
  earlier still wins.
* Two *concurrent* attempts with one key get two decisions: set `Retries` to
  `"concurrent"` in `MCAuthorize_retry.cfg` and both its invariants fall.
* The replay of a shadow decision lacks `X-Shadow`.
* A policy's `agents` (`docs/policy-schema.md`) are stored and validated, and no
  code path reads them: `CompileRules` takes the agents of each rule only, so a
  policy aimed at one agent applies to all. `Rules` has no such field for that reason.
* "An empty list is permitted" for a blocklist, but `omitempty` drops the list on
  the way to the schema, which requires it: such a draft cannot be published.
* A policy with budgets only compiles to no predicate, and denies everything by
  default; of several budgets in scope of an agent only the first is consulted.
* A simulated request whose `evaluated_at` cannot be parsed is evaluated as the
  zero time: a Monday, midnight. Simulation ignores budgets.
* Update and Publish write the row they read: a concurrent edit, or a publish, can
  be undone without an error. `UndisturbedTakesEffect` therefore speaks of requests
  that nobody overtook.
* "Immediate" convergence of the publishing instance is undone by a slower load
  that had read the old pointer; the next refresh repairs it (`Converges`).
* A publish that fails between `SetActive` and `PointOrgBundle` leaves the policy
  active and the old bundle served until somebody publishes again.
* "Immediate" revocation: a lookup that read the row before can cache it after the
  eviction, and an eviction may fail; the cache TTL bounds both (`RevokedIsRefused`).
* The floor of the nonce TTL, twice the skew, leaves no margin for the time between
  the skew check and SETNX, and the defaults (10 and 5 minutes) sit on that floor.
  For every TTL the nonce is remembered until the timestamp leaves the window; that
  a message is accepted once needs a TTL above the floor (`NonceMargin` in `AcceptedOnce`).
* The fixed windows admit twice the limit around a minute's boundary.
* Flush counts a record whose Append failed as done, so it promises that the
  writer is drained, not that the records are persisted.
* Close waits for its lock without regard to its context, so a store that hangs
  while a sender waits keeps Close from returning.

### Bounds

* Budget: two requests of 2 cents under a limit of 3 are the smallest pair that
  does not fit together. Two calls give every pair of capture and void on one
  row. Two windows give a rollover with requests on both sides of it.
  Two reconcilers split a backlog, and one may die with its batch.
  `budget_faults` keeps one row, one call and two reconcilers with one-row batches:
  enough for a batch to be lost in a crash and for the two to overlap. A backlog
  larger than a batch (two rows, one-row batches) passes too, with the faults crash,
  ledgerError and snapshotRace (278,600 states); with all faults it takes too long
  to be kept as a run. The counterexample of `budget_terminal` needs one row.
* Authorize: three requests make a retry that meets a cached decision while a
  different transaction runs; four make two retries and a rival for the cap.
* AuditLog: three appenders are a holder, a waiter and a repetition; `MaxSeq = 3`
  bounds the numbers drawn and so the transactions begun.
* AuditWriter: three handlers and a channel of one slot, so that sends block
  behind the worker; two closers, of which the second meets the closed flag.
* Policy: one policy, one name, two valid rule sets and an invalid one; two requests
  in flight and four operations in all, so that a publish, an edit and a rollback
  can overlap and be repeated. One instance, since instances meet only in the
  store; its cold load and refresher race its own reloads. One restart.
* Gate: two deliveries of three messages (a signed one, a later signed one with
  another nonce, an unsigned one with the first nonce). `MaxSkew` 1, nonce TTL 4, cache TTL 2,
  minutes of two seconds, limits of one and a delay of one let every boundary be
  met from both sides before `MaxClock` 5. No limit is zero: main wires
  `DefaultTiers`.
* Verdict: 39 rule documents, with each field missing, empty or malformed somewhere,
  in every pair, and a budget as third rule; requests that differ from a base in
  one or two places, on both sides of every boundary of the time windows.
* Symmetry is used over the calls and reconcilers of `budget_safety` and the
  deliveries of `gate`; neither run checks liveness.

Deadlock is checked for Budget, where calls can always be made. The requests of
the other runs are finite in number, so these end.

### Fairness

* Budget: a request, once begun, and a call run on (goroutines are scheduled and
  calls return or fail), and the reconciler's ticker keeps firing. Time is under
  no obligation to reach a TTL or a rollover, and nobody to call.
* Authorize: a goroutine that serves a request runs on.
* PolicyBundle: only the refresher. Its ticker fires (weak fairness of reading and
  comparing), and the store, which may refuse any single read of a version, does not
  refuse all of them (strong fairness of `RefreshStore`). Requests may hang.
* AuditLog: strong fairness of an appender's steps: Postgres queues the waiters
  of an advisory lock, so one that waits is served in the end.
* AuditWriter: the worker and closers are scheduled; a blocked send is served
  in turn (Go's channels queue senders), hence strong fairness. Append may fail
  but is taken to return; the code gives it no deadline (see above).

## 4. What is proved

All proofs hold for every value of the constants that satisfies the named
assumptions of the modules: finite sets of decisions, deliveries and records,
natural amounts, limits and TTLs, non-empty batches, a `None` that is nothing
else. Those that say more than a type are

* `LimiterMarginAssumption`: a request reaches both counters within the second by
  which they outlive the second or minute they are named after.
* `CacheTTLAssumption`: the key cache's TTL is positive. `AUTHZ_KEY_CACHE_TTL=0`
  would make go-redis store entries without expiry, and `RevokedIsRefused` false.

The hypotheses of a theorem on `Faults` and `Retries` are part of its statement:

| Theorem | Statement |
|---|---|
| `BudgetProof!TypeCorrect` | `Spec => []TypeOK`, all faults |
| `BudgetProof!CounterCovers` | benign faults: `Spec => []CounterCoversLedger` |
| `BudgetProof!BudgetIsHardCap` | benign faults: `Spec => []NoOversell` |
| `BudgetProof!ReleasesAreExclusive` | benign faults, so no overlapping ExpireDue: `Spec => []ReleasedAtMostOnce` |
| `BudgetProof!RowsFollowTheStateMachine` | all faults but `snapshotRace`: `Spec => TerminalStates` |
| `BudgetProof!AnswersStayTrue` | all faults but `snapshotRace`: `Spec => []AnswersHold` |
| `BudgetProof!NothingCountedTwice` | all faults but `rebuild`: `Spec => []NoPhantomSpend` |
| `BudgetGateProof!BudgetImplementsGate` | benign faults: `Spec => Gate!Spec` |
| `VerdictProof!CombineIsPrecedence` | `Spec => []LoopIsPrecedence`, lists of every length |
| `VerdictProof!ApprovalsAreEarned` | `Spec => []NoFabricatedApprove`, lists of every length |
| `VerdictProof!ResultsOnlyTighten` | `Spec => NeverMorePermissive`, lists of every length |
| `VerdictProof!ValidIsServable` | any list of rules that `Validate` passes compiles and is served whole, and every `max` in it can be read |
| `VerdictProof!PublishedServes` | `Spec => []PublishedIsServable` |
| `VerdictProof!AnswersFollowRules` | the answer over any published or file-loaded policy, to any request, with any answer of the reserver, is the one its documents give |
| `VerdictProof!HoldsFit` | budget is held only for an amount between zero and the limit of a budget of the agent, for any policy and request and any answer that `toCents` allows |
| `VerdictProof!DecisionsFollow` | `Spec => []DecisionFollowsRules`, dry runs included |
| `VerdictProof!AdmittedIsLoadable` | distinct local rules that the schema admits are accepted by the loader, for every document |
| `VerdictProof!PredicatesFollowDocuments` | a predicate is satisfied iff its document permits the request, for every admitted document and every request |
| `AuthorizeProof!AuthorizeTypeCorrect` | `Spec => []TypeOK`, all faults |
| `AuthorizeProof!ApprovalsAreBacked` | `Spec => []ApproveIsBacked`, all faults |
| `AuthorizeProof!OnlyApprovalsAreCharged` | `Spec => []HoldsAreApproved`, all faults |
| `AuthorizeProof!RetriesAgree` | attempts one after the other, no cache error, all other faults: `Spec => []OneDecisionPerKey` |
| `AuthorizeProof!RetriesReserveOnce` | attempts one after the other, no fault but `policyError`: `Spec => []OneHoldPerKey` |
| `AuditLogProof!LogTypeCorrect` | `Spec => []TypeOK`, all faults |
| `AuditLogProof!ChainStaysLinear` | `Spec => []ChainLinear`, all faults |
| `AuditLogProof!AckedStaysLogged` | `Spec => []AckedIsLogged`, all faults |
| `AuditLogProof!AppendsNeverFork` | `Spec => []NeverForks`, all faults |
| `AuditLogProof!LogImplementsChain` | `Spec => Chain!Spec`, all faults |
| `AuditWriterProof!WriterTypeCorrect` | `Spec => []TypeOK` |
| `AuditWriterProof!NeverSendsOnClosed` | `Spec => []NoSendOnClosed` |
| `AuditWriterProof!NothingDropped` | `Spec => []HandedOverOnce` |
| `AuditWriterProof!ReturnsAreDrained` | `Spec => []DrainedOnReturn` |
| `PolicyBundleProof!PolicyTypeCorrect` | `Spec => []TypeOK` |
| `PolicyBundleProof!OnlyPublishedIsServed` | `Spec => []ServedIsPublished` |
| `PolicyBundleProof!LineageStaysHistory` | `Spec => []LineageIsHistory` |
| `PolicyBundleProof!UndisturbedPublishTakesEffect` | `Spec => []UndisturbedTakesEffect` |
| `RequestGateProof!GateTypeCorrect` | `Spec => []TypeOK` |
| `RequestGateProof!SignedIsAcceptedOnce` | `Spec => []AcceptedOnce` |
| `RequestGateProof!RevocationTakesHold` | `Spec => []RevokedIsRefused` |
| `RequestGateProof!LimiterStaysExact` | `Spec => []LimiterExact` |

**Budget.** NoOversell is not inductive: it speaks of the ledger, and what bounds
the ledger is the counter. The invariant `IInv` says that an open window's counter
covers everything *backed* - reservations between counter and ledger, held and
captured rows, and rows already void or expired whose release is still owed - and
is itself within the limit (`CounterBounds`). A release must then take its
decision out of the backed ones in the same step, which needs that one process
owes it (`ReleaseHasOneOwner`) and that what was released never comes back
(`ReleasedIsFinal`). A window that has closed may lose its counter, so for it only
the bound on the backed amount is kept, and nothing new can be backed there. Sums
are cardinalities of sets of coins (`Money`), so that adding and removing a
decision follow from the library's theorems on finite sets instead of an
induction. `Faults \subseteq Benign` is a hypothesis because the theorem is false
without it: that is what `budget_ambiguous` and the rebuild and the
double release described above show.

Three more properties survive faults that break the cap, and are proved from a
weaker invariant that no fault disturbs (`RowInv`: whatever is done to a row -
a state, a release, a claim of a call or a reconciler - is done for a request that
is past Place). Then a Place never meets an existing row, so rows follow the state
machine; a void that is past its UPDATE has voided its row (`VoidsAreMade`) and
voided is final, so what it answers later is still true. The snapshot race is
excluded because `budget_terminal` shows it to break both. For `NoPhantomSpend`
each step either counts an amount together with the request that joins
`Counted`, or releases one, and a release takes off no less than its request
leaves behind, floor or not.

**The gate of the budget.** The answer of the abstract budget appears when a
request ends, its row when Place inserts it. The interesting step is `Place`: the
abstract budget must have room at that very moment, though the concrete one checked
the counter earlier; `CounterBounds` carries the room from the check to the insert.

**Verdict and Rules.** The engine is loops over lists, so these proofs are inductions
on the turns of a loop. The library's induction theorems take an operator, which no
installed prover can instantiate; but that the natural numbers are well-founded and
that a non-empty set then has a minimal element are statements about sets, and from
them follow `LeastNatural` and `Induction`. A loop is a recursive function, a CHOOSE of
something that might not exist: one induction shows that there is a run of the loop
over each list (`RunExists`, `KeepingExists`), a second what it ends in (`RunEnds`:
the precedence; `KeepingHolds`: the elements at the positions to keep and no others).
`CombineLoop` and `Kept`, the loop behind every filter of the code, are then known for
lists of every length, and the theorems follow:

* `ValidIsServable`: the compiler's own list of dropped types and the validator's list
  of local types split an admissible rule set in the same way, so what Compile loads
  is what the parity check has already loaded.
* `AnswersFollowRules`: `Stands` says what a policy in force has of its rules - a
  predicate or a budget for each, of the same name and scope, that judges as the
  document does. Published policies have it because the wire form loses nothing
  that is read with its zero value (`WireJudgesAlike`), file policies because every
  document that can be built is judged as it reads (`PredicateFollowsDocument`). From
  there on the two are one case: the rows are those of the rules in scope, their
  verdict depends on the documents alone (`LocalVerdict`), which is why a dry run
  agrees, and the one row that may be appended to an approval is the budget's.

Length and content of policies, requests and the reserver's answers are arbitrary here,
and so are `MaxResults` and `MaxRules`; the one assumption on a request is that its time
is a minute of the day. The amounts that predicates can read are the seven texts of `MoneyValue`, the
reserver the four of `CentsValue`; any other text is unreadable. `HoldsFit` compares
the two: a text that `toCents` reads, `ParseMoney` reads as the same number
(`CentsAreExact`). `AdmittedIsLoadable` needs the wire form: of an
`agent_permission` the schema asks for a list, the loader for a non-empty one, and
only `omitempty` makes these the same. The three comparisons of a time window are shown
to be one on the clock's circle.

**Authorize.** `Stages` ties each request's results, verdict and budget answer to
its program counter; `OnlySigned` says that what is cached or answered was
signed, which is what makes a replay as good as a fresh answer. The two lemmas on
`Combine` (a last result that denies or flags prevents approval; one that is
satisfied changes nothing) connect the budget's outcome to the verdict.

For retries: one attempt with a key is under way at a time (`InTurn`), one that is
deciding found the cache empty (`FirstToDecide`), and what a caller was told is in the
cache under its key (`ToldIsSaved`), since Save comes before the answer; so a later
attempt replays it. A crash or a disconnect before the save loses a decision nobody
was told. Holds need more (`GrantIsSaved`): the attempt that reserved must get as far
as Save, which a disconnect, a signer error or a crash prevents; `authorize_disconnect`
is the counterexample, and the hypothesis excludes them.

**AuditLog.** Linearity needs what the lock protects: whoever is past the lock
holds it (`HoldsLock`), the tail it has read is still the newest row and the row
it has inserted is newer than all (`Pending`), and every org with rows has a
newest one (`Ordered`). That appends never fork follows: the newest row of a linear
chain has no successor, and with one row per record (`LoggedOnce`) its hash names
no other row. For the refinement, the place of a row in its org's list is the number
of rows before it; `Numbered` says that the places 1 to n are taken by one row each,
so that the list is well defined, and a commit adds one row, at the end.

**AuditWriter.** Close takes the lock that senders hold while they send, so nobody
is sending when it sets `closed`, and a record that arrives later goes inline. That a
record is in one place needs that no record is in the buffer twice (`Distinct`) or
there before it was handed over (`Fresh`). The WaitGroup's count is the number of
records being sent, in the buffer or with the worker (`Counted`), so a Flush that sees it at zero
has drained what was promised before; the worker exits only when the channel is
closed and empty (`ExitedIsDrained`), and the Close that waits for it is the one that
closed the channel, which exists before any Close finds it closed (`ClosedBySomeone`).

**PolicyBundle.** `ServedIsPublished` looks at what is served; to be inductive it
must also speak of what requests carry. `IInv` says that a hash anybody holds (row,
pointer, cache, load in flight, request about to activate it) names a stored
version, that a hash on its way into `policy_versions` is of a valid document, and
that row and hash of a request belong to the policy it was made for. Each part only
asks for membership in the set of stored hashes, which grows, so a step of one
request cannot harm another (`CallMonotone`): stale rows are harmless for this
property, though not for the edits they undo. For the lineage, the parent a
publisher records is the active hash of the row it read, which is stored by the
same invariant, and the insert is guarded by the absence of its own hash; the new
version is last, so all others came before it. For `UndisturbedTakesEffect`, a
request that is still alone sees the row as it read it, and after each of its writes
the row or the bundle is what it wrote (`EffectOK`, one clause per program counter);
any write of another request ends its being alone.

**RequestGate.** A nonce entry is written no earlier than a check that found the
timestamp at most `MaxSkew` ahead, and lives `NonceTTL`, which is at least twice that:
so it lasts until the timestamp leaves the skew window, for every TTL that `New` can
produce. A later delivery of the message that passed the check inside the window
reaches SETNX at most `MaxDelay` after it, and finds the entry if the TTL covers that
delay too, which is `NonceMargin`. An active record of a revoked key was read before the
revocation, or comes from a cache entry whose fill began before it; such an entry is
written at most `MaxDelay` later and expires after `CacheTTL`. A limiter counter is
live for as long as its second or minute can still be hit, it counts at least the
metered requests that passed, and at most those that passed until it first
refuses, so that both bounds of `LimiterExact` follow from comparing it with the limit.

**Only model-checked.** Liveness (`DueHoldResolved`, `AnswersAreAudited`,
`AppendReturns`, `AllReturn`, `Converges`): fairness and `ENABLED` are outside the
prover's reach. Every other property that a passing run checks is also a theorem.

## 5. What is not modelled

* The rolling window, the int64 width of `toCents`, command retries inside
  go-redis, and the in-memory stores that the tests use.
* The wording of explanations, canonical encodings, content hashes and signatures.
* Reads: listing of decisions, policies and keys, and chain verification.
* Routing, request ids, panics and problem documents; start-up, configuration and
  telemetry.
* SDKs, dashboard, documentation site, contracts, scripts: sequential clients,
  presentation, generated or declarative code.

`PROJECT.json` lists each with its reason, and the hazards that no property
covers yet.

## 6. Plan

Done: Budget, BudgetGate, Verdict, Authorize, AuditLog, AuditWriter, Rules,
PolicyBundle and RequestGate. Every safety property that a passing run checks is also
a theorem. Next, in this order:

1. Proofs: the retries of one key with concurrent attempts, stated as what still
   holds.
2. Budget extensions: rolling windows, resent commands, the in-memory ledger, a
   fixed-width `toCents`.
3. **Listing**: pages by `seq` against concurrent appends; the SDKs' fail modes.
