# Canary: TLA+ specifications

Canary takes webhooks from point-of-sale sources, seals each one into a
per-merchant hash chain, turns it into canonical retail records, and anchors the
chain with Merkle roots that an external service inscribes. Around this pipeline
stands a large set of domain services over one Postgres database: inventory,
tasks, loss prevention, identity, purchasing, the item catalogue, pricing, and
the web front end. The specifications model the pipeline from the HTTP handler
to the anchor, the domain services that have state of their own, and the
handlers and pages statement by statement. They concentrate on what a test
hardly produces: calls that take effect although their caller sees an error,
processes that stop between two calls, concurrent workers, retries, messages in
any order, and values read in one statement and relied on in the next.

`PROJECT.json` lists every part of the system with the modules that model it,
every run, the source lines behind each definition, and every hazard with the
line where it bites and the properties that would catch it.

## 1. The system and its parts

    source network --POST--> gateway --XADD--> protocol:events (Valkey stream)
                              |  nonce keys        |            |
    poller, DLQ replay -------+--XADD------------->|            |
                                                   v            v
                                            Sub 1 workers   Sub 2 workers --adapters
                                                   |            |
                                       protocol.evidence   transactions, lines ---> Stock consumer,
                                                   |       tenders; events:dlq      detection rules
                                                   v
                                            Sub 3 workers --> inscription service
                                                   |
                                    protocol.anchors, protocol.evidence_anchors --> L402 proofs

| Part | State | Operations | Hard behaviour |
|---|---|---|---|
| Webhook gateway (`protocol/webhook`, `hmac`, `publisher`) | nonce keys with a TTL and the stream, in Valkey; calls in flight | `ServeHTTP`: secret look-up, `Verify` (timestamp, HMAC, nonce), `Publish` | retries racing each other, a nonce spent on an event that is then not published, expiry between two checks |
| Sub 1, Hash & Seal (`protocol/sub1`) | consumer group and pending list, `protocol.evidence`, advisory locks | `EnsureGroup`, `processBatch`, `handle`, `WriteEvidence`, `LookupPrevChainHash` | look-up, insert and commit are separate calls; crashes between commit and ack; timestamps out of order |
| Sub 2, Parse & Route (`protocol/sub2`, `adapters`) | consumer group, dead-letter stream, transaction tables | `handle`, `Dispatch`, `Persist`, `deadletter`, each source's `Parse` | one sale with two workers at once, a lost commit reply, look-ups outside the transaction, keys built from what the source sent |
| Sub 3, Merkle & Ordinal (`protocol/sub3`) | `protocol.anchors`, `protocol.evidence_anchors`, row locks of Tx 1 | `tick`, `WriteAnchor`, `writeAnchorResults`, `WriteFailed`, `BuildMerkleTree`, `VerifyProof` | a network call between two transactions, failures after the service accepted a root |
| Dead-letter queue (`webhook/dlq.go`, `cmd/gateway/admin.go`) | `protocol.dlq`, its row locks | `Enqueue`, `replay`, `MarkReplayed`, `MarkRetryFailed` | two operators replaying one row, outcomes recorded in the wrong order |
| Poller (`poller`) | a cursor with a TTL | tick, fetch, publish, move the cursor | limited batches of equal dates, partial publication, restarts |
| Stock (`transaction`, `inventory`) | transactions, lines, movements, the cached position | create, void, return; movements; the consumer's tick | movement and link in separate transactions, locks that end with a statement |
| Directed tasks (`task`, `replenishment`) | tasks, the stream of low-stock signals, its pending list | `GetNext` under `SKIP LOCKED`, `UpdateStatus`, the trigger | look-then-create, transitions checked against an earlier read |
| Identity (`identity`, `auth`, `squareauth`) | signing keys and cached verify sets, token families, API keys, lockouts in Valkey, buffered last-used times, log-in challenges, Square's tokens | log-in, refresh, rotation, mint and revoke, callbacks | lost replies of rotations, caches that lag, fail-open limits, shutdown with a full buffer |
| Loss prevention (`chirp`, `alert`, `fox`, `casemgmt`) | detections, allow list, cases, chained evidence, log of actions | rules over a sale, triage, escalation, evidence, closing | two services on one set of tables, chains without a lock |
| Receipts and workflows (`inventory/document.go`, `workflow`) | receipts, executions | close, cancel, dispute, kick off, advance, complete | two closes at once, an update that overtakes the end |
| Catalogue, pricing, purchasing, budgets | items with barcodes and vendor links, price rows, orders, budgets | scan flow, `Create`, resolution of a cart, `UpdateStatus`, `Consume` | unique keys met by two transactions, rounding, 64-bit sums |
| Proofs for sale, names (`protocol/validate`, `namespace`) | tokens, names | challenge and redemption, registration | a token spent twice at once, an inscription before the insert |
| JSON services and pages | the tables above | about 250 handlers and pages | a second request between two statements, a write whose reply is lost |

The parts of the pipeline share Valkey and Postgres and nothing else. `Enqueue`
of the dead-letter queue has no caller at this commit, and no process retries
rows by itself: only the operator's endpoint does. The idempotency keys,
backpressure and sequence log (`Guards`) and the change feed and answer cache
under `web/middleware` are written and tested and on no route.

What makes each part correct:

- Sub 1: an event is sealed at most once, onto the row that is its merchant's
  latest at that moment; a message is acked only when its event is sealed.
- Sub 2: an acked sale is recorded, once, at an amount that its source stated.
- Sub 3: proofs match anchors, anchors belong to one merchant and to an accepted
  root, and a merchant with enough events is anchored.
- Gateway: a signed request is let through once per window, a damaged copy of it
  costs nothing, and no event disappears without the source hearing of it.
- Dead-letter queue: status, retry count, schedule and last outcome of a row
  agree, and no outcome that arrives late takes a replayed row back.
- Stock: the position is the sum of the log, and a line is counted once.
- Tasks: one holder at a time, the stamps in the order of a task's life, and no
  signal lost.
- Identity: a refresh token is spent once, a revoked family stays revoked, live
  tokens verify, guesses are bounded.
- Cases: escalations point to their case, files only grow.
- The rest: section 3, run `edge`.

## 2. Modules

The pipeline:

| Module | Models | State and actions |
|---|---|---|
| `Evidence` | `protocol.evidence` and the queries on it | The table is the sequence of its rows in commit order; each query is an operator on it. A query that orders by a column with ties has a set of possible answers. |
| `EvidenceLedger` | what Sub 1 promises (abstract) | One variable, one action `Seal`. |
| `HashSeal` | Sub 1's workers and the stream | One action per database or Valkey call and one for each way it fails; `Crash`. |
| `ParseRoute` | Sub 2 | The same stream reader; `DeadLetter`, `Drop`, `Resolve`, `Insert`, `InsertTenders`, `Commit` and their failures. |
| `Adapters` | Square's, Counterpoint's and the Clover stub's `Parse`, and what the store makes of the result | One action per message; which numbers, days, amounts and keys a source's objects get. |
| `MerkleAnchor` | Sub 3's worker and store | `Fetch` (Tx 1), `CommitFetch`, `Inscribe`, `WriteResults` (Tx 2) and their failures. |
| `MerkleTree` | `BuildMerkleTree`, `VerifyProof` | One step per level of the loop. |
| `Gateway` | `ServeHTTP`, `Verify`, nonce store, publisher | One action per early return or call; the source network is external. |
| `WebhookReplay` | the dead-letter queue and `replay` | One action per call of Get, Publish, MarkReplayed, txGet, the update; Sub 1 is represented by the ledger it implements. |
| `Poller` | the Counterpoint poller | A tick per shop, limited batches, publication one by one, the cursor and its expiry. |
| `L402`, `Namespaces` | proofs for sale; registration of names | One action per statement or call. |
| `Guards` | idempotency keys, backpressure, sequence log | One action per Valkey command or statement. |

The domain services:

| Module | Models |
|---|---|
| `Stock` | `transaction` (create, void, return) with `inventory` (movements, position, sale consumer): several pods and clerks |
| `DirectedTasks` | `task`, its pages and `replenishment`: a claim holds its row lock, a trigger is restarted by `cmd/bull` |
| `Sessions` | `keystore`, `mint`, `tokenverify`, `refreshfamily`, `auth`: processes with cached key sets and requests with any token |
| `Access`, `ApiKeys`, `LastUsed` | lockouts and throttles; the life of API keys; the write-behind buffer and its shutdown |
| `Lnurl`, `SquareAuth` | log-in by wallet; the Square connection |
| `Cases`, `CaseFile` | `chirp`'s detections, `alert`, `fox` and `casemgmt`; `CaseFile` is what their tables promise (abstract) |
| `Screening` | the nine rules over a sale and the activity around it, the allow list and the screens that write it |
| `Receiving` | closing receipts, and the workflow executions they start |
| `Purchasing`, `Budgets` | orders and suppliers; open-to-buy budgets, whose sums wrap around at `MaxInt` |
| `Catalog`, `BarcodeLookup`, `Pricing` | item set-up; the resolver of product databases; the price resolver |
| `Handlers`, `Endpoints` | every handler of the JSON services as a sequence of statements (checks, reads, writes, answer); the same for the pages, and the execution of both against a second request and failing statements |
| `Listings` | the list queries, their order and paging, and a client walking through the pages |
| `Caches` | secrets kept in memory, answers kept in Valkey |

`Edge` puts nine components side by side that share no state in the code (each has
tables, keys or memory of its own): `Access`, `ApiKeys`, `LastUsed`, `SquareAuth`,
`Lnurl`, `Poller`, `Budgets`, `Purchasing` and `Receiving`. A behaviour chooses
one of them in its initial state (`focus`) and is a behaviour of that one. These
nine are proved about; `MCEdge` extends `Edge` by the twelve that are only
checked, in the same way. `MCHashSeal` and `MCCases`, like `MCEdge`, hold the
values of constants that need more than a .cfg can say. Which components share
state decides which modules compose: `HashSeal` implements `EvidenceLedger`;
`WebhookReplay` ends in the ledger; `MerkleAnchor` stands on the table that
`HashSeal` writes and relies on `MerkleTree` for roots of different leaves being
different; `Cases` implements `CaseFile` with all four services on its tables;
`DirectedTasks` puts API, pages and triggers on one task table; `Stock` puts the
transaction API and the consumer on one set of lines; `Receiving` joins receipts
and workflow; `Endpoints` runs the handlers and the pages, which share the store's
operations.

What is abstracted:

- A SHA-256 hash is the tuple of its inputs (chain hashes, tree nodes) or a model
  value (event hashes). Collisions are thereby excluded. Signatures, passwords
  and HMACs are Booleans or names.
- An advisory lock is keyed by `hashtext(merchant_id)`, a constant function, so
  that two merchants may share one. The runs give each merchant its own, which is
  where one waits for the other most; the proofs hold for any `hashtext`.
- A timestamp is a natural number; `Precision` says how many clock ticks a
  `timestamptz` column rounds into one.
- A Valkey stream is the sequence of its entries, a group its last-delivered-id
  and its pending list. Trimming is not modelled: the publisher sets no MAXLEN.
- In `ParseRoute` what an adapter makes of a payload is the kind of the entry;
  `Adapters` models what it makes of it, one message at a time.
- Postgres runs at READ COMMITTED: a statement sees what is committed, an insert
  waits for another transaction that holds the same unique key, `FOR UPDATE`
  waits and `SKIP LOCKED` does not.
- A reply that is lost after its call took effect is an action of its own
  wherever the code then behaves differently.
- In `Endpoints` the rows of a service are the caller's own, one of another
  tenant, and one that is not there yet; answers are told apart by their class.

Definitions named "Mutant of ..." are wrong variants of the definition after
them. No specification uses them; putting one in the place of the original must
make TLC report the property that `PROJECT.json` pairs it with. A conjunction of
properties (`RoutingInv`, `ProtocolSound` ...) has one such pair.

## 3. Runs that pass

| Run | Question | Instance |
|---|---|---|
| `sub1` | Do concurrent, failing workers implement the ledger, and ack only what is sealed? `AckedSealed`, `Chained`, `LinearWhenInOrder`, `SealsLedger` | 2 workers, 2 merchants, 3 hashes, 3 times, 3 events, batches of 2 |
| `sub1_live` | Does every wait for a lock or a key end, and is everything delivered? `HandlingEnds`, `ReadByGroup` | 3 workers, 2 merchants with a lock each, 3 events of one hash, batches of 2 |
| `sub2` | Is an acked sale recorded, once, and does handling end? `RoutingInv`, `HandlingEnds` | 2 workers, 1 merchant, 2 sales, 3 events, batches of 2 |
| `sub3` | Do proofs, anchors and accepted roots stay together? `AnchoringInv`, `OncePerWorker`, `EventuallyAnchored` | 2 workers, 2 merchants with 3 events each, batches of 4, groups of 3 |
| `gateway` | Does a nonce get through once, is it spent only on what is published, and does no event vanish? `IngressInv`, `Resolved` | 1 event of every kind, 2 concurrent calls, window 2, 5 clock readings, 2 mishaps, 1 failure, 4 sends |
| `dlq` | Do rows stay consistent under concurrent replays, and settle? `StatusConsistent`, `ReplayedPublished`, `TerminalStays`, `PendingSettled` | 2 rows, 3 concurrent calls, the code's 4 retries |
| `stock` | Is the position its log, has a sale that was voided its one void row, is a line counted twice only by a failure or two pods, and every line counted? `StockInv`, `CountedOnceUnlessFaulty`, `EveryLineCounted` | 2 pods, 2 clerks, 1 sale with its void and return, posted with either status and either number, batches of 2, 1 movement by hand, 1 failure |
| `tasks` | Do stamps follow the order of a task's life, does nobody lose a task, and is every signal met? `TaskInv`, `StampsInOrder`, `TakenOnlyFromQueue`, `SignalsAnswered` | 2 clients, 2 triggers, 2 pieces of work, 1 restart, 1 failure |
| `identity` | Is a token spent once, do live tokens verify, does revocation last? `SessionInv`, `LiveTokensVerify`, `InactiveSessionsEnd`, `RevokedForGood` | 2 processes, 2 keys, 1 family, 2 requests, 3 mints, 1 failure |
| `cases` | Do four services keep one append-only case file? `CaseInv`, `SecondCaseOnlyByRace`, `ChainedWhenSerial`, `KeepsCaseFile` | 2 workers, 3 requests, 1 evaluation of 2 rules, 1 failure |
| `edge` | Eight questions, below | the components of section 2 that have no run of their own |

The properties of `edge`, each a conjunction over the components it names:

- `CredentialsSound`: lockouts hold however concurrent requests' Valkey commands
  interleave (`Access`); scopes only shrink along a chain of mintings
  (`ApiKeys`); a graceful shutdown loses no touch made before the signal
  (`LastUsed`).
- `LogInSound`: a challenge logs in one wallet, once (`Lnurl`); no interleaving of
  dashboards, callbacks and disconnects leaves a pair stored that Square no
  longer accepts, unless a store failed (`SquareAuth`).
- `ProtocolSound`: a token buys one proof of its event (`L402`); a name has one
  owner for good (`Namespaces`); the loop builds the reference tree and proofs
  bind (`MerkleTree`); an acked sale is in the books, in one row if its events are
  dated, at an amount that its source stated (`Adapters`); an id is fresh once
  while its key lives, a limit is kept, a hole in a sequence is flagged
  (`Guards`).
- `BooksSound`: a hard budget is not exceeded by charges that overlap or wrap
  (`Budgets`); an order is not received before it was submitted (`Purchasing`);
  an execution keeps the status it ended with (`Receiving`).
- `NothingLeftBehind`: the poller's cursor passes no unpublished document.
- `CatalogSound`: a code names one item, and every item that is there is whole and
  was reported as created, unless its commit lost its reply (`Catalog`); the most
  confident answer wins (`BarcodeLookup`); a cart costs what its lines and the allowed
  promotions say (`Pricing`).
- `ScreeningSound`: no fault or malformed line hides a match, entries silence their
  own rule, a batch counts what it inserted, short only of inserts whose reply was
  lost (`Screening`). One evaluation and one entry of the list at a time: a second
  of either would take the run past its time.
- `AnswersSound`: an answer tells what its handler did, of two requests for one
  transition one is told that it made it, answers rest on the caller's rows
  (`Endpoints`); a walk through a totally ordered list misses no row (`Listings`);
  a cache is stale for its TTL only (`Caches`).

Some of these properties carry an exception, because the code breaks the plain
form; the exceptions are the disagreements of section 5, and the definitions
name them (`ByIdAlone`, `MadeOnce`, `doubtful`, `reopened` and so on). What a
property leaves out in this way it does not catch, and the hazard's note in
`PROJECT.json` says so: rows that two Sub 3 workers each anchor (`OncePerWorker`), merchants
behind a full batch of small groups (`EventuallyAnchored`), a second publication of a
replayed row (`ReplayedPublished`), lines that two pods or a failure count twice and
both rows of a sale that was voided and returned (`CountedOnceUnlessFaulty`,
`StockInv`), a task from each of two triggers (`TaskInv`), a signal left pending
(`SignalsAnswered`), a chain that forks under overlapping appends (`ChainedWhenSerial`,
`KeepsCaseFile`), a snapshot of touches cut off by the shutdown (`CredentialsSound`), and
the pair that a lost reply of Square kills (`LogInSound`).

Why the bounds are enough. Two workers and one lock are what a race on a chain
needs, a third event shows whether the second one was chained correctly, and a
second merchant shows that chains do not mix. In `sub1_live` two merchants have
locks of their own, so that an insert waits for the other's event hash while it
holds its lock, and the third worker waits for that lock. In `sub3` six rows meet
batches of four, so that the LIMIT cuts, and a group may be too small in front of
one that is large enough. In `stock` a batch of two can be filled by lines that
cannot be counted. Batches of two leave a message
behind in the batch when a worker crashes. Five leaves have an odd level at the
bottom and in the middle. In the gateway a window of two within five clock
readings lets a nonce expire while a request is under way, and `MaxSends` exceeds
the number of things that can go wrong by one, so that a retry is never cut off
by the bound. The races of the domain services are between two actors on one row;
the third request of `cases` and the second piece of work of `tasks` find what the
race left behind. In `edge` each component has two actors, or two of what it
counts, and one failure (two in `Endpoints`, so that the first failure's
remedy can fail as well). Money in `Budgets` goes up to `MaxInt` = 3: enough for a sum of two to wrap.
Every bound is a named constant. Symmetry is used in `sub1`, `identity`, `cases` and
`edge`, which check no liveness; no definition tells the permuted values apart.

Deadlock is checked in `sub1`, `sub1_live`, `sub2`, `sub3`, `dlq` and `stock`. In
the others the actors stop when their bounds are spent.

## 4. Fairness

- Stream workers (`FairSpec` of `HashSeal`, `ParseRoute`): a running worker makes
  its next call (weak fairness of each worker's step: `Run` loops until its
  context ends, and each statement returns or fails). A Sub 1 worker that stopped
  is started again by its supervisor, and does not crash before every read it is
  about to make (strong fairness of `ReadGroup`). Failures stay possible for ever.
- `CalmSpec` adds that from some point on nothing fails. It is used where the
  claim is about what happens once the trouble is over.
- Sub 3 (`CalmSpec` of `MerkleAnchor`): a started tick goes on, one ticker ticks
  for ever, and from some point on nothing fails and no other worker starts a
  tick. The last condition is needed: two workers that tick in step can for ever
  lock halves of a group that are each below `minBatch`.
- Gateway: a call that runs goes on, and the source keeps sending an event for
  which it has heard 5xx or nothing. Nothing is assumed of the clock.
- Dead-letter queue: calls go on, an operator asks for every row again and
  again, and from some point on the database does not fail; publication may fail
  for ever.
- Stock: every pod's ticker ticks (`Run` of the consumer selects on a ticker) and
  a started tick goes on. Nothing is assumed of clerks.
- Tasks: a trigger that runs reads, and handles what it read (`Run` loops until
  its context ends). Nothing is assumed of clients, nor that `cmd/bull` restarts
  a trigger that gave up: `SignalsAnswered` holds because an entry that was read
  stays in the pending list.

## 5. Where the code and its texts disagree

One run checks a sentence of the repository against its code, and fails:
`sub1_redelivery`. `protocol/sub1/worker.go:86` and `:174` say that Valkey
redelivers un-acked messages; the group is read with `>` only and nothing claims
pending entries, so a message whose sealing failed once is never sealed.

The others were met while modelling. The modules show them, as behaviours that
their properties except; no run is kept for each.

Pipeline:

- The chain of a merchant forks when timestamps arrive out of order: the next
  event chains onto the largest `ingested_at` (`sub1/seal.go:83`), though `:102`
  speaks of a linear chain. `LinearWhenInOrder` is what holds.
- Rows of groups below `minBatch` stay first in Sub 3's fetch order; when they
  fill the batch, no later merchant is anchored (`sub3/store.go:84`, against
  `:180`, "the next cycle will pick these rows up"). `EventuallyAnchored` speaks of
  merchants for whom the small groups before them leave `minBatch` places.
  Two workers can anchor the same rows twice: the row locks end with Tx 1, and `ON CONFLICT (event_hash,
  anchor_id)` has a fresh anchor id each time. `OncePerWorker` is what holds.
- A publication that fails has spent its nonce, so the retry that
  `webhook/handler.go:197` asks for with a 5xx is answered with 401 unless it is
  signed afresh (`:195`). A retry that reaches SETNX after the key expired is
  published again; `OncePerWindow` is what holds. The window is two-sided and the
  nonce's key lives for one window. The key names neither merchant nor source.
- Replays of the dead-letter queue are published under an empty `event_hash`
  (`cmd/gateway/admin.go:213` says it is recomputed): Sub 1 seals the first and
  drops the others. An abandoned row answers 409 for ever, while `dlq.go:29` sends
  the operator to the replay endpoint.
- Any error of the tender-type look-up drops the tenders of a sale that then
  commits (`sub2/store.go:165`). A sale of an unknown merchant is left un-acked
  (`sub2/store.go:15` says it is dead-lettered). `adapter.go:55` says that errors
  other than parse errors are transient; the dispatcher joins every error to
  `errParseFailed` and dead-letters all.
- The adapters never read Square's payment status, drop `payment.updated` of a
  recorded payment (the first event wins), take the business date in UTC and fall
  back to the envelope's time, which makes a second row when it differs by a day.
  A ticket and a return of Counterpoint with one number on one day have one key.
  A document with repeated line or payment numbers is never recorded. Square sales
  have no lines, so they move no stock.
- More than `fetchLimit` documents of one second stop the poller's cursor, and
  documents dated back are never fetched.
- Two requests can inscribe one name before one of them inserts it.
- `tsp.Record` reports any insert error as a duplicate. Backpressure lets everything through until its
  configuration was first loaded, and reloads may finish in the wrong order.
  `SmResolver.Invalidate` may be undone by a look-up that is under way.

Stock and tasks:

- Returns are written with `is_return` false, so the consumer takes a returned
  unit out of the stock once more; lines of voided sales are consumed.
  `consumer.go:14` says that `SKIP LOCKED` keeps pods from processing a line twice;
  the locks end with the SELECT. A hundred lines that can never be counted stop
  the consumer: `EveryLineCounted` speaks of the times when they are fewer. The
  second return of a sale always answers 500, as does a concurrent second void.
- `Create` keeps the status and the number that the caller gives (`transaction/store.go:63`).
  A sale posted as voided has no void row, and its lines are consumed like any
  other's; one posted under another sale's void number makes every void of that
  sale fail. `VoidsPaired` therefore speaks of what `Void` wrote (`void_reason`). A voided
  sale may still be returned, and both rows are consumed.
- Two triggers may each open a task; a status update checked against an old read
  can reopen a finished one; a trigger gives up after five restarts in a minute.

Identity:

- A rotation whose reply is lost makes the retry look like reuse, and the family is
  revoked. `keystore.go:8` says "Zero or one row retiring"; overlapping rotations
  leave two.
- The failure window of `ratelimit.go:147` is renewed by each failure, though its
  comment says that it is fixed. Touches after SIGTERM are lost (`lastused.go:18`
  says none is). A failed store after Square's refresh loses the grant.

Loss prevention:

- Clustering never finds the open case (`escalation.go:55`). The evidence chain
  can fork under concurrent appends (`fox/store.go:291` says otherwise). Two
  concurrent escalations open two cases. A closed case accepts evidence, and
  closing it again rewrites its resolution (`casemgmt/store.go:238`: "a no-op").
- `cmd/chirp` never sets the allow-list store, the screens create rows without a
  rule, and no evaluator writes a reason code, so `suppression.go:12` ("actually
  change rule behavior") is not the case. Tolerance and after-hours intervals stop
  at midnight, `window_minutes` is ignored. `alert/threshold.go:8` has no caller.

Catalogue, purchasing, receiving:

- A commit that took effect and reported an error leaves an item whose creation the
  operator was told had failed; the retry meets its SKU. `CatalogWhole` counts such items
  apart (`unreported`).
- A SKU conflict is shown as a duplicate barcode; an edit form overwrites a later
  edit and revives a deleted item. The barcode resolver answers "not found" though
  a source never answered. Of promotions, `max_uses`, `exclusive_with` and
  `active_hours` are not enforced, unknown triggers count as met, and a rule
  without `item_ids` extends its benefit to the cart.
- Two closes of one receipt start two executions. Orders may be taken back to an
  earlier status by an update that was checked before.

Handlers and lists:

- Alerts' acknowledge, resolve and suppress answer 500 after having applied when
  a second read fails, and 404 or 409 after a failed look-up. Several forms report
  success and write nothing (`hawkCreateCase`, `suggestedOrder...`,
  `onboardingRulesEnable`). The transaction proof page looks up a hash of the
  transaction's id, which no event has. Report jobs stay pending.
- Lists are newest first with OFFSET: a row added meanwhile is seen twice, a row
  that leaves makes the walk skip one, and so do equal sort keys. Lists that do
  not repeat the limit they applied end a client's walk early when it asked above
  the maximum. `ListByMerchant` of the audit trail says "clamped to [1, 500]" and gives 100
  above 500.

## 6. What is proved

TLAPS checks these for every value of the constants, from the named assumptions
of the modules (`EvidenceAssumption`, `HashSealAssumption`, `ParseRouteAssumption`,
`MerkleAnchorAssumption`, `GatewayAssumption`, `WebhookReplayAssumption`,
`SessionsAssumption`, `TasksAssumption`, `StockAssumption`, `EdgeAssumption`, and
`IdsApart` and `FinitelyMany` of `Cases`). They say that sets are not empty, that
bounds are natural numbers and thresholds at least one, that the word for "nobody"
is not one of the owners, triggers, wallets or payers, that the schedule of retries
is at least as long as their number, that "completed" and "voided" are statuses
that a caller may post, that an
employee's id is not a subject's, and that the requests in flight, the workers and
the rules are finitely many, as in any deployment: the invariants that count them
need it. Every inductive invariant was checked by TLC, on the instance of its run,
before it was proved.

**The ledger** (`HashSealProofs`, `LedgerInvariant`). `Chained` and `LinearWhenInOrder` speak
of the finished table and are not inductive: a later row may have a larger or
smaller timestamp than those before it. `LedgerInv` keeps, for each row, what was
true when it was sealed: it extends a row that had the largest timestamp of the
rows before it (`ExtendsLatest`), hashes its own inputs, and is the only one with
its event hash. That two rows with the same predecessor must be the same row when
the rows are in order then follows, because a chain hash determines its row.

**Sub 1** (`HashSealProofs`). `SealInv` is the inductive invariant: a worker
between its lock and its commit owns its merchant's lock (`Locked`); so what it
looked up is still a possible answer of the look-up (`PrevLatest`); what it is
about to commit is not sealed, and no other transaction is about to commit the
same key (`InsertedOnce`); a worker that is about to ack has its event sealed.
`Locked` is what makes `PrevLatest` inductive: another worker's commit changes
the answer only for a merchant whose lock it owns. From `SealInv` follow
`AckedAreSealed` and `ImplementsLedger` (each commit is a `Seal` step, every other
step a stutter), and through the refinement the ledger's two theorems hold of the
table that the workers build (`SealedChained`, `SealedLinear`).

**Sub 2** (`ParseRouteProofs`, `SalesRecordedOnce`). That acked sales are recorded,
and recorded once, needs what a worker relies on between two statements
(`WorkerInv`): while a sale's header is inserted no committed transaction has its
key, and a sale whose ack is next is recorded; and that no two open transactions
hold one key (`OneInserts`), which is what the unique index gives and what makes
a commit add a new sale. The proof sorts the actions by what they change: those
that only move a worker, those that leave a message, and the commit.

**Sub 3** (`ProtocolProofs`: `AnchoredOnce`, `AnchorsOfOneTenant`). A row is
fetched only when it has no proof, so between a worker's fetch and its write no
anchor of its own can prove the rows it holds: `HeldUnanchored` says so, and each
write restores it by letting go of the group it has anchored. Other workers may
anchor those rows meanwhile, which is why `OncePerWorker` is per worker. A group
is the held rows of the smallest merchant, so the leaves of its anchor agree.
`AnchoringHolds` adds what relates the two tables and the service. The positions of
a group's leaves in its order are 0, 1, ... each once (`LeafIndexes`: the number of
leaves before a leaf is an injection into an interval of the same size), so the
proofs that one transaction writes match its anchor. And between the calls a worker
past its grouping holds only groups of at least `MinBatch` (`HeldLarge`), and one
about to write has its root accepted (`HeldInscribed`).

**Gateway** (`ProtocolProofs`, `NonceOncePerWindow`). `OncePerWindow` speaks of the
stream; between SETNX and XADD a taking lives in a call. `TakingInv` says that the
key of a nonce outlives a window from each taking (`Holds`), and that a call that
is about to publish is more than a window apart from every entry and every other
such call of its nonce. SETNX succeeds only when the key is gone, so all earlier
takings are a window old; every other step moves a taking or drops it.
`CallInv` (a call serves the request its source made) gives `SpentIsPublished`.

**Dead-letter queue** (`EdgeProofs`). `DlqInv` adds to the properties
what calls rely on between two of their own calls: a call that is about to mark a
row has its entry in the stream, and a call with a row locked for update finds it
still pending, because `MarkReplayed` waits for the lock. From it follow
`StatusesConsistent`, `ReplayedArePublished` and the action property
`TerminalRowsStay`.

**Sessions** (`SessionsProofs`). `SessionIInv` has three parts. Keys: one signs
(`SingleActive`); a set that is cached misses a published key only in the instant
that key entered its state, because the process that moved it drops its cache and
the overlap keeps the others apart (`CachesCurrent`); and a key that stops signing
is published for as long as the tokens it signed live (`KeysOutlive`, which is the
overlap being longer than a token's life). `TokensVerify` follows. Families: no
token that was returned comes after its family's `last_jti` (`LastIsLast`), so the
comparison under the row lock lets a token through once, and two log-ins that are
about to create a family have different ones; `SessionsSound` follows, and
`RevocationIsFinal` by looking at each step from a revoked family. Deactivation:
`LateInv` counts the answers given late together with the requests that read the
person before (`Admitted`), and an answer takes its request out of the second count
(`SessionsEnd`).

**Directed tasks** (`DirectedTasksProofs`). `TaskIInv` relates each update that was
checked and not yet written to the stamps its target status presupposes (stamps are
never taken back, so the check stays good however late the write is), each claim
to a queued row that it alone holds (FOR UPDATE SKIP LOCKED), and each trigger that
is about to create a task to having no open one. Only a task that was opened again
by an overtaken update escapes the last, as `OneOpenPerTrigger` says.
`StampsOrdered`, `TasksSound` and the action property `OnlyFromQueue` follow.

**Cases** (`CasesProofs`). `CaseIInv` has one part per hazard. `RaceInv`: a request
that may still open a case read its detection before any case of it was there, so a
second case comes only from a race (`RaceOnly`). `OverlapInv`: of two requests that
append to one case neither is alone, and one that is alone took its time after the
case's last row was committed; so where all were alone, the row that is last by
`collected_at` is the row that was committed last, and each row follows the one
before it (`ChainInv`, `ChainWhenSerial`), although nothing is locked.
`EscalatedPointsToCase` is inductive because the case and the link of its detection
are one transaction. `BudgetInv` counts matches that are not inserted yet and
requests that may open a case against the bounds of the model, which types the
numbers. `ImplementsCaseFile` maps the tables to `CaseFile`: each step of the four
services, of a failure or a killed request opens a file, collects, notes, closes,
or leaves the file as it is; that the previous hash is of a row of the same case is
the first conjunct of `ChainInv`.

**Stock** (`StockProofs`). `StockSound` is nearly inductive as it stands: a movement
and the position change in one transaction, and so do a sale's status, its
`void_reason` and its void row, whatever status the sale was posted with and whoever
took the void row's number before. The position is compared with the balance of the
log (`Balance`, units in less units out, both counted), so the proof needs no fold: what one appended movement
does to a count is a lemma about cardinalities. `LinesCountedOnce` needs `CountInv`.
Between its statements a pod holds lines that it fetched without a lock that lasts;
for a line that nothing makes doubtful `CountedOnce` says that one pod at most holds
it, that it has no movement while that pod has still to make one, and that a
movement without a link is the one that the pod links next. A fetch by another pod,
or a failure between movement and link, is what makes a line doubtful. `LinksRight`
keeps a link on a movement of its own line.

**The edge** (`EdgeProofs`, theorems of `EdgeSpec`). Each of the nine components has
an inductive invariant in its module, its property together with what keeps it, and
one lemma for each action that says the action keeps it; `CredentialsAreSound`,
`LogInIsSound`, `CursorPassesNothing` and `BooksAreSound` state them for `Edge`,
whose actions keep `focus`. The runs check the very same formulas.

- `LockoutInv` (`Access`) counts a bucket's wrong secrets together with the requests
  that were let past the check (`PastAt`), still owe the counter one (`OwingAt`) or
  are about to set the lockout (`LockingAt`): a wrong secret moves a request from
  one count to the next, and only a failed Valkey command takes one out.
- `KeysInv` (`ApiKeys`): scopes shrink along a chain because the set of a key's
  makers is closed (what made a maker made the key); what mints after its end was
  in a request when it ended, so there are no more of those than requests.
- `RecorderInv` (`LastUsed`): the last touch before the signal waits in the buffer,
  or is in the snapshot of the flush in progress, or was tried, or a later one was;
  after the drain it no longer waits. Touches of one key are flushed in order.
- `PairInv` (`SquareAuth`): a pair that is about to be stored is live and in nobody
  else's hands (`HeldAlone`); so whoever replaced the stored pair has the live one.
- `LoginInv` (`Lnurl`): the conditional UPDATE gives a challenge to one callback,
  and between it and the token nobody else has issued one (`MarkedForOne`); a token
  is with one replica or with the browser (`TokenInOnePlace`). `OneLoginPerChallenge`
  is derived from it.
- `CursorInv` (`Poller`): a document before one of the batch was published, cannot
  be parsed or is in the batch before it; so the latest date published leaves
  nothing behind, whether the turn ends with the cursor saved or with a failure.
  Documents come in the order of their dates in this model; section 5 says what
  the poller does with one that is dated back.
- `PaidInv` (`Budgets`): the holder of the row's lock has read the row as it is, and
  a payment that was not charged has a number of its own, so that the number of
  charges is what was consumed. Sums wrap, and the check compares the wrapped sum.
- `OrderInv` (`Purchasing`): a checked status may still be set on the row that was
  read; an order that no request overtook has gone the way its updates say.
- `FinishInv` (`Receiving`): one holder of the advisory lock at a time, and the row
  that it read is open; a close in progress still has its turn to start a workflow.

The numbers `MaxCalls`, `MaxErrors` ... bound the behaviours of these modules in the
proofs as well, by any natural number; no proof uses their size.

## 7. What is only model-checked

- Liveness (`HandlingEnds`, `ReadByGroup`, `EventuallyAnchored`, `Resolved`,
  `PendingSettled`, `EveryLineCounted`, `SignalsAnswered`): TLAPS does not prove
  liveness under fairness.
- `ProtocolSound`, `CatalogSound`, `ScreeningSound` and `AnswersSound` of run `edge`.
  Of `MerkleTree` the claim is an induction over the list of leaves, which is beyond
  the prover. `Pricing`, `Screening`, `BarcodeLookup` and `Adapters` are computed
  from tables that their instance gives (price rows, sales, replies, events): their
  properties compare two computations over these tables, sums over a list among
  them. `Endpoints` and `Listings` run the list of statements, or of rows, that each
  handler or query has, and what holds of them is a matter of these lists. `L402`,
  `Namespaces`, `Guards`, `Caches` and `Catalog` are state machines like those of
  `Edge` and within the prover's reach; they share their properties with the former.

## 8. Not modelled

- The audit trail (best-effort inserts after the answer, which no other component
  reads) and the payload redactor (a pure tree walk that no service calls).
- Generated queries, configuration, logging, pagination and test helpers; the
  start-up of the small services in `cmd/`.
- Partly: `party`, `tenant`, `crdm`, `arts` and `ecom` hold types and single
  look-ups; sums and statistics of `analytics` are not computed. The MCP server
  only adapts the services to a tool protocol. Of the web front end the pages that
  read or write a tenant's rows are modelled; templates, the developer console,
  the manifest, and the change feed and event stream (on no route) are not. The
  inscription service is external: its outcomes are actions of `MerkleAnchor`.
- Outside the model everywhere: cryptographic primitives, the language model's
  text, HTML and JSON layout, clock skew between Postgres and the services.

What a further version would take up: one behaviour from the gateway through Sub 1
and Sub 2 to the stock consumer, over one stream (each link is checked by itself
here); proofs about `L402`, `Namespaces`, `Guards`, `Caches` and `Catalog`; and the
cost rollup of `billing`.
