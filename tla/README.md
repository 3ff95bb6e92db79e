# Verification of the marketplace

TLA+ models of this repository's services, TLC configurations that check them on
small instances, and theorems about fifteen of them that TLAPS proves for every
instance. Paths below are relative to the repository (`src/` in PROJECT.json).

## 1. The system

Two Go binaries (`cmd/api`, `cmd/worker`) over one PostgreSQL database. Every
write happens in a transaction at READ COMMITTED, the database's default
(`internal/platform/db`, `InTx`, which retries serialization failures, deadlock
victims and lost idempotency claims). Exclusion comes from guarded updates
(`UPDATE ... WHERE status = from`), from row locks, from advisory locks, from unique
indexes and from append-only tables; between requests a replica keeps nothing in
memory but its rate limiter's arrival times.

| Component | State it keeps | Operations | Interacts through |
|---|---|---|---|
| orders: checkout (`checkout.go`) | `orders`, `order_items`, `idempotency_keys`, `order_number_seq` | `Checkout` with its quote | locks the catalogue's variants; tax and money for the quote |
| orders: purchase (`checkout.go`, `confirm.go`, `webhook.go`) | `orders`, `payment_intents`, `payments`, `licenses`, `provider_webhook_events`, `reconciliation_differences` | `BeginPayment`, `ConfirmPayment`, `HandleWebhook`, the expiry sweep | the provider (calls, webhooks); ledger, outbox, audit, invoices in the same transaction |
| orders: after the sale (`refund.go`, `settlement.go`, `webhook.go`) | `refunds`, `payment_transfers`, `settlement_offsets`, `chargebacks` | `Refund`, `ReleaseDueSettlements`, `CompleteProtectedOrders`, `onDispute`, `onAccountStatus` | the provider; the ledger; the order row |
| orders: invoices (`confirm.go`, `0007`) and audit (`audit.go`, `0012`) | `invoice_series`, `invoices`; a hash-chained `audit_log` | number and issue; `Record`, `Verify` | counters and an advisory lock held in everybody's transaction |
| payments (`internal/modules/payments`) | none of its own | the calls of two adapters and the HTTP client under them | the provider, over HTTP |
| ledger and turnover (`ledger.go`, `0004`, `0011`) | `journal_entries`, `journal_lines`, `ledger_balances`; `turnover_deltas`, `seller_turnover` | `Post`, `ledger_balance`, `ledger_rollup`; `seller_fy_gross`, `rollup_turnover` | called by orders inside their transactions; tax thresholds |
| tax and money (`tax.go`, `money.go`) | none | `Compute`, `Verify`, shares and sums | called by quoting, capture and refund |
| outbox (`outbox.go`) | `outbox_messages` | `Publish`, `Tick`, `Replay` | published by orders, handled by the worker |
| worker (`worker.go`, `jobs.go`) and mail (`mail.go`) | `jobs`, `notifications` | scheduled tasks, job handlers, `Drain` | runs settlement, expiry, rollups, the outbox, scans, notices |
| catalog (`asset.go`, `product.go`, `tags.go`, `0005`) | `products`, `product_variants`, `product_assets`, objects; `tags`, `product_tags` | upload, scan, publish, unpublish; drafts and their tags | jobs queue the scans; checkout reads variants |
| delivery (`delivery.go`) | `download_grants`, `download_events`, a licence's `download_count` | `IssueTicket`, `Redeem`, `ExpireGrants` | reads licences and files; refunds read its events |
| identity (`service.go`, `credentials.go`, `crypto.go`) | `users`, `subject_keys`, `sessions`, `credential_tokens`, `recovery_codes` | registration, sign-in, sessions, password change and reset, second factor, erasure | every authenticated request reads the session |
| seller (`seller.go`, `payout.go`) | `sellers`, `seller_payout_accounts` | `Onboard`, `SubmitKYC`, `AddPayoutAccount`, `RecordValidation`, `DisablePayoutAccount` | queues the job that announces a change |
| rate limiting (`ratelimit.go`) | arrival times, in memory | `AllowN`, `Sweep` | the HTTP middleware |
| migrations (`migrate.go`) | `schema_migrations` | `Up` | every replica at its start |
| provenance, ranking, routing, storage, cryptography | none of their own | see PROJECT.json | catalog calls provenance |

What is hard in this code:

- **Two ways to confirm a payment.** The browser's callback and the provider's
  webhooks reach `recordCapture` for the same order, repeatedly, while the expiry
  sweep and failure events move it too. Orders are read without a lock, and nothing but
  the amount ties the callback's payment to the callback's order.
- **What a statement sees is older than its commit.** A release reads the offsets, a
  change of password the sessions, an erasure the links; what others insert until the
  commit is in none of them.
- **A provider inside a transaction.** A refund or a capture happens at the
  provider before our transaction commits, and stays when it rolls back.
- **Calls whose answer is late.** An attempt the client gave up goes on at the
  provider while the next one is sent; only the idempotency key tells them apart.
- **Events in any order.** A provider repeats an event until it is acknowledged
  and sends created/won/lost, captured/failed in any order.
- **Scans and acts in different transactions.** Settlement release, outbox claims,
  mail drains and rollups decide on one snapshot and write under another.
- **Locks in the client's order.** Checkouts lock the variants of their carts,
  edits the tags of their lists, captures the series of their documents and
  validations the destinations of a seller, one by one: they wait for one another in
  cycles, and victims run again with what they read before gone.
- **Credentials that race.** A sign-in verifies a password, then a reset changes it,
  then the session is written; an erasure shreds the key of an account for which
  a link, an enrolment or a change is in flight.
- **Jobs that outlive their locks.** A file is marked, scanned, copied and recorded
  in separate steps by replicas that share nothing but a lock with an age.
- **Evidence after the fact.** A download is counted before and recorded after it
  happens, in statements of their own, and a refund reads what is recorded. With
  presigned storage it happens where nobody here sees it.
- **Sequence order is not commit order.** Watermarks over a BIGSERIAL and message
  ids taken before commit both assume that it is.
- **A limit before a filter.** The scan for due settlements takes the oldest and then
  skips those that must wait.
- **The clock before the lock.** The rate limiter reads the time, then waits for its
  shard; the sweep may run in between.
- **Replicas that start together.** With the same migrations or with edited ones, one
  of them losing the connection that carries its lock.

The `hazards` of PROJECT.json list them line by line, each with the properties
that cover it; what goes wrong in the code as it stands, and so cannot be a property
that holds, is in section 6. What makes each component correct is what its
properties say (section 3).

## 2. Modules

| Module | Models | State ↔ code |
|---|---|---|
| `Sale` | the promise of the purchase path: an attempt that was charged buys its order at most once, a closed order is never sold, a sale is never taken back | abstract |
| `WorkQueue` | the promise of a queue: a task is settled only when its work was done, waits for those before it, and is left alone once it has ended, until two workers have had it in their hands | abstract |
| `Purchase` | `BeginPayment`, `ConfirmPayment`, `HandleWebhook`, `recordCapture`, `expire_stale_orders`, the provider and the buyer | `status` = `orders.status`, `intent` = `payment_intents.status`, `payrows` = `payments` and `posted` = journal keys `capture:<order>:<payment>`, both as pairs of order and attempt; `Presented` = the pairs browsers bring, `runs` = what `recordCapture` appends with no unique key, `hooklog` = `provider_webhook_events.process_status`, `cb`/`hk` = requests in flight, what they were given and have read |
| `Settlement` | `Refund`, `ReleaseDueSettlements` with `applyOffsets`, `CompleteProtectedOrders`, `onDispute` with `postChargebackLoss`, `onAccountStatus` | rows of `orders`, `order_items`, `payment_transfers`, `refunds`, `settlement_offsets`, `chargebacks`; the balances of four ledger accounts; `prefunds` and `case` are the provider's own record; `rel` = the release a worker has begun and how many offsets it has seen, `due` = the order of `hold_until` |
| `Checkout` | `Checkout` with `replayCheckout`, `readCatalogue`, `next_order_number`, `claimIdempotency`, the retries of `InTx`, `purge_expired_idempotency_keys` | `lock` = row locks of `product_variants`, `keys` = `idempotency_keys`, `seq` = `order_number_seq`; `pc`, `at`, `number`, `tries` = a request's transaction |
| `Pricing` | `Compute` and `Verify` of tax, the entries of a capture, a release and a refund, the documents of a line | `input` = what a line is priced from, `balance` = the ledger's accounts, `refunded` = `order_items.refunded_minor` |
| `Registers` | `issueInvoices` with `next_invoice_number`; `audit.Record` with the trigger `audit_log_chain`, `Verify` | `series` = `invoice_series`, `chain` = `audit_log`, `position` = `audit_log_chain_pos_seq`, `capture` = the transactions |
| `Gateway` | the calls of both adapters, `httpclient.go`'s retries, the provider (`gatewaysim/server.go`) | `call` = a call and what its caller was told, `wire` = attempts on their way, `answered` = the provider's stored answers, `provider` = its objects |
| `Rollup` | `ledger_rollup` with `ledger_balance`, `rollup_turnover` with `seller_fy_gross` | `state` of each `seq`, the aggregate rows' total and `through_seq`, `ro` = a rollup in progress |
| `Outbox` | `Publish`, `claim`, `process`, `ack`, `nack`, `Replay`, lock expiry, `queueOrderMail` | columns of `outbox_messages`; `wk` = a replica's claimed batch and the message at hand |
| `Mail`, `Notices` | queueing, `mail_claim`, the transport, `markSent`, `markFailed`, `markStatus`; `queuePayoutChangeNotice`, the job `notify_payout_change` | `mail` = `notifications`, `drain` = a drain's batch; `notice` = the job each addition queued, `about` = whom a mail names. `Notices` extends `Mail` and announces through it |
| `Catalogue` | `RequestUpload`, `FinaliseUpload`, `ScanAsset`, `Publish`, `Unpublish`, the publish trigger, `claimJobs`, `completeJob`, `failJob` | `scan` = `product_assets.scan_status`, `uploaded`/`stored` = objects under quarantine and deliverable keys, `job` = the `scan_asset` rows, `routed` = what `products.provenance_score` was computed from, `wk` = a replica's batch and the job at hand |
| `Listings` | `Draft`, `ReplaceTags`, the slug's search, `resolve_tag`, the retries of `InTx` | `listing` = slugs, `tagged` = `product_tags`, `usage` = `tags.usage_count`, `edit` = the calls in flight |
| `Delivery` | `IssueTicket`, presigned URLs and their use, `Redeem`, `RecordDirectDelivery`, `recordOutside`, `ExpireGrants`, `checkRefundEligibility` | `grant`, `age` = `download_grants`, `used` = `download_count`, `events` = `download_events`, `owed` = an outcome still to be written, `sent` = how often a file left |
| `Accounts` | `Register`, `Login` with lock-out, rehash and second factor, sessions and their rotation, `ChangePassword`, reset and verification links, enrolment, recovery codes, `EraseSubject` | `user`, `key`, `hash`, `factor`, `failed`, `locked` = columns of `users` and `subject_keys`; `session`, `link`, `code` = rows; `rq` = calls in flight, what they have read, and the rows they have updated and not committed |
| `Payouts` | `Onboard`, `SubmitKYC`, `AddPayoutAccount`, `RecordValidation`, `DisablePayoutAccount`, the quarantine, `PayoutEligibility` | `destination`, `isDefault`, `active` = columns of `seller_payout_accounts`, `rv` = the validations and their row locks |
| `Limiter` | `AllowN`, `Sweep`, the `Retry-After` headers | `arrival` = `shard.tat`, `asked` = what a caller asks and when it read the clock |
| `Migrate` | `Load`, `Up` with `ensureTable`, `loadApplied`, drift, `applyOne` | `migrated` = `schema_migrations`, `locked` = the advisory lock, `replica` = where each is |
| `PurchaseProofs`, `SettlementProofs`, `CatalogueProofs`, `GatewayProofs` | the theorems about the module each is named for | |
| `StoreProofs`; `EdgeProofs`; `ServicesProofs` | those about `Checkout` and `Outbox`; about `Accounts`, `Delivery` and `Limiter`; about `Migrate`, `Registers`, `Rollup`, `Listings`, `Pricing`, and `Mail` in `Notices` | |
| `Sums` | lemmas about sums over finite sets, for `SettlementProofs`, `EdgeProofs` and `ServicesProofs` | |

`MC` modules name the instances and each `.cfg` picks one. `MCPurchase`,
`MCSettlement` and `MCCatalogue` instantiate one module each; `Delivery`, `Payouts`,
`Notices` and `Accounts` need none where a configuration concerns them alone. `MCStore`
(`Checkout`, `Outbox`), `MCEdge` (`Accounts`, `Gateway`, `Limiter`) and `MCServices`
(`Rollup`, `Payouts`, `Notices`, `Registers`, `Pricing`, `Migrate`, `Listings`,
`Delivery`) put components that share no state side by side: the variable `part` says which one runs,
and the others stay as they began, so a run explores the union of their behaviours
and not the product. Every module has a type invariant; those of a composed run are
conjoined as its `TypeOK`, which a cfg may list.

One action is one transaction, or one step of a transaction that READ COMMITTED
separates from the next: a lock-free read, a lock that may have to be waited for, a
call to the provider, a statement with its own snapshot, the commit. Writes of one
transaction are one action, because nobody sees them apart; what a transaction
*read* before is kept in the request's record, and is stale when others act in
between. Where a statement decides which rows to write (the sessions to revoke, the
links to end, the offsets to take) and the commit comes later, the two are separate
actions: until the commit the rows it saw are locked, and those inserted meanwhile
are not among them.

Conventions: a definition keeps the code's name where it can; `Mutant of X` marks
an operator that states X with a plausible bug (PROJECT.json lists which property
notices); history variables (`overtaken`, `crowded`, `replayed`, `overran`, `overlapped`,
`spared`, `toldBy`, ...) are marked as such and no guard reads them; `recorded`, the files an analysis was recorded
of, is there because a row may go back to `error`.

Three modules implement `WorkQueue`, each by a refinement mapping from the columns of its
rows: a row is absent until its transaction commits, then open, settled (`dispatched_at`,
`completed_at`, `sent`) or dropped (`failed_at`, `failed`). The work is the handler's
success, the record of an analysis, the transport's acceptance. A queue is disturbed
when a batch outlives its lock (`Outbox`, `Catalogue`), or when a mail is claimed that
another drain holds or a delivery goes unrecorded (`Mail`); only the outbox has an order
between tasks, and an operator who returns what was dropped. A task that arrives behind
one it should precede is overtaken by it: the promise is about the order in which
transactions commit, not the order of ids.

### What is abstracted

- *Purchase.* One line per order (all lines are handled alike). An attempt has an
  amount and the order it was made for; a browser may bring any pair of `Presented` to
  the callback, with the signature that belongs to the attempt. All orders are one
  buyer's. What the journal entry contains is left to
  Pricing and Settlement, what it registers to Registers. `IntentIsNew` relies on the
  port's contract (`payments/port.go:30`, "idempotent on the supplied
  IdempotencyKey", and `gatewaysim/server.go`, which replays by key):
  `BeginPayment` always presents `payment:<order>`, gets the same provider id, and
  cannot insert it twice. With a provider that made a new id, a capture acknowledged
  while its order was `payment_failed` would be undecided again after a retry.
- *Settlement.* Accounts only the platform owns take the difference of each entry
  and are left out (they are in Pricing). The hold reasons of a seller are one flag.
  In-app disputes are left out because nothing in the code writes their table, refund
  and transfer webhooks because nothing they look up is ever written. `hold_until` is
  the order in which holds elapse; the later one that a created dispute sets is beyond it.
- *Outbox.* Time: a message in back-off may be claimed at any moment, a lock may
  expire at any moment (under a live replica: bounded by `MaxTroubles`). Messages
  without an ordering key. A message commits any time after its id was taken, whatever
  its key: `releaseOne` and `onDispute` publish under an order's key without its row, and
  ids of different hosts follow their own clocks.
- *Checkout.* Prices, tax and the rest of the row are data no property tells apart.
  A product, variant or seller that is off sale refuses a line at any moment, a
  cart of mixed currencies at the end. Only limited editions have a count, as only
  theirs is read. The audit record takes the chain's advisory lock before the key
  is inserted and keeps it to the commit, so the writes are one step. A key is
  (buyer, key). Keys may be purged at any moment, not only after 24 hours.
- *Catalogue.* One product; each upload slot receives its bytes once. The statuses
  archived, suspended and rejected are written by nothing, and are left out; the AI
  declaration is made. What a scan of a file finds may change between scans, as
  the scanner's database does. Provenance is one signal per file, read whenever
  the file is not infected; project names among filenames are left out. Back-off
  is left out, and a batch is any set of what is due.
- *Listings.* One seller whose titles all make one slug; the made-up slug of a second
  product is new. Which tags are synonyms and which are banned is given, because
  nothing in the code writes them.
- *Delivery.* One licence and one file. A ticket ages from fresh to lapsed (ten
  minutes) to old (24 hours more); its presigned URL is good as long as it is fresh.
  `Strangers` ask for a licence that is not theirs or a file that is not the licence's.
  Refunds are the buyer's own, of an item with
  `no_refund_after_download`; staff may override that policy. Whether the storage
  adapter presigns is fixed at the start.
- *Rollup.* Each line counts 1. `rollup_turnover`'s two statements and
  `ledger_rollup`'s one are values of the constant `Statements`.
- *Accounts.* All users claim one e-mail address, so at most one of their rows is
  live. Passwords are numbered in the order they are set, and a link, a session or
  a lock-out may lapse at any moment. Roles, `login_attempts`, consents and what only
  a reader sees are left out. A call that waits for two others at once is not told from
  one that begins later; a victim of a deadlock is a request that is lost.
- *Gateway.* One payment, its first transfer, one linked account, one currency. The
  provider is the repository's simulator, which looks an idempotency key up, handles
  and stores in three steps. A key belongs to a call; a caller may repeat the call.
- *Payouts.* One seller. A validation locks its own row, then the others; the
  database picks the victim of a circle. Activation is decided outside this code.
- *Mail, Notices.* A message is a row; of its text only the addition it is about is
  kept. A claim only counts an attempt and leaves the row queued, as in the code, so
  drains overlap. A job fails (`failJob`, which alone compares attempts with their
  maximum) or is lost with its worker, and then claimed again.
- *Registers.* A capture is one transaction, as far as these tables see it: a number
  per document, then one entry. The hash of an entry is its position.
- *Pricing.* One line in one currency, the rates of `DefaultPolicy`, products below the
  128 bits that `mulDivRem` has.
- *Limiter.* One rule; a tick of the clock is the unit of time.
- *Migrate.* A file is its version and its content; a connection that is lost takes
  the lock and the open transaction with it.

## 3. Runs

| Run | Instance | Shows |
|---|---|---|
| `purchase_race` | two orders of one total, two attempts on the first, one of which browsers also bring to the second, two callbacks, two webhooks, one fault | one capture per order; entitlement = money; an acknowledged capture is decided; `Purchase` implements `Sale` |
| `purchase_live` | two orders, one attempt each, one of them of another amount, one request of each kind, one fault | webhooks alone resolve every capture |
| `settlement_refunds` | one order, two items, two requests, two replicas, one fault, a seller that may be suspended; refunds of 1, all but 1 and all of an item worth 3+1 | refund rows, item totals, provider, payable, receivable and transfers agree; the offsets a release has read are netted before it pays anything |
| `settlement_disputes` | one order, two items of two sellers of whom one may be suspended, a scan of one, a dispute of the order; one refund request for the first item, one worker, one webhook handler, one fault | clearing is explained by the rows; an acknowledged loss is booked; a held share does not wait for ever, unless held ones fill the scan |
| `store` | *Checkout*: one request sent twice with its lines crossed, another request with their key and a cart of its own, an edition of one, one retry, one fault. *Outbox*: three messages of two orders, two replicas, two attempts, commits in any order, one replay, crash or overrun lock | one order per key and true answers about it; nothing is ordered that is sold out; waiting requests end; one mail of a kind until a lock is overrun; every message ends; `Outbox` implements `WorkQueue`, so that nothing is acknowledged undelivered and a key's messages keep the order they commit in |
| `catalogue_files` | two files, one of which may turn out infected, two replicas, two attempts, one crash, lost statement or overrun lock | clean files are there; what is on sale can be delivered; one case per suspect file; routing speaks for every file; every upload ends; the scan jobs implement `WorkQueue` |
| `edge` | *Accounts*: an address with one registered and one new row, two sessions, a link, a recovery code, two calls, three passwords. *Gateway*: two calls of any kind, one retry, one network fault, one repeat by the caller, each adapter. *Limiter*: a burst of 3 in 7 ticks, two callers that charge 1 or 2, five ticks | sessions older than a password end; an erasure is final; a call with a key takes effect once; the limit is kept |
| `services` | *Rollup*: two accounts in two statements, three lines, two rollers, any commit order. *Payouts*: two destinations, two validations. *Mail*: one addition, two mails, two drains, two sends, one fault. *Notices*: two additions in one second or in two, two tries of a job and two faults, so that it can use them up, two mails, one drain, one mail fault. *Registers*: three captures, of which two cross, one rerun, one rollback. *Pricing*: prices 0, 1, 49 and 999, commissions of 0, 9 and 100 %, every party, up to three refunds. *Migrate*: three replicas, one with an edited file, one fault. *Listings*: two products, three edits with a synonym and a banned tag, one rerun. *Delivery*: two requests and a stranger's on an allowance of one, with and without presigned URLs, each used twice, a refund, one lost record | balances exact until a commit overtakes or rollups overlap; a validation ends; repeated mails are explained; each addition is announced by the job that stands for it, unless that job has failed for good; registers are whole; refunds in parts add up; a migration is applied once; usage follows the rows; `Mail` implements `WorkQueue`; tickets stay within the allowance; what is served here or refused is on record; after a refund all access ends |
| `purchase_crossed`, `settlement_recorded`, `delivery_cleared`, `payout_replaced` | the smallest instances that show them | known divergences, section 6 |

Three properties that the abstract specifications imply are not listed with a
run a second time and stay as theorems: `FinalStatusesStay` (from `Sale` and
`EntitlementMatchesMoney`), `AcknowledgedIsDelivered` and `KeyOrderUntilReplay`
(from `WorkQueue`).

The bounds. Each race the code can lose needs two actors on one row; every
passing safety run has at least two of each kind that can collide, and one fault
to cut a handler between any two of its steps. (`settlement_disputes` has one of each
kind, which act on the same rows; its invariants are proved for any number.)

- Two attempts on an order are needed because every unique key of the capture
  contains the payment; a second order, to which one of them is brought, because the
  key contains the order as well. Two refunds of an item and one of another make the
  provider's bound on the payment and ours on the line differ.
- Two carts that cross deadlock, and a third cart that shares no variant with them is
  numbered at the same time; the edition of one is sold by the first capture.
- Three messages on two keys distinguish "blocked by my key" from "blocked".
- Two files let two replicas record side by side, and two attempts tell a retry from
  giving up.
- Two calls of the identity service are a reader and what overtakes it; three
  passwords are an old one, one that a call in flight has verified, and a new one; an
  erased row and a new one share the address.
- A second request finds an allowance of one spent; a second use of a URL is a reuse.
- A scan of one is a scan that one held transfer can fill; the code's limit is 200.
- Two failures or losses are as many as a job has tries, so that it can end as failed,
  and a second addition in the same second, or in the next, is one that shares its job
  or does not. A mail is kept for each addition that still needs one (`SpareMails`).
- One retry lets an attempt overlap the one that was given up, which the client's
  later retries repeat; the transfer amounts 1 and the whole, and a split above the
  order, are the cases the provider and the adapters tell apart.
- A burst of 3 in 7 ticks makes the emission interval truncate, and charges of 2 do
  not divide the burst.
- Three lines on two accounts let a line commit before, inside and after a rollup of
  an account; two rollers do what the history variable `crowded` speaks of.
- Two captures whose documents are in opposite orders wait for each other's series;
  the third, without documents, appends between them.
- The prices are nothing, less than a unit of any levy, one that every rate rounds,
  and one that rounds differently in parts; three parts are the fewest whose roundings
  can add up.
- Three replicas: one migrates, one waits with the same files, one with others.
- The three edits name two tags in a circle and a tag by both of its names.

`MaxFaults` and its like, `MaxPasswords`, `MaxSecrets`, `MaxRows`, `MaxRepeats`, `MaxFetches`,
`MaxTime`, `NumMessages`, `NumLines` and `Seconds` bound what may go on for ever;
`MaxAttempts`, `MaxRetries`, `MaxSends`, `MaxNoticeTries` and the retries of `InTx`
are the code's own constants, smaller. Deadlock is not checked: orders end, and the
models stop when their bounded environment has nothing left to do. Symmetry is
declared for requests, replicas and sessions that no constant tells apart, and only
in runs without liveness.

Fairness.

- `Purchase`: a webhook request that started runs on (weak), and the provider repeats
  an event until it is acknowledged, so it is delivered again and again as long as it
  is deliverable (strong, because two webhooks of one event disable one another).
  Nothing is assumed of the browser, the buyer, the clock or the sweep.
- `Settlement`: holds elapse, the sweep is a scheduled task, requests run on; a
  release begins under strong fairness because PostgreSQL grants a row lock in the order
  it was asked for, so a stream of refund requests cannot starve it, and commits under
  weak. The scan takes what its order and limit let it: nothing makes it reach a
  transfer behind others that are held (`Crowded`). Nothing is assumed of the network.
- `Checkout`: a request runs on; reading a line is strong for the same reason as a
  release; PostgreSQL finds a cycle of waiting requests and aborts one. That a client
  sends a request again is never assumed.
- `Outbox`: replicas poll, abandoned locks age; a handler answers, but may fail every
  time.
- `Catalogue`: replicas poll and run what they claimed, locks nobody holds age;
  nothing is assumed of the seller, and every scan may fail.
- `Payouts`: a validation that began runs on, its locks are granted and circles found.
- `Notices`: the worker polls the jobs and drains the mails every few seconds; nothing
  says that a transport ever takes a mail.
- `Delivery`: tickets age, responses end, evidence is written, the sweep runs. Nothing is
  assumed of buyers or refunds.

## 4. Proofs

Eight proof modules establish, for every value of the constants, what these theorems
state.

| Theorem | States | Inductive invariant |
|---|---|---|
| `PurchaseProofs!TypeCorrect` | `TypeOK` | `IInv` |
| `PurchaseProofs!CapturesOnce` | `OneCapturePerOrder` | `IInv` |
| `PurchaseProofs!EntitlementIsPaid` | `EntitlementMatchesMoney` | `IInv` |
| `PurchaseProofs!AcknowledgementsAreDecisions` | `AcknowledgedCaptureIsDecided` | `IInv` |
| `PurchaseProofs!FinalStatusesNeverMove` | `FinalStatusesStay` | `IInv` |
| `PurchaseProofs!PurchaseImplementsSale` | `ImplementsSale` | `IInv` |
| `SettlementProofs!SettlementTyped` | `TypeOK` | `Typed` |
| `SettlementProofs!RefundsAlwaysAddUp` | `RefundsAddUp` | `RefundsInv` |
| `SettlementProofs!AcknowledgedLossesAreBooked` | `AcknowledgedLossIsBooked` | `LossesInv`, `ReleasesHold` |
| `SettlementProofs!ClearingAlwaysExplained` | `ClearingIsExplained` | `Typed`, `ClearingIs` |
| `SettlementProofs!ReceivableAlwaysMatches` | `ReceivableMatchesOffsets` | `Typed`, `ReceivableIs` |
| `SettlementProofs!OffsetsAlwaysFirst` | `OffsetsFirst` | `Typed`, `ReleasesHold` |
| `SettlementProofs!PayableAlwaysMatches` | `PayableMatchesTransfers` | `Typed`, `HeldIsWhole`, `ReleasesHold`, `PayableIs` |
| `StoreProofs!KeysMakeOneOrder` | `OneOrderPerKey` | `CInv` |
| `StoreProofs!OrdersAreInStock` | `PlacedWhileInStock` | `CInv` |
| `StoreProofs!AcknowledgedAreDelivered` | `AcknowledgedIsDelivered` | `DInv` |
| `StoreProofs!KeysInOrder` | `KeyOrderUntilReplay` | `DInv`, `ClaimsHold` |
| `StoreProofs!OneMailEach` | `OneMailUntilOverrun`, if no two messages announce one mail (`OwnMails`) | `MInv` |
| `StoreProofs!OutboxImplementsQueue` | `DispatchIsWorkQueue` | `DInv`, `ClaimsHold`, `QInv` |
| `CatalogueProofs!CleanFilesAreThere` | `CleanIsDeliverable` | `CInv` |
| `CatalogueProofs!SalesCanBeDelivered` | `OnSaleIsDeliverable` | `CInv` |
| `CatalogueProofs!CasesAreOpenedOnce` | `SuspectsHaveOneCase` | `CInv` |
| `CatalogueProofs!RoutingIsComplete` | `RoutingCountsEveryFile` | `CInv` |
| `CatalogueProofs!ScansImplementQueue` | `ScansAreWorkQueue` | `CInv`, `SInv` |
| `EdgeProofs!TicketsKeepTheAllowance` | `ServedWithinAllowance` | `DInv` |
| `EdgeProofs!DownloadsAreEvidenced` | `EverythingIsEvidenced` | `DInv` |
| `EdgeProofs!RefundsBoundAccess` | `RefundBoundsAccess` | `DInv`, `Ages` |
| `EdgeProofs!OldSessionsAreEnded` | `OldSessionsEnd` | `AInv` |
| `EdgeProofs!ErasuresAreFinal` | `ErasureIsFinal` | `AInv` |
| `EdgeProofs!LimitIsAlwaysKept` | `LimitIsKept` | `GInv` |
| `GatewayProofs!RetriesAreHarmless` | `RetriesTakeEffectOnce` | `GInv` |
| `ServicesProofs!MigrationsAppliedOnce` | `MigrationsApplyOnce` | `MInv` |
| `ServicesProofs!RegistersStayWhole` | `RegistersAreWhole` | `RInv` |
| `ServicesProofs!BalancesAreExact` | `ExactUntilOvertaken` | `LInv` |
| `ServicesProofs!RepeatsAlwaysExplained` | `RepeatsAreExplained` | `NInv` |
| `ServicesProofs!MailImplementsQueue` | `MailIsWorkQueue` | `NInv`, `HeldAreQueued` |
| `ServicesProofs!UsageAlwaysFollowsRows` | `UsageFollowsRows` | `UInv` |
| `ServicesProofs!RefundPartsAlwaysAddUp` | `RefundPartsAddUp` | `PInv` |

Assumptions: the named `ASSUME`s of the modules, which say what the constants are
(finite are `Delivery`'s requests and `Mail`'s drains, because tickets and deliveries
are counted, and `Settlement`'s orders, items and disputes, because their money is
summed; nothing else need be), and `OwnMails` of the outbox above. `Limiter`
supposes that a call charges at least one unit and no more than the burst, as the only
caller of `AllowN` does (`ratelimit.go:76` charges 1): a refusal can promise nothing to a
call that asks for more. The bounds on faults,
passwords and rows are parameters like others, so the theorems hold for all of them.

Arguments. None of the properties is inductive; what is needed beyond it is what a
process that read something and has not yet written still knows.

- *Purchase* (`InvariantHolds`): `RowsAgree`, that status, licence, payment row,
  posting and count of runs of an order all say the same (`CaptureKeepsRows` is the
  step that sells); `ReadsHold`, that a request that remembers a capture is right,
  because a provider's record only moves on (`PayOnlyMovesOn`); `CapturesStayDecided`,
  that an order with an intent never begins to wait again (`WaitingBegins`), so a
  decision stands. What an order's rows say is stated of the attempt it was sold for,
  whichever order that was made for: a second order's capture adds a posting and no
  payment row. The refinement maps `charged` to the provider's captured attempts,
  `sold` to the postings and `closed` to the expired orders; `SaleStep` shows that
  each action is a `Charge`, a `Sell`, a `Close` or a stutter.
- *Checkout*: `LocksHold`, that a request holds the locks of the lines it has read and
  they are still for sale; `KeysAgree`, that a key's row and the order made under it
  name each other until the row is purged; and an answer that was given stays true.
- *Outbox*: acknowledged messages need only what a replica has at hand
  (`HandledIsDelivered`). Order per key rests on what a claim saw of older messages
  staying true (`ClaimsHold`): it is broken only by one that commits later, and that one
  is overtaken; one mail of a kind rests on a claimed message being in one replica's hands.
- *The three queues*: an acknowledgement, `failJob` or `markFailed` names a row and asks
  nothing of it, so that it is right rests on who holds what: until the queue is
  disturbed, what a worker has in its batch or at hand has not ended and is nobody
  else's (`EndsOnce` with `HandsApart`, `HeldAreOpen` with `HeldOnce`, `HeldAreQueued`).
  When it is disturbed the work still comes before the settling (`HandledIsDelivered`,
  `VerdictsAreRecorded`, `Known`). `QueueStep`, `JobQueueStep` and `MailQueueStep` show
  that each action is an action of `WorkQueue` or a stutter.
- *Catalogue*: `CopiedFirst`, a record that says clean follows its copy, in every
  replica; `HeldOnce` and `Undecided`, until a batch outlives its lock a file is held
  by one replica that found it undecided; `ReadsHold`, what a record read of the other
  files is still so until records overlap.
- *Delivery*: `ServedBySpent`, a ticket that is open here has served nothing;
  `TicketsCounted`; `OutcomesFit`, `OwedOrWritten` and `NothingBefore`, an outcome is owed
  from the step that causes it until it is written. What is in reach after a refund only
  shrinks, but for requests on their way to the answer (`ReachShrinks`).
- *Accounts*: `NothingBeforeRegistration`, nobody is signed in to a row that is not
  there, and nothing is under way for it, so a registration finds no session older than
  its password; `SessionsAccountedFor`, while a change is between its statement and its
  commit every open session of the user is one it saw, kept or missed;
  `OnlyLiveHaveKeys`, an erased account has no key, and what would revive it needs one.
- *Gateway*: `OneAtATime`, as long as one attempt of a call is past its look-up, a
  missed look-up means that the call has done nothing; `EffectsAreStored`, what it has
  done is stored or about to be; `ObjectsStay`, a call without a key cannot be rejected
  after it took effect, because its object stays; `AnswersAreTrue`.
- *Settlement*: every step is quiet, which moves no money, or a refund's write, a
  release or a lost dispute, and what those three do to rows and accounts is said once
  each (`WriteFacts`, `ReleaseFacts`, `LossFacts`). `AskedIsCovered`: a request that asked
  the provider still has the item's lock, so what it found covered is; `ReleasesHold`: from
  its reading to its commit a release has its transfer, which stays on hold, to itself;
  `Recovered`: a webhook that is done has cancelled or claimed every line. Each account is then the sum
  of its rows: `ClearingIs`, `ReceivableIs`, and `PayableIs`, which needs that a held
  item was never refunded (`HeldIsWhole`). That a release pays nothing while an offset it
  has read is open is a fact about `Take` over offsets in any order (`Greedy` of `Sums`).
- *Sums*: `SumFunctionOnSet` of the community modules is a recursive function given by
  CHOOSE. That its equation has one solution is shown by induction on the size of
  subsets, stated with sets of numbers instead of predicates (`Least`, from the
  well-foundedness of strict subsets), and so are the rules the accounts need: one more
  member, one changed member, a union, a comparison.
- *Migrate*: `LockHeld`, one replica at a time; `KnowsWhatIsApplied`, while it holds
  the lock, what is applied is what it read and its own earlier files.
- *Registers*: `HeldAlone`, a lock has one holder; `NumbersFollow` and `EntryFits`, what a
  transaction took follows what is committed for as long as it holds the lock.
- *Rollup*: `RolledUp`, the row's total is the number of lines up to its watermark;
  `InHand`, a sum that was selected is that of the stretch from the watermark to the
  ceiling, because below a line that was seen nothing appears but by a commit that
  overtakes.
- *Mail*: `Covered` counts the deliveries made and those that claims in hand may still
  make, against one and the repeats; `Known`, a mail said to be sent was taken.
- *Listings*: `UsesLeft`, what a call will leave a tag with is what it found, one less if
  the product had the tag, one more for each row counted (`LocksWhatItCounts`: only tags
  it has locked); so a commit, which replaces the rows of one product (`RowsSplit`),
  changes no tag that another call has read. `SlugFits`: a call that inserted the title's
  slug is alone with it.
- *Pricing*: a paid line's components make its total, because the ledger refuses a
  capture that does not balance (`CaptureBooks`); so what five rounded shares leave of a
  part is two units at most (`Residue`), whatever was refunded before. The rounding is
  `Halves`; products are given names, and only distribution is asked of the prover.
- *Limiter*: `Ahead`, at every moment that a call may yet be decided by, the arrival
  time is ahead of each earlier moment by the cost of all that was let through since;
  a call that conforms then overdraws no window (`WindowsKept`). `TellsEnough`, what a
  refused caller was told covers the arrival time as it is.

The proofs changed the models where these were vague: two CASE expressions had
arms that overlap (`Wants`, `Classify`) and are now IFs; `Rollup` had only one roller,
and `Settlement`'s account of offsets ended where a posting is replayed, without saying
so (`crowded`, `replayed`).

Only model-checked: liveness, which the prover cannot do; the type invariants of the
modules that have no theorem of their own for it; and the disagreements of section 6.

## 5. Not modelled

PROJECT.json says for each component what is left out and why.

- `identity` roles: each operation is one statement, and roles are read afresh by
  every request.
- `provenance` and `ranking`: parsers, similarity hashes and a floating-point score, all
  pure functions of binary or real data with no protocol.
- Request routing, decoding, validation, encoding and read-only routes; configuration,
  logging and metrics; start-up and shutdown; the development tools under `cmd/`.
- Cryptography, webhook signatures and parsing, object storage's and the virus
  scanner's protocols: what they may answer is part of the modules that ask them.
- Refund and transfer webhooks, and in-app disputes: nothing writes what they look up.

Many operations of `identity` (resets, enrolments, verification, erasure) and some
adapter methods have no caller in the commands yet; they are modelled as the API their
packages offer.

## 6. Known divergences

What a document or a comment says and the code does otherwise. Checked by a run:

- `purchase_crossed`: the callback takes its order from the URL and its payment from the
  body, and `ConfirmPayment` compares them by amount only (`confirm.go:86`). A payment of
  one order confirms another of the same total: `payments` keeps the row of the first
  (`confirm.go:145`), the intent's UPDATE finds no row (`confirm.go:159`), and a second
  capture is posted, as its key contains the order (`confirm.go:339`).
  `handlers_verify.go:123`: "a provider payment must be captured into the ledger exactly
  once"; its query joins by the row's own order and cannot see the second. A refund of
  the second order then finds no captured payment (`refund.go:104`).
- `settlement_recorded`: `Refund` accepts a disputed order and refunds at the
  provider, but `disputed -> refund_pending` is no allowed transition, so
  everything on our side rolls back. A refund that loaded a `fulfilled` order ends the same
  way when the sweep completes the order, or a dispute takes it, before its guarded update
  (`refund.go:57`).
- `delivery_cleared`: `ExpireGrants` deletes all old tickets in one statement
  (`delivery.go:475`). A redeemed one is referred to by its event ON DELETE SET NULL,
  and `download_events` refuses updates, so from the first such ticket on the
  statement raises and clears nothing.
- `payout_replaced`: `RecordValidation` makes a destination that passes the default at
  once, while it is in quarantine (`payout.go:179`), so no destination may be paid
  until the quarantine ends; `payout.go:97` says that the previous one "keeps receiving
  settlement until the new destination leaves quarantine".

Shown by TLC in the same way, each by the configuration that is named with it; they are
not among the runs of PROJECT.json:

- `NothingLeavesBeforeOffsets` (`MCSettlement`, `MCSettlementNetted.cfg`): `releaseOne`
  reads the offsets there are (`settlement.go:265`); one that a refund or a lost
  chargeback commits before the release does stays open while the release pays, against
  `settlement.go:193`, "Outstanding offsets are netted before anything leaves". What the
  release has read is netted (`OffsetsFirst`).
- `HoldsExpire` (`MCSettlement`, `MCSettlementStarved.cfg`): the scan's `ORDER BY
  hold_until LIMIT 200` (`settlement.go:72`) comes before the reasons to hold
  (`:100-123`). Orders that are disputed for good, or sellers who stay suspended, fill
  it, and no later transfer is released; ADR 0011:38, "a hold expires".
- `InsertionOrder` (`MCStore`, `MCOutboxOrder.cfg`): ids are taken before the commit and
  by the host's clock, and `releaseOne` (`settlement.go:236`) and `onDispute`
  (`webhook.go:395-414`) publish under an order's key without its row, so a message is
  delivered before one of an earlier id that commits later. `outbox.go:39` "guarantees"
  insertion order, as do ADR 0007:32 and the runbook `outbox-backlog.md:59`.
- `LinksAreSingleUse` (`Delivery`, `MCDeliverySingleUse.cfg`): a presigned URL is good
  until it expires, however often it is used (`s3.go:258`), and consuming it is counted
  nowhere; `delivery.go:10`, the answer's note (`handlers_commerce.go:299`), `s3.go:136`
  and the mails (`render.go:149`, `:220`) say that it is single use.
- `DisconnectLeavesEvidence` (`Delivery`, `MCDeliveryDisconnect.cfg`): with presigned
  storage the look-up of the event's rows runs in the request's context
  (`delivery.go:441`), and a buyer who goes away after the ticket was counted leaves no
  event; `delivery.go:467`, "so a client disconnect still leaves evidence".
- `ResetRevokesEverySession` (`Accounts`, `MCResetSessions.cfg`): a sign-in with the old
  password whose session is inserted between the revoking statement and the commit
  (`credentials.go:156-163`, `service.go:519`) survives the reset;
  `docs/api/openapi.yaml:397`, "Completing it revokes every existing session." A change
  of password has the same gap (`credentials.go:206`).
- `WarningIsOwed` (`Notices`, `MCNoticeOwed.cfg`): two destinations added within one
  second share the key of their job (`payout.go:260`), and only the first is announced;
  `payout.go:128`, "if the change commits, the warning is owed".

Met while modelling, and where the models have them. Orders:

- `onPaymentCaptured` returns nil for every order that is not `awaiting_payment`
  (`webhook.go:215`). A capture whose order has expired meanwhile, or has failed
  before on the same intent, is acknowledged with neither a payment row nor a
  difference; `docs/arch/07-failure-modes.md:25` says that it "still lands when the
  provider's webhook arrives" (`Purchase`, `HookLoad`).
- `Checkout` compares `sales_count` with `max_sales`, which grows only at capture
  (`checkout.go:389`, against `:329`). Two orders for the last copy are both paid;
  the second capture fails on the constraint each time its webhook is applied
  (`Purchase` with `VariantOf <- OneVariant` and `MaxSales <- EditionOfOne`,
  `CaptureIsResolved`).
- `BeginPayment` never leaves `payment_failed` (`checkout.go:553`);
  `0006_orders_payments.sql:91` says "Buyer retried payment."
- `confirm.go:87` audits an amount that does not match in the transaction it then
  rolls back. An order of total zero cannot be captured.
- The journal key of a netting is the offset and the amount taken
  (`settlement.go:334`). A second settlement that takes the same amount of the same
  offset is a replay for the ledger, while the offset advances (`Settlement` with
  `OrderOf <- TwoOrders` and `Net <- NetUneven` of three items, `replayed`): from then on
  the account and the offsets differ.
- Partial refunds round the seller's share one by one (`refund.go:483`), each by up to
  half a unit (`Pricing`), and a lost chargeback takes the whole share of a line that
  was refunded in part (`webhook.go:460`), or of one that a release paid out between
  its read and its write (`webhook.go:486`): payable goes below zero, against
  `handlers_verify.go:115`, "the platform must never run an internal debit
  balance for a seller".
- A transfer that was scanned before a chargeback is released during it, and the
  reasons to hold a seller's share are judged in the scan only (`settlement.go:58`,
  `:141`); `webhook.go:401` says "frozen the instant". The scan never asks
  `PayoutEligibility` (`settlement.go:103`), to which `seller.go` refers both for "the
  same answer".
- Two refunds of different lines write back the total they read, and an order
  that was refunded in full stays `partially_refunded` (`refund.go:462`).
- A lost event that is repeated before its acknowledgement inserts the offset rows
  again (`webhook.go:503`); a created event that is handled after the won one
  leaves the order disputed (`webhook.go:395`).
- A partial refund of a held line cancels the whole transfer, and what is left of
  the share stays payable with nothing to release it (`refund.go:189`).
- A release locks transfers and then offsets, a refund the item and then its transfer,
  a capture and a chargeback the order first (`settlement.go:143`): they may wait for
  one another, and `InTx` runs the victim again.
- `PSP_FEE_BEARER` of `docs/arch/04-money-flow.md:27` is no configuration. Were the fee
  the seller's, a sale would not balance and could not be posted (`Pricing`, status
  "unpayable").

Ledger, registers and payments:

- A line that commits after a line with a higher `seq` was rolled up is below the
  watermark for ever (`0004_ledger.sql:276`); ADR 0005 says that reads "are correct
  at every instant" (`Rollup`, `overtaken`). Two workers that run a rollup at once
  both add the lines they selected (`worker.go:379` takes no lock;
  `docs/arch/07-failure-modes.md:110` says that they cannot): `crowded`, until which
  balances are exact.
- `chain_pos` comes from a sequence, and a rollback leaves a gap in it; the runbook
  `audit-chain-break.md:32` says that a gap indicates a deletion (`Registers`,
  `position`).
- Attempts of one call that are both past the provider's look-up take effect twice
  (`Gateway`, `overlapped`). `ParseWebhook` iterates a Go map where a payload has
  several entities. `Allocate` of money is not fair on negative amounts, and has no
  caller.
- The comment of `InTx` speaks of REPEATABLE READ; the default is READ COMMITTED.

Worker, mail and outbox:

- A job that has failed as often as it may is given up (`jobs.go:155`), and its
  destination is announced to nobody; a worker that is lost each time is never compared
  with that maximum (`jobs.go:97`).
- A replayed dead letter is delivered after later messages of its key
  (`outbox.go:204`), and two replicas that handle one message at once both queue
  its mail (`worker.go:108`). A mail is recognised by template and order, so the
  second refund of an order queues none: `OneMailEach` is proved for messages that
  announce mails of their own.
- `attempts` is raised at the claim and compared only by `nack` (`outbox.go:277`): a
  message whose replica dies each time is claimed for ever.
- A claimed mail stays queued (`mail.go:92`), so overlapping drains send it again, and a
  late `markFailed` is written over `sent` (`Mail`, `repeats`).
- `worker.Run` returns without waiting for its tasks.

Catalog and delivery:

- A scan that clamd answers with ERROR is recorded as 'error' and its job completed
  (`clamav.go:165`), so nothing scans the file again; `scanner.go:45` says that an
  outage "degrades into a backlog".
- A batch of scans that outlives its 30-minute lock: 'error' is written over a
  verdict that came meanwhile (`asset.go:267`), so a product on sale loses its only
  clean file; a suspect file gets a second case; a job is both completed and failed
  (`jobs.go:131`, `:155`) (`Catalogue`, `overran`).
- Two replicas that record files of one product side by side read before either
  has committed, and its routing misses one of them (`asset.go:424`); the comment
  says "the strongest evidence on any one file speaks for the product"
  (`Catalogue`, `overlapped`).
- `Copy` of the filesystem store syncs neither the object nor its directory, and does
  not copy the sidecar.
- Two names of one tag on a product count two uses, and `ReplaceTags` takes one
  back; `tags.go:97` says "Usage counts follow the rows" (`Listings`, `doubled`). Of two
  drafts that look for one slug at once, the loser gets the index's error.
- A refund under `no_refund_after_download` is granted while a ticket is out, and the
  ticket is redeemed, or its URL used, after it (`refund.go:291`, `delivery.go:370`);
  `RefundsBoundAccess` says how far that goes. With presigned storage the event comes with
  the URL, used or not (`delivery.go:435`).
- A refusal that names no licence of the buyer's, or no file of it, writes no event
  (`delivery.go:452`); its comment leaves it to the audit log.

Identity (`Accounts`):

- The session of a sign-in that verified the old password before a change or a reset is
  written after it and survives (`IssueSession`: it is younger than the change, so
  `OldSessionsEnd` does not speak of it); its rehash can restore the old password's
  hash (`Rehash`).
- A reset reads `erased_at` without the row's lock (`credentials.go:119-126`) and a change of
  password does not read it: a call past its check when an erasure commits waits for the
  row and then sets the erased row's password (`credentials.go:149`, `:201`), and links and
  sessions inserted after the erasure's statements stay open rows (`credentials.go:308`). No
  guard accepts them again (`ErasureIsFinal`). `EraseSubject` has no caller but a test.
- Two `BeginPasswordReset` at once leave two live links. A confirmation that overlaps a
  new enrolment enables a secret nobody has confirmed. `failed_login_count` is written
  back as it was read. Recovery codes of a confirmation in flight outlive an erasure.
  The second of two registrations of an address gets the index's error.

Rate limiting (`Limiter`):

- `ratelimit.go` says that a shared limiter serves sign-in and payouts; only the local
  one exists, so a limit is per replica. A call that charges more than the burst is
  never let through, whatever its `Retry-After` says; the emission interval is truncated to whole units; a window lets
  the burst and what is emitted in it through. A sweep between a call's look at the
  clock and its decision forgets what the entry still held (`overtaken`). A
  `Retry-After` is rounded by 0.999 s and may be a millisecond short.

## 7. Plan

Done: the purchase path and what follows the sale, the queues, the catalogue, delivery,
accounts, destinations, registers, prices, the provider's calls, the limiter and
migrations; proofs of fifteen modules; the sale and the work queue as abstract
specifications that are implemented. Left:

1. `Checkout` composed with `Purchase`: orders placed by one are paid in the other,
   with the last copy of an edition between them; `Purchase` with `Gateway` as its
   provider.
2. The jobs of `Notices` as a `WorkQueue`, with the addition that queued it as the task.
3. The grievance watch and the pruning tasks of the worker; roles.
