# Verification of the transaction service

TLA+ models, model-checking configurations and machine-checked proofs for the
banking transaction service (Node.js, Express, SQLite). File names below are
relative to the repository root.

## 1. The system

| Part | Source | State it keeps | Operations |
|---|---|---|---|
| Transactions | `src/services/transactionService.js` | tables `transactions`, `idempotency_keys`, `daily_transfer_totals` | `deposit`, `withdraw`, `transfer`; queries `listTransactions`, `getTransaction`, `getStatement` |
| Account client | `src/services/accountService.js` | table `account_cache` | `getAccount` (live, else cached), the account checks, `debitAccount`, `creditAccount`, `rollbackDebit` |
| HTTP client | `src/utils/httpClient.js` | one retry loop per call | `httpCall` |
| Notifications | `src/services/notificationService.js` | requests on the wire that nobody awaits | `notifyTransaction`, `_dispatch`; `notifyAccountStatus` has no caller |
| Schema | `src/db/init.js` | the SQLite file | `initDb`, `createSchema`, `closeDb` |
| Routes, validation | `src/routes/transactions.js`, `src/middleware/validate.js` | none | three POST and three GET handlers |
| Metrics | `src/utils/metrics.js` | counters in memory | incremented by the parts above |
| Lifecycle | `src/index.js` | the process and its connections | start, graceful shutdown, forced exit after 10 s |
| Seed | `src/seed/seed.js` | marker table `_seed_meta` | `runSeed` |
| Around it | `src/app.js`, `src/middleware/common.js`, `src/utils/logger.js`, `src/config/swagger.js`, `k8s/` | rate-limit window | probes, logging, API documentation, deployment |

External: the Account Service, which owns the balances (GET, PATCH debit, PATCH
credit), the Notification Service, and the clients.

**How they interact.** A POST handler runs on one event loop. It calls the
Account Service through `httpCall` and awaits; at every `await` other handlers
run. Between two awaits nothing interleaves, and SQLite (better-sqlite3) is
synchronous. The deployment runs exactly one process (`k8s/hpa.yaml`,
`strategy: Recreate`), so the tables are shared by handlers of one process only,
and by the next process after a restart. The one exception is `npm run seed`, a
process of its own that may run beside a starting or serving one.

**What is hard.** Overlapping handlers that check a row before an `await` and
write it after one; calls that are retried without being idempotent; answers that
are lost, late or out of order; a rollback that fails silently; three SQLite
commits at the end of a transfer with a possible error or crash between them; a
cache that is written by every answer in order of arrival and read on any failure.

**What makes each part correct.**
- Transactions: the ledger records what the Account Service did, whole transfers
  only; an idempotency row stands for a recorded transfer; the answer is true; the
  cap holds; money is moved or put back.
- Account client: a cached row is one answer or one row of the seed, never a mixture;
  a debit is sent only if one of these allowed it.
- HTTP client: at least once when it resolves, at most `MAX_RETRIES` times ever,
  ends in bounded time.
- Metrics: counters agree with ledger and answers.
- Notifications: every recorded transaction is handed over once, none for a
  transfer that was reversed; each is counted as what became of it, in the end.
- Lifecycle: a graceful exit waits for whoever waits; a signal ends the process; a
  restart finds tables from which it can go on.
- Seed: a marked database is a loaded one; a boot ends, whatever its seed does.
- Lists: a client that walks the pages misses no row of its period but those that the
  comparison as text loses; a page is within the cap if the limit is not negative.
- Validation and hash: nothing but the free texts can keep an accepted body from being
  recorded; a reused key with one character, or one short number, changed is noticed.

## 2. The modules

| Module | Models | Role |
|---|---|---|
| `CallContract` | what one `httpCall` may do to the service called | a record of attempts sent and executed, and the steps on it |
| `RemoteCall` | one call as a state machine | the abstract specification of `HttpClient` |
| `HttpClient` | the retry loop, its network and peer, its clock | shown to implement `RemoteCall` |
| `AccountRules` | the checks and the cache row of `accountService.js` | pure operators |
| `TransactionService` | the three handlers, the tables, the account client, the Account Service | composes `AccountRules` and, for every PATCH, the steps of `CallContract` |
| `TransactionProperties` | what the service promises | extends the above |
| `Reconciliation` | properties that are sums over the tables | extends `TransactionProperties`; kept apart so that only `ReconciliationProofs` has to reason about folds |
| `MoneySaga` | take, give, restore, enter: a request without tables, accounts, keys or clocks | the abstract specification of `TransactionService` |
| `SagaRefinement` | the mapping of `TransactionService` to `MoneySaga` | |
| `NotificationDelivery` | `_dispatch`, its retries and its counter | over `CallContract` |
| `Lifecycle` | the process: connections, signals, both exits, crash, restart | composes `MoneySaga` and `NotificationDelivery` |
| `Seed` | `runSeed` in a server and in the script, on one database | |
| `RequestHash`, `HashLoop` | `_hashRequest` in words of two halves; its loop on two texts side by side | |
| `RequestBody` | what the validators accept and what the table can store | |
| `Listing` | the filters, order, LIMIT and OFFSET of both lists, and a client that walks them | |
| `MCHttpClient`, `MCTransactionService`, `MCSynchronous` | constant values for TLC | the last runs `Seed`, `HashLoop`, `RequestBody` and `Listing`, one per behaviour |
| `HttpClientProofs`, `TransactionServiceProofs`, `LedgerProofs`, `ReconciliationProofs`, `MoneySagaProofs`, `SagaProofs`, `LifecycleProofs` | theorems and proofs of the service, the HTTP client and the process | |
| `SynchronousProofs` | theorems and proofs of `Seed`, `RequestBody`, `HashLoop` and `Listing` | what awaits nothing |

`RemoteCall` and `TransactionService` both build their steps from `CallContract`,
so what `HttpClient` is shown to implement is what the composition assumes. In the
same way `Lifecycle` takes its handlers from `MoneySaga`, which `TransactionService`
is shown to implement: the process is studied with requests of six stages in place
of the whole service.

### Correspondence of `TransactionService`

A *request* is one run of a handler; a client that tries again is another request
with the same body. `pc` is where it is:

| `pc` | code | leaves by |
|---|---|---|
| `idle` | not arrived | `Accept`, or an answer at once: `RejectSameAccount`, `RejectKeyReuse`, `Replay`, `LookupFails` |
| `reading` | `await getAccount` (two at a time in a transfer, `Promise.all`) | `GetReturns`, `GetFallsBack`, `GetFails`; the last to settle runs all checks and sends the first PATCH (`Decide`) |
| `debiting` | `await debitAccount` | `DebitReturns`, `DebitFails` |
| `crediting` | `await creditAccount` | `CreditReturns`, `CreditFails` |
| `rolling` | `await rollbackDebit` | `RollbackReturns`, `RollbackFails` |
| `recording` | the insert of one row, or of both legs in one SQLite transaction | `RecordSingle`, `InsertBoth` |
| `counting` | `_incrementDailyTotal` | `IncrementDailyTotal` |
| `storing` | `_storeIdempotent`, notification, answer | `StoreIdempotent` |
| `done` | answered, or lost in a crash | |

One action is what runs between two awaits. The exceptions are the last three
places: they are one turn of the event loop, but commit separately, so each is a
step, `DbFails` may come instead of any of them, and `Crash` between them;
`LoopFree` keeps other handlers out meanwhile. A request that is over may still
have a `getAccount` running (the other one of a rejected `Promise.all`): its
answer is received by `GetReturns`, writes the cache, and starts nothing.

The Account Service is external. `ServerReads` takes the snapshot a GET will
bring; `ServerExecutes` changes a balance for one attempt of a PATCH, while the
call is awaited or, with network faults, after it was given up; the answer that
resolves a call may be of any execution. A call that nobody executed may always
fail (a refusal: 4xx, or all attempts answered 503). It executes any debit, because
nothing in this repository says that it checks the balance; `AccountChanges` are
its operators.

Faults are constants: `"net"` allows retries, lost and late answers; `"db"` lets any
SQLite statement throw; `MaxCrashes` bounds process deaths. A crash loses memory
(`pc`, `gets`, `metrics`, the answers awaited) and keeps the tables.

Account records are modelled with what their answers leave out. A field is one of the
values that the CHECK constraints of `account_cache` list, `"OTHER"` for any other, or
`"UNSET"`; `lacks` says whether the balance, the `account_id` or the whole body is
missing. `ValidateAccount` and `Overdrawn` are the checks on such a record (a missing
`kyc_status` passes, a missing `status` does not, a missing balance is not less than
any amount); `CacheRow` is the row of `_upsertCache` with its five defaults
(`accountService.js:205-215`), `Cacheable` says when there is one, and `Upserted` keeps
the type that was first inserted. The cache starts as the seed leaves it (`SeedRow`):
the records of the CSV files, the constant `Csv`, of which nothing is assumed, in
particular not that they agree with the Account Service. `AccountChanges` turns an
account into any of the constant `Revision`, its balance kept: another type, status or
KYC status, or answers of another shape.

Abstractions: amounts are integers; the hash of a request is the constant operator
`Hash`; time is a tick count with `TicksPerDay` ticks to a UTC day, which is also the
lifetime of a key; the rate limiter, logs, names and the text of messages are left
out. The error of `getAccount` without a cached row is called `UNAVAILABLE`, that of a
missing account `NOT_FOUND` (status 503 and 404, no code of their own).

### Correspondence of the other modules

- `MoneySaga`, by `SagaRefinement`: `debiting` is the stage `taking`, `crediting`
  `giving`, `rolling` `restoring`, `recording` `entering`; `idle` and `reading` are
  `waiting`, the rest is `over`. `asked` is the set of calls issued, `done` how often
  each was executed, `entered` whether a row is in the ledger. Reads, the cache, the
  daily total, keys and answers are stutters.
- `Lifecycle`: `conn` is the connection that carries a request. `server.close`
  (`index.js:36`) stops new connections, and its callback waits for those that are
  open: `Drained`. An idle keep-alive connection may carry another request. A client
  that disconnects (`gone`) leaves its handler running without a connection. An exit
  ends handlers, connections and open calls; the Account and the Notification Service
  still execute what is on the wire. `EnterAndNotify` is one turn: a statement after
  the insert may throw before `notifyTransaction`, the `SELECT` of a single row
  (`transactionService.js:107`) as well as those that follow the legs of a transfer.
- `Seed`: each `db.transaction` of `runSeed` is an action, since a process may die or
  a statement may throw between two, and another process may run between them. A
  cache row is what wrote it: a build of the seed or an answer of the Account Service.
- `Listing`: `created_at` and bounds are day, second and separator, compared as text
  with a space (`"space"`) before a T and a bare date before both. Rows of one second
  come in either order of insertion, fixed for a behaviour (`newestFirst`). A row's
  `Place` in the result is the number of rows up to it, and `InOrder` puts each row at
  its place.
- `RequestBody`: JSON values are the classes that the validators, `better-sqlite3`
  and the CHECK constraints tell apart.
- `RequestHash`: `Math.imul` and `| 0` as arithmetic on `<<hi, lo>>`, so that TLC's
  integers suffice for any width.

## 3. What is model-checked

Definitions marked *Mutant* in the modules are plausible wrong versions of the
definition that follows them (a dropped guard, an off-by-one, a swapped order).
They are used by no specification; each property below has been seen to fail when
one of them replaces its original.

| Run | Configuration | Shows |
|---|---|---|
| `http` | one call, 3 attempts, 5000 ms, 200 ms; errors 422, 429, 503 and no response | it implements `RemoteCall`, ends, and is bounded by 15 600 ms |
| `faults` | 2 requests in flight (a transfer, a withdrawal), network and SQLite faults, 1 crash | ledger, idempotency table, notifications and answers claim nothing that did not happen; every request is answered |
| `retries` | 1 request of any kind, 3 attempts per call, all faults, 1 crash, an account whose answers lack balance and id | the service implements `MoneySaga`; `balance_after` is a balance the account had, with up to 9 executions; a request that is over does nothing more |
| `stale` | 2 requests, 2 changes (to `NRE`, to no type, status and KYC, to an unlisted type and `FROZEN`, to no body), opening KYC `PENDING`, a seeded row of another type and without status, an uncached account | a cached row is of one source, its type excepted; every debit was allowed by one source |
| `concurrent` | 3 requests, 2 in flight, 2 days, no lost answers | balances, ledger, daily totals and counters agree; transfers are atomic up to the critical alert; the cap is overshot at most `MaxInFlight` times |
| `serial` | 3 requests one at a time, 2 days, keys that expire, a CSV balance of 5 where the account has 4, withdrawals of 5 | an overdraft is at most what the seed overstated, the cap holds, a stored key is not reused before it expires |
| `lifecycle` | 2 requests, 2 attempts per POST, 1 execution per PATCH, 1 exit, 1 client that leaves | a graceful exit cuts no transfer whose client waits; notifications stand on recorded money, are counted for what they are, and settle; a signal ends the process |
| `synchronous` | 1 server and the script, 2 builds, 2 faults; texts of 4 characters in words of 14 bits; all classes of bodies; 3 rows, days of 2 s, pages of 2, limits absent, not a number, -1, 0, 1 and 3, bounds with a space, with a T and as a date | a marked database is loaded, every boot ends; one changed character, or one changed number, shows; of accepted bodies only free texts make the insert throw; a walk misses only what the comparison as text loses, in order, in pages within the cap |

Four runs check something that the documentation says and the code does not do.
TLC finds the counterexample in each:

| Run | Said | What happens |
|---|---|---|
| `duplicate` | `src/config/swagger.js:23` "Idempotency keys prevent duplicate transfers" | the key is looked up before and stored after all awaits; an overlapping retry runs too |
| `lost_answer` | `src/config/swagger.js:22` "All transfers are atomic (debit + credit or full rollback)" | a debit whose answer is lost is not rolled back |
| `unreversed` | `README.md:40` "debit is automatically reversed" | a failed rollback is swallowed, the client is told "Debit has been reversed." |
| `orphan_read` | `src/config/swagger.js:20` "Overdraft prevention for SAVINGS accounts" | with requests strictly one after the other: a transfer fails because the receiver cannot be read, the read of the sender goes on, and its late answer puts an old balance in the cache, on which a withdrawal falls back |

`serial` is the counterpart of the last one: that overdraft needs an account with no
cached row (so that `Promise.all` can reject). When all are cached, what is left is the
overdraft that the seed itself allows: a CSV balance above the real one, and a GET that
fails before any answer has refreshed the row. `OverdraftBoundedBySeed` says that it
happens once and by no more than the difference.

**Where the passing properties end.** The properties name the cases that the code does
not handle; they are in the models and in the values that the runs use, and each
property excepts exactly those.

- KYC. `README.md:34` of the repository says "kyc_status must be VERIFIED → else 403". A
  record without `kyc_status` passes (`accountService.js:87`), and is cached as
  `VERIFIED` (line 214); one without `status` is refused when it is read live (line 80)
  and passes from the cache, as `ACTIVE` (line 213). `EveryDebitWasOnceAllowed` counts a
  missing field as a good one, and is about one source at a time: the status of one
  record never goes with the balance of another.
- The type of a cached row is the first one for ever (`ON CONFLICT` does not set it), so
  a debit may be checked against the type of another source than the rest;
  `CachedFromOneAnswer` and `EveryDebitWasOnceAllowed` say so.
- The cap (`README.md:36` "₹2,00,000 per account per UTC day") is checked before the
  awaits and counted after them: two transfers in flight pass together.
  `DailyOvershootBounded` says by how much, `serial` that one at a time never does.
- `NothingMissed` and `WalkIsOrderly`, with the bounds that `routes/transactions.js:30`
  and `:68` document (`format: date-time`, `format: date`). As text, a `from` with a `T`
  is greater than every row of its day, and a `to` that is a bare date less than all of
  them: these rows are missed. A `to` with a `T` is greater than every row of its day:
  later ones are served as well. A limit of 0 ends a walk at once.
- `PageBounded` excepts negative limits: `Math.min(parseInt(limit), 100)` has no lower
  bound, and SQLite reads a negative `LIMIT` as none.
- `OnlyFreeTextUnrecordable`: no validator looks at the type of `description` and
  `reference`; `true` or an object passes, the money moves, and the insert throws
  (`transactionService.js:98`).
- `OneCharacterTells` and `ShortChangeTells`: with the codes of digits and point at most
  11 apart, a number of the request that becomes another of as many characters is
  noticed when the change spans six characters or fewer, which is what 32 bits hold
  apart. A longer change, or one of the length of the text, may go unnoticed: the
  transfers of 79577.1 and of 105197.67 from `ACC-1` to `ACC-2` have one hash, and the
  second, under the key of the first, is answered as its replay.
- `GracefulKeepsWaiting` excepts clients that have left: `server.close` waits for
  connections, not for handlers, so a transfer whose client has timed out may be cut
  between its PATCH calls by a graceful exit. A forced exit may cut any.
- `KeyFreeWhenRecorded` is about keys that are stored. A crash or an SQLite error between
  the insert of the legs and `_storeIdempotent` leaves a recorded transfer whose key is
  free.
- `MarkedIsLoaded` speaks of the CSV files there were before the first boot: the marker
  is set without them too (`seed.js:179`), and files placed later are never read. A new
  `SEED_VERSION` inserts with `INSERT OR IGNORE`, which keeps the rows of the old one, so
  `README.md:216` "bump `SEED_VERSION` ... and restart" adds ids and changes no row.

Observed while reading, without a run: the comment of `getAccount`
(`src/services/accountService.js:14`) says it returns null when the Account Service
is unavailable, and it throws; `failed_transfers_total{reason="debit_failed"}` also
counts transfers whose debit and credit succeeded and whose SQLite insert failed
(`src/services/transactionService.js:288`).

**Bounds.** Two accounts are a sender and a receiver; three would add no new
relation between two requests, since a transfer touches two. Two requests in flight
show every pairwise race; the third request of `concurrent` and `serial` is the one
that sees what the first two left. Amounts 1 and 2 against a cap of 3 (or 2) and
balances of 3 or 4 make each check succeed, fail, and succeed alone but fail
together. `MAX_RETRIES = 1` in the runs with two requests is enough for late
execution and failure; repeated execution is the subject of `retries`, with three.
One crash leaves tables that a second request meets. `MaxTime` lets one midnight
pass (two ticks a day: one within a day, one over it). Safety runs use symmetry of
requests where requests are interchangeable; `faults`, with a liveness property,
does not. `CHECK_DEADLOCK FALSE`: a system whose requests are all done may stop.

`retries` checks the refinement with one request of each kind, since a saga speaks of
one request; the theorem covers any number. In `lifecycle` one request can be in its
PATCH calls while the other's connection is idle, gone or reused, and the exit, of any
kind, can come at each of these moments; a restart serves what has not arrived yet.
Two attempts of a POST are one that is lost and one that is delivered, perhaps after
the exit. In `synchronous` the second build's files have one account and one
transaction more, so that a seed meets rows of an older build, of the other process
and of a serving server; two faults are a failure and a death, or two of either. Words
of 14 bits are short enough for products of four characters to wrap around, and the
halves of 7 bits for carries; they hold a change of two characters apart, with the codes
of a quote, a point and two digits. Three rows and a cap of two give several pages; days of
two seconds give ties, bounds within a day and over midnight.

**Fairness.** `EveryRequestAnswered` assumes weak fairness of what the process does
by itself: a call that can return or fail does so (`httpCall` ends by its timeouts,
which `CallEnds` shows for the loop under the fairness of its timers), a `getAccount`
settles, and the synchronous end of a handler runs on. Nothing is assumed of
clients, of the Account Service, of the network or of the clock.

`ShutdownEnds` assumes that the timer of `index.js:41` fires: weak fairness of
`ForcedExit`, which stays enabled once the process is closing; clients may keep their
connections for ever. `NoticeSettles` assumes that a POST that nobody answers ends by
its timeouts (`NoticeFails`), again what `CallEnds` shows of `httpCall`. `BootEnds`
assumes that a process inside `runSeed` goes on: it awaits nothing. No fairness is
given to faults, deaths, deliveries or restarts.

## 4. What is proved

With TLAPS, for every value of the constants that satisfies the named assumptions
(`MaxRetriesAssumption`, `HttpAssumption`, `ServiceAssumption`, `NoneAssumption`, which
says that the value of an absent row is not a row, `SeedAssumption`,
`LifecycleAssumption`, `HashAssumption`, `BodyAssumption`, `ListingAssumption`): any
requests, accounts, keys, bodies, CSV records, revisions, hash function, cap, number of
attempts, builds, files, words, texts, tables, queries, faults and bounds.

- `HttpClientProofs`: `HttpClientImplementsCall`, the refinement of `RemoteCall`. Its
  invariant says that only attempts that were made are on the wire, so that the number executed (a cardinality) is at most the
  number sent, and that a returned loop has an executed attempt. `LoopTypes` and
  `CallIsBounded` add `ClockInv`: the clock is at most the timeouts that may have run
  out and the back-offs slept through, `BASE_DELAY_MS * (2 ^ (attempt - 1) - 1)`. The
  provers know no law of exponents; that `2 ^ n` is a natural number, doubles with `n`
  and never shrinks is proved by counting the subsets of `1 .. n`.
- `TransactionServiceProofs`: `TypeCorrect`, and the inductive invariant `IInv` it
  rests on. Types alone are not inductive: a ledger row takes its balance from
  `replies`, which must then hold an answer; so `IInv` adds which calls are open at
  each place of a handler (`ControlInv`), that a request past `idle` has a body
  (`ReqInv`), that a call is executed at most as often as sent and a resolved one
  at least once with its answer at hand (`CallInv`), and that a `getAccount` that
  was read carries a record (`SnapInv`).
- `LedgerProofs`: what holds of the tables and of the answers under every fault.
  - `Recorded`, `RecordedOrReversed`, `StoredWasRecorded`, from the invariant `SafeInv`
    on top of `IInv`: a row belongs to a request past its calls, whose call is resolved
    and whose rollback was never issued (`RowInv`); legs come in pairs (`LegInv`);
    idempotency rows and notifications belong to requests that are done and recorded
    (`IdemInv`, `OutboxInv`). A lemma per group of steps: those that leave the tables
    alone preserve `SafeInv` as soon as settled calls stay settled (`SafeFrame`);
    inserts, the daily total, the idempotency row and `DbFails` are done one by one.
  - `OverIsOver`, an action property: every step touches at most one request that is
    not over, and an orphaned `getAccount` of one that is starts nothing.
  - `AnswersTrue`, by `AnswerInv`, which says of each answer which calls, legs and
    notification it stands on; it holds on because `OverIsOver` keeps all of them. A
    replay needs `IdemInv`: the row it is read from is of a recorded transfer.
  - `CachedAsAnswered`, `BalanceAfterReal` and `DebitsWereAllowed`, by `HistInv`: every
    record on its way to the cache or the ledger is one of the account's `history` (the
    snapshot of a GET, the answer of a PATCH) or a row of the cache (a settled
    `getAccount`), and every such row has one source for all its fields but the type
    (`IsRow`). The property about the cache alone is not inductive, since the row is
    written from an answer that has been on its way. `PassedIsAllowed` carries a check
    that a row has passed back to its source, default by default.
- `ReconciliationProofs`: sums, and what is promised in certain circumstances only. The
  circumstances are named predicates on the constants, and a theorem lists the ones it
  needs; those of the corresponding run satisfy them. The runs of section 3 that expect
  a violation show what happens without them.

  | Theorem | Circumstances | Invariant it adds |
  |---|---|---|
  | `TotalsMatch` | none | `TotalsInv`: the total of an account is short of its outgoing legs by the transfer whose legs are in and that is at its next statement, and by no other while nothing failed |
  | `TransfersAreAtomic` | `AnswersArrive`: no network fault, no crash; SQLite may fail | `OnceInv`: a call is executed if and only if it resolved, and once; `AtomicInv`: the four ways in which the calls of a transfer can end |
  | `BooksReconcile` | `NoFaults`: the same, and SQLite works | `BalancesInv`: each balance is the opening one plus what was executed of all requests; `BooksInv`: ledger less alerts is what was executed of the requests that are over |
  | `OvershootIsBounded` | a finite `MaxInFlight`; any fault, any midnight | `CapInv`: of the transfers that have passed the check and are not counted, the last one checked fitted below the cap with the total of its moment; each other takes at most one cap |
  | `CapHeld` | one request in flight; any fault, any midnight | `CapInv` |
  | `KeysAreUsedOnce` | `KeysKept`: SQLite works, no crash, the clock stops within a day; and no two transfers with one key in flight together (`[]NoKeyOverlap`, a hypothesis on the behaviour); any network fault, any number of requests | `KeyInv`: the key of a recorded transfer is stored, or about to be, and is not that of another transfer in flight |
  | `OverdraftIsBounded` | one request in flight, no faults; any CSV files, any changes at the Account Service | `SerialInv`: no cached row, snapshot or answer is above what the account can give before it is at its `Floor`, but for the debit being answered, so a debit on its way is covered |
  | `CountersTrue` | SQLite works; while `crashes = 0`, any network fault | `CountersInv`: each counter is the number of rows or answers it stands for, `transfer_success` one statement behind the legs |

  `KeysAreUsedOnce` is the other side of the run `duplicate`: overlap, expiry, a crash and
  an SQLite error are all the ways in which a key is recorded twice.

  `OverdraftIsBounded` names what the code relies on, and nothing of it can be given up:
  `orphan_read` refutes it for an account without a cached row; a debit whose answer is
  lost, in the network or in a crash, leaves the cache above the account, and so does one
  that SQLite does not write; with two requests in flight both debits may be checked
  before either. The property itself excepts accounts that were ever of another type, and
  answers that `account_cache` refuses or that lack the balance: `_upsertCache` then drops
  the new balance with the row, or stores 0.

  A sum over a finite set is `SumFunctionOnSet`, a fold that takes the elements in an
  unknown order. The theorems on induction over sets cannot be instantiated, but
  well-founded induction on the subsets of one finite set can be stated as: a non-empty
  family of them has a minimal member. From it follow the equations used (the sum
  of the empty set, with one element more, of equal functions, changed at one element),
  and all later sections use those only.

- `MoneySagaProofs`: `OrderedMoney`, by the invariant that the stage of a request
  tells what it has asked for (`StageInv`). Each step sets one saga, so the proof is
  that every record a step writes is `Fine`.
- `SagaProofs`: `ServiceImplementsSaga`, every behaviour of `TransactionService` under
  every fault is one of `MoneySaga`. It stands on the inductive invariant `IInv`: a
  handler that is awaiting a call has exactly the calls of its place issued, and a call
  that resolved was executed, which is what the saga's guards ask for. One lemma per
  group of actions: `Shape` and `SagaFrame` say of what state a saga is a function,
  `PatchStep` what one settled call does to it; reads, clocks, account changes and the
  statements after the insert are stutters; `Crash` is `Die`. From the refinement and
  `OrderedMoney`, `ServiceMovesMoneyInOrder`: the abstract theorem is carried over to
  the handlers by instantiating `MoneySagaProofs` under the mapping.
- `LifecycleProofs`: `NoticesStand`, `NoticesCounted` and `GracefulWaits`. Every step of
  the process is a step of the saga or none (`SagaMoves`), so the saga's invariant is
  carried along; to it are added that the connection tells how far the handler is
  (`Placed`) and that a POST exists only of an entered request (`Told`).
- `SynchronousProofs`, one section per module, each for the specification of that module:
  - `Seed`: `MarkedWasLoaded`, by the invariant that a process
    past one of the four commits finds the rows of that commit in place, whichever build
    or process inserted them; rows never leave, so other processes preserve it.
  - `RequestBody`: `OnlyFreeTextMatters`, for whatever clients send in each field. The
    invariant `BodyInv` keeps that a body whose money has moved was accepted;
    `AcceptedStores` goes through the columns of its row.
  - `HashLoop`: `OneCharacterAlwaysTells`, `HashIsAlwaysPolynomial` and
    `ShortChangesTell`, for every width of a word and every length. The second shows that
    the two halves of a word in the model are the arithmetic of `Math.imul` and `| 0`.
    The first needs `CodesFit` (a character code fits a word, as 16 bits fit 32), and the invariant `TellInv`: the words are equal while the texts
    are and differ when one character does. It is kept because a step of the loop is
    injective in the word (`SameAfterSame`: 31 is odd, so a power of two that divides
    `31 * d` divides `d`) and in the character (`DifferAfterDifferent`). The second is by
    `PolynomialInv`, with `MixValue`: a step is `31 * h + code` less whole words, carry
    between the halves included. That `HashText` and `Polynomial` of a longer text are one
    step more (`HashAppend`, `PolynomialAppend`) is proved from the definition of
    `FoldLeft`: the function it chooses exists for texts of every length, since a shortest
    one without would have a shorter one. The third bounds how far apart the polynomials of
    the differing stretch are (`Reach`): below the range of a word they cannot meet.
  - `Listing`: `WalkMissesNothing`, `WalksAreOrderly` and `PagesAreCapped`. None of the
    properties is inductive. `WalkInv` says what an offset means: of the rows that were
    there when the walk began, those whose place is up to the offset have been served
    (`FirstPlacesServed`), and each after all that precede it (`ServedInTurn`). An insert
    can only move a row to a later place, so `Record` keeps it, and `ReadPage` serves the
    next places, each of which has one row (`PlacesTaken`). That rows repeat at most once
    per insert (`FewRepeats`) is a count: the rows at the places up to the offset are the
    served ones and new ones. None of the three has a circumstance: every limit and every
    form of a bound is in their range, with the exceptions that the properties name.

Only model-checked:
- liveness (`EveryRequestAnswered`, `CallEnds`, `ShutdownEnds`, `NoticeSettles`,
  `BootEnds`): fairness and ENABLED are beyond the prover;
- the properties of the runs that expect a violation: they do not hold.

Every invariant and action property of a passing run, the refinements included, is a
theorem. The theorems on induction over data cannot be instantiated; where a proof needs
one, it takes the least counterexample (`LeastNumber`) of a set of numbers written out.

## 5. Not modelled, and the plan

Not modelled:
- the rate limiter (a request refused by it is one that never comes), the other
  middleware, logger, probes, API documentation and deployment files: no business state;
- floating-point rounding of REAL amounts and totals (amounts are integers);
- `MAX_RETRY_ATTEMPTS` of 0 or not a number, with which the loop of `httpCall` never
  runs and `undefined` is thrown: outside `MaxRetriesAssumption`;
- the parsing of CSV lines, and the `created_at` of seeded rows;
- `getTransaction`, which reads one row by its key, and `notifyAccountStatus`, which has
  no caller;
- loss of the last commits on power failure (`synchronous = NORMAL`).

Next: amounts in floating point, with which a total may pass the cap by a rounding and
the sums of `ReconciliationProofs` hold up to an error; and a run of its own for each
documented case that section 3 only excepts (KYC, bounds with a T, a bare upper date).
