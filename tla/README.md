# TLA+ models of the darkmesh AO processes and their worker

This directory holds TLA+ modules for the parts of the repository whose
correctness depends on order: of messages, of awaits, of restarts, of expiring
entries. TLC checks them on small instances; TLAPS proves the main results for
every instance. `PROJECT.json` lists components, runs, hazards, theorems, the
mutations each property was tried against, and the source lines behind every
definition. All paths below are relative to `src/`.

Contents: 1 the system, 2 the modules, 3 the runs and their bounds, 4 fairness,
5 the proofs, 6 findings, 7 what is not modelled and what was seen on the way,
8 the plan.

## 1. The system

Messages reach four AO processes written in Lua; each keeps its state in one
table, handles one message at a time, and saves the whole table after every
handler (`ao/shared/persist.lua`). A Cloudflare worker in front of them keeps a
mailbox, signs and sends commands, and answers visitors. Nothing but messages
and HTTP requests connects the parts, with three exceptions: the registry writes
the file of resolver flags that the gate of every process reads; the modules in
`ao/shared` keep their stores in the memory of the process that loads them; and
`ao/ingest/apply.lua` writes the tables of other processes directly.

| Component | State | Operations | What is hard | What makes it correct |
|---|---|---|---|---|
| Request gate (`ao/shared/auth.lua`, `idempotency.lua`, `route` of each process) | nonces, Request-Id registry, rate buckets, in memory and in sqlite | every message passes it: JWT, nonce, timestamp, signature, resolver flag, device token, rate limit, then role and Request-Id | expiring and evicted entries, clients' clocks, restarts, copies of messages, handlers that throw | a signed message runs again only for named reasons; stores stay bounded; a nonce belongs to one Request-Id |
| Registry: integrity (`ao/registry/process.lua` 1820-2681) | releases, roots, active versions, policy, authority, audit range | publish, revoke, query, pause, set authority, append audit range | two indexes and two ways of naming what is active | indexes inverse to each other, only the active unrevoked release is trusted, fails closed, audit ranges disjoint |
| Registry: directory (same file 435-1818, 2691-2815) | sites, domains, runtimes, gateways, roles, active versions, trusted resolvers, flags | register, bind, set, grant, resolve, flag | saving and crashing, state split over two files, partial updates | answers survive crashes, file and registry agree on flags, visitors go to gateways that are online |
| Site (`ao/site/process.lua`) | drafts, pages, active version, schedules, publish log, locks, read cache | put, review, publish, archive, schedule, run the scheduler, read | cache against store, scheduler passes, retries | reads are never too stale, no entry is lost or tried for ever |
| Catalog: stock (`ao/catalog/process.lua`) | inventory, policies, backorders, purchase orders, terms, reservations, returns | set, reserve, approve, check out, ship, return | handlers that throw half way, repeated messages | no piece is lost or promised twice, one checkout per approval, credit kept |
| Catalog: payments (same file) | payments, checkouts, orders | intent, challenge, capture, refund, webhook, clean-up | events late, twice, out of order | a checkout is paid only when captured, an order too or on the word of the write process, a refund stays |
| Catalog: products, prices, tax, shipping, recommendations (same file) | products, rules, carts, telemetry | upsert, search, quote | long computations over little state | results within limits |
| Access (`ao/access/process.lua`) | entitlements, sessions, protected assets | grant, revoke, check | expiry | access only while granted |
| Ingest (`ao/ingest/apply.lua`) | other processes' tables | apply an event | events without order or deduplication | same events, same tables |
| Worker mailbox (`worker/src/index.ts`) | KV messages and replay markers, claims of an isolate, the ReplayLock Durable Object | POST and GET /inbox, /forget, janitor | every await is an interleaving; KV has no compare-and-set | one POST of a nonce wins while its lock lasts, messages are read once, /forget is complete |
| Worker notify (same file, 381-434, 701-732, 3082-3299) | limiters, dedupe markers, breaker, all in KV | /notify | read-modify-write across awaits, retries, an outage | limits and dedupe hold but for races, the breaker counts requests |
| Worker access (215-292, 599-692, 1312-1345, 2677-2706) | none but the environment | every request | fallbacks between secrets, several tests for production | no token opens two scopes, production is never unguarded |
| Worker signing (971-1310, 2742-2809) | replay lock, limiter | /sign, /forget of "sign" | timestamp checked before an await, a lock that can be cleared and is cut | one command is signed once while its lock lasts |
| Worker writes (2380-2650, 2903-2943) | none; retries a push | /api/checkout/* | lost, late and repeated pushes | a command runs once and its caller is told the truth |
| Worker reads (885-969, 1683-1813, 1983-2373, 2836-2901) | none | /api/public/* | a site's process is looked up and asked later; a read that becomes a message | a page comes from the process named; reads do not fill the log |
| Public API server and scheduler clients (`scripts/http/public_api_server.mjs`, five programs of `scripts/cli`) | none of their own | post, take the slot, read the result, retry, give up | others write to the same log, replies without a slot | each reads the result of its own message, and ends |
| Command line of the registry, smoke, spawn and publish scripts (`scripts/`) | none of their own | send one message, print | | |

## 2. The modules

Every module models whole handlers: guards are the code's conditions and early
returns, primed variables its assignments, in the handler's order where a
refusal or an exception can come between two of them. Messages that are
malformed and change nothing are one action (`RejectMalformed`) or a stutter.
Operators whose comment begins with "Wrong:" are the mutations; no
specification uses them. History variables are marked `history` where they are
declared, and no guard reads one, except to bound a model.

* **IntegrityRegistry**: one action per handler of the integrity part. The
  reply is a variable, because what an answer may say is the property.
  `SetIntegrityPolicyPause` keeps the order of its assignments: the hash is
  written before the age is validated, so a refused message changes the policy.
  `committed` remembers every accepted sequence number.
* **RequestGate**: nonces, timestamps and the Request-Id registry in the order
  in which `enforce` and `route` use them. Clients sign messages by their own
  clocks, copies arrive at any time, a message with a broken signature still
  takes its nonce, a restart empties what is in memory. `Runs` is the tail of
  `route`: the Request-Id is recorded after the handler has returned, so one that
  throws leaves no entry; a message without a Request-Id, or with the empty
  string for one, passes the registry by. The remaining checks pass or refuse
  (`passes`). `RequireNonce` and `Executions` are sets of results: which of
  several entries with one expiry date is evicted depends on the order of Lua's
  `pairs`. `sent`, `done`, `claims` and `lost` tell what was signed, when each
  message ran last and how, what was taken and what was dropped too early.
* **RegistryDirectory**: the handler runs (`phase` becomes "handled"),
  `persist.save` empties the file (`Truncate`), writes it (`Write`), and the answer
  leaves (`Answer`); or the save gives up without a word (`SaveFails`) and the
  answer leaves all the same. `Crash` may fall between any two of these steps and
  loads what is on disk. `Scrubbed*` and `Loaded*` are the conversions on the way:
  what goes under one of the `pii_keys` does not come back, at any depth: the
  `region` of a gateway, and any site, host, user or resolver that happens to
  bear such a name (`PiiKeys`); runtime pointers are checked again. `FlagResolver`
  appends to the file of flags before the state is saved, and the gate reads that
  file. `standing` is the state on record: what the last answer confirmed, or what
  a later message left that was saved whole before its answer was lost.
  Assumed: `AO_STATE_DIR` is set; `AO_FLAGS_PATH` and `AUTH_RESOLVER_FLAGS_FILE`
  name one file, as in `ops/env.prod.example`, which can be opened; an append
  is one write.
* **SitePublishing**: drafts, review, publication, archival, the schedule and
  its pass (a fold over the entries, with the `break`), and the page cache.
  `live` records when a content was last readable, `fate` what became of each
  entry, `behind` whether pages changed since the last purge.
* **CatalogStock**: two things make this more than bookkeeping. A handler that
  throws keeps what it has written in memory, without a record of its
  Request-Id and without a save; and it does throw, because `push_low_stock`
  (in `SetInventory`) and `deliver_stock_alert` (in `push_low_stock`) are
  declared ahead and defined later as other locals. `place` follows the loop of
  reserve_inventory: the warehouses in the order in which `pairs` visits them
  (any order), what each gives, what remains to be found after each, and the back
  order noted for what is left after the last; `Smooth` plans meet no low stock
  alert. The back order is noted twice, by reserve_inventory and by its caller,
  with one key: the notes are a set. `supply` counts the pieces that should exist,
  `leaked` the skus of a checkout that threw with pieces in hand, `cleared` the
  notes that ListBackorders has emptied. A cart has one line per sku.
* **CatalogPayments**: intents, 3DS challenges, capture, refund, webhook,
  clean-up and order events over payments, checkouts and orders that name each
  other. ApplyOrderEvent gives an order whatever status the event has
  (`EventStatuses`), "paid" among them; `reported` remembers the orders whose
  status is the write process's word. All providers are "internal": no handler
  lets `Provider` through its list of allowed fields. `captured`, `challenged`,
  `vouched` and `reported` are histories.
* **WorkerInbox**: each KV operation, call of the Durable Object and deletion
  handed to `waitUntil` is an action; isolates have their own `replayClaims`.
  A call may fail before or after it took effect. KV operations are atomic,
  which is more than Workers KV promises: what goes wrong here goes wrong there.
  `durable` says whether the Durable Object is bound; both paths are modelled.
  The lock lives `LockTtl`: what the request asks for, REPLAY_TTL, cut to LOCK_MAX
  (86 400 s, index.ts:3322-3325). `forgotten` remembers the nonces a /forget has
  handed a deletion for.
* **WorkerNotify**: one action per KV operation of POST /notify, between which
  other requests run: the rate limit (`Rate*`), the dedupe marker (`DedupeGet`,
  `MarkPut`), the spray guard with its two entries (`Spray*`, `KnownPut`), the
  subject limit, the breaker (`BreakerGet`, `ReopenPut`), the attempts
  (`Send`), the note to the breaker (`NoteGet`, `NotePut`). `setting` holds the
  environment; 0 switches a limit off, as in the code. `raced` records the
  limits two requests had in hand at a time, `marks` what each saw of the marker.
* **WorkerAccess**: operators for each test the middleware and the handlers put
  to the environment, in their order, and two actions, a request to a scope and
  one to a site; `opened`, `unsigned` and `volatile` remember what got through
  and what was served from the in-memory store. The environment of the process
  (`process.env`), which kvFor looks at and ensureProdSecrets does not, is a field
  of its own.
* **WorkerSigning**: POST /sign from the limiter to the signature. Its replay
  check is that of WorkerInbox for the subject "sign", here the lock it amounts
  to when the Durable Object is bound, cut to SIGN_LOCK_MAX. The lock is cleared
  again when KV refuses the marker, and by POST /forget with the subject "sign"
  (`unlocked` remembers when). A body is the set of sites and signature
  references it names, its action, role, nonce and timestamp.
* **CommandOnce**: what the checkout routes promise. **WorkerWrites**: the
  command a request becomes and the pushes that carry it. The write process is
  not part of the worker: `Carry` is the network, which loses pushes or delivers
  them after the worker gave up, `Evaluate` the process, which knows request ids
  it has seen (that much is `idempotency.lua`; RequestGate has its limits).
  `Promise` is the refinement mapping: a command is queued once a push of it has
  arrived, and a caller is told what a 200, the error of an envelope or a 202 says.
* **WorkerReads**: the three read routes, with `executeAoRead` call by call: the
  lookup in the registry, the dry run, the message, the same message signed, the
  result, the compute URL. `Named` is resolveSiteRuntimeProcessId. The registry
  may change at any time (`Repoint`, `Rebind`).
* **SchedulerClients**: six programs that write past the worker, by kind: "api"
  (the public API server, whose reads become messages when a dry run fails),
  "deep", "matrix", "write" and "write_auto" (send_write_command by
  AO_INGRESS_MODE) and "diagnose". `log` is the scheduler's log of one process;
  `After*` is what each does with the reply to its post.
* **MC\***: symmetry sets and constants for TLC. `MCWorker` and `MCAoClients`
  put modules side by side that share no state: a behaviour is one of one of
  them (`part`), with the others at rest in their initial state, so the states
  of the parts add up and do not multiply. **\*Proofs**: theorems.

The modules share no variables. The gate stands in front of a process whose
handlers the other modules describe, and what it lets through they take as a
message in any order; the catalog's two modules meet in checkouts, of which one
keeps the goods and the other the payment. `RegistryDirectory` has its own,
exact, copy of the one check of the gate that depends on the registry
(`GatePasses`). What a signed command of WorkerSigning meets at a process is
RequestGate; what GetSiteRuntime answers a lookup of WorkerReads is
RegistryDirectory.

## 3. The runs and their bounds

Runs that must pass, with distinct states. Deadlock is checked where some
message can always arrive or some clock can tick; in `worker` and `ao_clients`
it is not, because requests are answered and programs end.

| Run | Question | States |
|---|---|---|
| `integrity` | do publishing, activating, revoking, querying, pausing and audit ranges stay in step, whatever the order? | 41 377 |
| `gate_replay` | do the stores stay bounded, and does a nonce keep its Request-Id, through evictions and restarts? (with the sqlite copy of the nonces) | 615 738 |
| `gate_reruns` | for what reasons can a signed message run again? | 1 412 034 |
| `directory` | what do answers, routing and flags rest on when a save fails, or a crash falls between any two steps of handler, save and answer? | 1 830 060 |
| `site_publishing` | how stale may a read be, which scheduled entries are lost, is each settled? | 160 524 |
| `catalog_stock` | where are the pieces, what was noted of those not found, and who is charged, when handlers throw and messages repeat? | 1 202 832 |
| `catalog_payments` | what may a payment, its checkout and its order say about each other? | 212 757 |
| `worker` | do mailbox, notifications, tokens and signing keep their promises, whatever awaits interleave and whatever fails? | 963 667 |
| `ao_clients` | do pushes, reads and the programs past the worker get what they asked for, from whom they asked, and once? | 360 923 |

Runs that end in a counterexample: `directory_unflag`, `site_waiting`,
`no_slot` (section 6).

Bounds, and why they are enough for the question:

* `integrity`: two components, two versions and two roots make every conflict
  (a root of another version, of another component) and every fallback from one
  component to the other possible. One digest pair per release: a second one
  changes only the outcome VERSION_CONFLICT, which a different root gives too.
  Sequence numbers 0 to 2 give invalid, touching, overlapping and disjoint ranges.
* `gate_replay`: lifetimes of one second and a clock of two give entries that
  are fresh, at their limit and expired; stores of one entry are full at once, so
  two messages are enough for every eviction.
* `gate_reruns`: the same lifetimes and stores, without the sqlite copy. Clocks are
  right or one second ahead; two messages of one nonce, with a
  Request-Id, the empty one or none, whose handler returns or throws. Each of the reasons is
  needed: taken out of `Excused`, it gives a counterexample in this run.
* `directory`: two versions and two runtime fields, one of them an anchor, for
  compare-and-set, merging and refused pointers; one site and one host, for
  nothing relates two sites except that a domain moves. One gateway with one
  score: ties between gateways are left to the proof. The one user bears the name
  of a pii key, so that the scrub reaches into the roles of a site; sites, hosts
  and resolvers of such names are left to the proof too. One save in a row
  may fail unnoticed (`MaxUnsaved`): a second changes nothing on disk.
* `site_publishing`: one page, two contents, two entries that compete for it,
  a clock of two seconds around CACHE_STALE_TTL = 1, a retry limit and a log
  limit of one. With one page an entry can still be dropped behind a failed one.
  `MaxEntries` bounds the calls of SchedulePublish.
* `catalog_stock`: two warehouses, so that pieces come from the wrong shelf; two
  checkouts of one purchase order approved up to twice; carts of two
  pieces; at most two on a shelf. With one sku no refused cart has an item that was
  served before it, and two are too many states: the rollback over several items
  is covered by the proof only. `ReserveRefusedKeeps`, the rollback left out, is
  caught all the same, because the refused item itself may have been taken in part.
* `catalog_payments`: two payments of one checkout and one order, for a second
  intent, a capture of the other payment and a webhook for either. Four statuses
  of the webhook: no guard tests for the other two, "failed" and "disputed". Two
  statuses of order events: "paid", and one for all that is not.
* `worker`, mailbox: two POSTs, two GETs and a /forget whose list is cut at one
  key, over two nonces; three requests at most in one behaviour (`MaxRequests`), so
  two POSTs meet a GET or the /forget, or a POST two GETs or one and the /forget.
  Messages expire within the second; REPLAY_TTL is two and LOCK_MAX one, so that the
  cut lock ends before the marker. Two isolates, each of which may be evicted: two
  POSTs run in one or in both, with and without the Durable Object.
* `worker`, notify: two requests to two destinations, with limits of one or two,
  windows of two seconds and a clock of six. One setting for each check, the
  others switched off, and two for the breaker with one and two attempts and
  thresholds of one and two: the checks follow each other and share nothing.
* `worker`, access: all combinations of deployment mode, enforced secrets,
  in-memory store (asked for by the worker's environment or by that of the
  process) and secrets; all combinations of strictness, shared or missing
  tokens and fallbacks; all combinations of site tokens. Four tokens, for four scopes.
* `worker`, signing: two requests, one nonce, timestamps one second apart, a
  window of one, locks cut from four to three and a clock of four: long enough for
  a second signature after the lock has ended or was cleared.
  Bodies that contradict themselves, policies missing, broken and with two families.
* `ao_clients`, writes: two requests with one id or with none, two attempts each,
  so that four pushes arrive in any order. Reads: one request (requests share
  only the registry, which changes once in between), two sites, four contents of
  the registry's record. Clients: two programs of any two kinds on one log of
  three slots, two attempts to send and two to read.
* `no_slot`: the same programs, a log of four slots.

Symmetry is used for sets of model values that no constant distinguishes (in
`site_publishing` and `ao_clients`, which check liveness, not at all).

The properties, by the hazard they answer, are in `PROJECT.json` under
`hazards`; each is stated in words above its definition. Each was tried against
a mutation of the code that must break it (`mutants`).

## 4. Fairness

* `SitePublishing`, `EntriesSettle`, under `FairSpec == Spec /\ WF_vars(Tick) /\
  WF_vars(RunPublishScheduler)`. Time goes on without anyone's help.
  RunPublishScheduler is a message like any other, and the repository leaves it
  to its operator to send it regularly; the property says what follows when that is
  done, which is what the handler is for. No fairness is assumed of authors,
  approvers or readers. The clock stops at `MaxTime`, after every `Publish-At`
  in `Times`, so an entry becomes due before it stops.
* `WorkerWrites`, `WritesAnswered`: weak fairness of the worker's own steps on
  each request. `ao.request`, `ao.result` and the compute URL are raced against
  timers (`withTimeout`, 1718), so each step ends by itself; the network and the
  process get no fairness, a push may stay on its way for ever. The body of a
  reply is read without a timer (2476, 2549): it is taken to follow its head.
* `SchedulerClients`, `ClientsFinish`: weak fairness of the steps that end by a
  timer. The posts of the API server and of send_write_command have none, so the
  property leaves out a program that waits there; one that waits for a report
  that is never written has not begun. Bodies of replies as above.

`MCSpec` of `MCAoClients` has these same conditions; a part at rest has none of
the steps enabled. All other properties are safety properties of specifications
without fairness.

## 5. The proofs

Eight modules, `*Proofs`, hold the theorems; TLAPS checks them for every value of
the constants that meets the named assumptions. The assumptions say that numbers
are numbers, that nil is no member of a value set, that a default lies in its
set, and that skus and warehouses are finitely many; nothing is assumed about how
the code behaves. The bounds (`MaxTime`, `MaxSent`, ...) are arbitrary naturals,
so they do not restrict a theorem. Every invariance proof has the shape
`Init => IInv`, `IInv /\ [Next]_vars => IInv'`, `IInv => Inv`, with one lemma per
handler.

Every safety property of the passing runs is a theorem: all invariants, all
action properties, and the refinement `KeepsPromise`.

| Module | Theorems | Inductive invariant |
|---|---|---|
| `IntegrityRegistryProofs` | types, indexes, active pointers, history of releases, audit sequence, fail closed, trusted answers | types, the two indexes, the active pointers and `CommittedBelow`: everything committed lies at or below the last range, which is why one comparison with the last range is enough |
| `RequestGateProofs` | types; `RunsTwiceOnlyIf`, `StoresBounded`, `NonceBinding` | `Remembered`: after a run that returned the registry holds the entry, or its time is over, or it was lost since; with `IdemUnique` (one entry per key, or the wrong one might be found) and `InPast`. For the sizes, `SizeInv`: the stores are finite, and each pruning meets at most one entry too many. For the nonces, `Bound`: until its time is over a claimed nonce is held, in memory or in the database, under the Request-Id of the claim and no other. `RunsTwiceOnlyIf` needs both: a message without a Request-Id has only its nonce |
| `RegistryDirectoryProofs` | types, references, answers survive, flags enforced and visible, routing | the properties themselves need, in addition, what holds of the snapshot (`SnapGood` in `DiskMatches`, because a crash makes it the state), how disk, state on record and a torn file can differ in each phase (`DiskMatches`) and that the flags of the snapshot are in the file, and those of the file in the snapshot but for the ones set since (`FlagsOnDisk`, `BehindKnown`). All handlers are summed up in `HandlerStep`, so that the invariant is proved once for all handlers, and once for each step of the save |
| `SitePublishingProofs` | types, `CacheCoherent`, `BoundedStaleness`, `LostOnlyBehindFailed` | for the cache, `Recent`: the content of an entry still served was readable when it was cached; here a pass of the scheduler may leave any pages behind. For the schedule, `Filed`: scheduled entries have ids of their own and are not settled. A pass is a fold; `PassIsChain` opens it into a chain of runs, one entry longer each, and `Filing` follows the chain: the entries are accounted for up to the one the pass has reached or the failed one that stopped it |
| `CatalogStockProofs` | stock accounted, reserves cover, charged as approved | `StockInv`: shelves and checkouts add up to the supply (`Balanced`), a reservation is shipped once released and not before (`ShippedOnce`), what a checkout holds and is owed is what was ordered, and is noted (`Covered`), an order that may be checked out has an approval left (`Approved`), the balance is the sum of what was charged (`Owed`). What the loop over the warehouses takes and leaves is an induction along the order of the visit, for any such order |
| `CatalogPaymentsProofs` | types, paid means captured, captures settle, challenged first, intents belong, refunds stay | the references between payments and checkouts agree both ways, and name things that exist, or a new checkout could inherit a captured payment |
| `WorkerProofs`, mailbox | types; `OneWinner`, `OneWinnerHere`, `ReadOnce`, `ItemsAccounted`, `ForgetComplete` | `LockInv`, while the Durable Object is bound: for LockTtl seconds after a grant its lock is held, or has been cleared since (`LockCovers`); no request takes the other path, no history lies in the future. `HereInv`, while it is not: a POST in the check has the claim of its isolate and is alone with it (`Claiming`, `Alone`, which is where the patience of a request enters), the marker covers REPLAY_TTL after every pass (`MarkerCovers`), and who found no marker comes late enough (`LateEnough`). `MailInv`, always: what is in KV or was found by a GET was stored by a POST of that nonce, what a GET has returned is in KV no more (`DoneGone`), what /forget listed is complete or the list was cut (`ListedAll`), and has a deletion to come unless one failed (`SweptTasked`) |
| `WorkerProofs`, signing | `SignedAgainSlow` | `Covered`: the lock of a nonce lasts SignLockTtl from every check it passed, or was cleared since; `Unlocking` puts the clearings in order with the checks; `Checked`: what waits for the check or passed it was in the timestamp window when that was looked at. Two passes are SignLockTtl apart, the timestamp allows 2 * TS_WINDOW, the rest is delay |
| `WorkerProofs`, access | `TokenIsolation`, `ProductionGuarded` | `AccessInv`: the environment passed the test of secrets, and what was opened was opened by the token it asks for. The fallbacks of normalizeTestEnv touch neither tokens nor what says which deployment this is (`NormalizedSame`) |
| `WorkerProofs`, notify | `DedupeHolds`, `BreakerNeedsFailures`, `ClosedOnlyQuietly`, `LimitsHold` | `MarkInv`: a marker lasts DEDUPE_TTL from every time it was set; `CountInv`: breaker entry, and the counts requests have in hand, are at most the failures; `EntryInv`: the entry outlives what it says by COOLDOWN. `LimitInv`: the entry of a limit, or the count the one request between read and write has in hand, covers the passes of its window; less than a limit's worth lies before it (`Fixed`, twice the limit less one), or the window begins anew with each pass (`Sliding`, the limit) |
| `AoClientsProofs`, writes | `KeepsPromise`: WorkerWrites implements CommandOnce | `Identified` and `InTurn`: a push belongs to a request that has its id, and pushes come one after the other; `Arrived`: who asks for a result has a push that arrived; and what is decided for an id is what ran for it, once. Each step is shown to be a `Queue`, a `Run`, a `Tell` or a stutter of the promise |
| `AoClientsProofs`, reads | `ReadFromNamed`, `ReadsSpareTheLog` | `Good`, of each request alone: the process it asks was named by what it saw (`Origin`), and the messages of a call are at most the signers tried so far (`Sparing`) |
| `AoClientsProofs`, clients | `OwnResult` | `Honest`: a program asks about its own message, and what a slot taken from a reply holds is that message (`SlotFits`), because a log only grows |

`RunsTwiceOnlyIf` has premises, `IDEM_TTL >= TS_DRIFT` and `NONCE_TTL >= TS_DRIFT`;
the three default to 300 seconds. `OneWinner` is about a worker with the Durable
Object, `OneWinnerHere` about one without it: its premise `PATIENCE < CLAIM_TTL`
says that a request ends before its claim does, and it compares POSTs of one
isolate only, for two isolates may both win (section 7). `LimitsHold` says nothing of a limit once
two requests have had its entry in hand at a time (`raced`).

Some results rest on an induction over data, for which the library's theorems
cannot be used here, because they take the property as an operator. What can be
used is that the strict subsets of a finite set are well founded
(`FS_StrictSubsetOrderingWellFounded`) and that a well-founded relation has
minimal elements in every set (`WFMin`); `SubsetInduction` gives the property as the
set of the subsets that have it. In `CatalogStockProofs` this yields what a sum
is and how it changes with one member (`TotalMore`, `TotalLess`, `TotalGrows`),
in `SitePublishingProofs` that the fold of a pass exists and can be followed
entry by entry (`RunsExist`, `UptoInduction`).

The type invariants are theorems (`TypeCorrect`) where a module has a `TypeOK`,
and otherwise the part of the inductive invariant called `Shapes`, `NoteShapes`,
`SignShapes`, `Good` or `ClientRecord`; they are not listed in the runs.

Only model-checked: `EntriesSettle`, `WritesAnswered` and `ClientsFinish`.
Liveness under fairness, and ENABLED, are beyond the prover. Of `EntriesSettle`
the safe part is proved: an entry that waits has tries left (`TypeCorrect`),
and none is lost but behind a failed one.

## 6. Findings

1. `directory_unflag` (`ao/shared/auth.lua:734`): with `AO_FLAGS_PATH` set, the
   message that takes a flag off a resolver names the resolver and is refused
   because of the flag. scripts/verify/contracts.lua:737-741 expects OK. No
   message can lift such a flag.
2. `site_waiting` (`ao/site/process.lua:1428`): an entry that failed in an
   earlier pass ends the next pass, and all entries behind it are dropped; line
   1471 says of an entry without a draft "no draft yet; keep waiting".
3. `no_slot` (`scripts/cli/send_write_command.js:107`): `Number(header ||
   body.slot || '')` is 0, not NaN, for a reply without a slot, so the check at
   111 that throws `scheduler_send_no_slot` never does; the program goes on to
   read the result of slot 0, the message that started the process, and prints
   it as that of its own. The same expression stands in public_api_server.mjs
   (393; its branch for such replies, 444, is unreachable),
   deep_test_scheduler_direct.js (605), business_matrix_scheduler_direct.js
   (308) and diagnose_cu_readback.js (331). `OwnResult` shows that with a slot
   in the reply no program reads another's result.

## 7. Not modelled, and what was seen on the way

Left out because they keep no state or only format: validation and schemas, codecs, metrics,
the audit log, tags and headers of requests, the wallets and signatures of the
worker (key conversion and one call each of Web Crypto), CLI flags and output,
`integrity_registry_cli.js` (it turns flags into one message for the handlers
IntegrityRegistry has), deployment scripts (run by hand, one request after the
other). The fixtures of the deep test and the matrix are data. Components with
status `not_modelled` that do keep state are planned (section 8).

Seen while modelling; the models behave this way, but nothing in the repository
promises otherwise, so no property is stated. (The in-memory store in production is
the exception: two documents promise otherwise. It is a single comparison of the
code, plain to see there, and has no run of its own.)

* Catalog: the stock of a checkout that is never paid is not returned.
  SyncReturn and RefundReturn restock on every message (3183, 6658). A count that
  would go below zero is cut at zero (3154-3162). RefundPayment accepts
  any amount (5917). ApplyOrderEvent takes any status (3042), "paid" without a
  payment among them. ListBackorders with Clear empties the notes that its filter
  or its page kept back as well. HandlePaymentProviderWebhook refuses every event: it looks a
  normalized type up among the provider's own names (6146). ImportInventory takes quantities unchecked (6428).
* Catalog: these locals are nil where they are called, because they are declared
  ahead and then defined as other locals: `parse_set` (1338), `push_low_stock`
  (4649), `deliver_stock_alert` (4776, 4827), `record_shipment_event` (2404, 3337,
  3378), `notify_customer` (2413), `forget_subject` (4901), `mark_webhook_seen`
  (2307), `parse_header` (689, 696), `add_price_window` (3917),
  `resize_and_store` (3544), `dimensional_weight` (4311), `pick_tax_rule` (1344).
  QuoteOrder, CalculateTax and StartCheckout throw for this reason.
* Registry: a gateway's region is lost by a restart and cannot be given again,
  because RegisterGateway of a known gateway changes nothing; RegisterSite
  of a known site answers OK and ignores the runtime it is given;
  SetActiveVersion ignores Expected-Version when no version is active; a
  crash between flag file and snapshot leaves a flag in force that the registry
  does not know, and the retry is refused by it.
* Registry, behind `persist`: a site, host, user or resolver named like one of
  the `pii_keys` ("email", "token", ...) is forgotten by a restart, because the
  scrub goes by keys at any depth. A save that does not encode or open its file
  fails without a word (persist.lua 91-97), and the answer leaves all the same. A
  crash between the save and the answer brings back a message nobody was answered,
  whole; routing follows it. A refused UpdateGatewayStatus keeps the fields it had
  assigned before it met the wrong one (1311), so that a gateway can go on or off
  line by a refused message; no property is stated.
* Site: a published entry leaves the schedule, so its Expire-At is never acted
  on; PutDraft does not ask for the lock; stale-if-error is unreachable.
* Gate: a handler that throws leaves no Request-Id behind (registry 2895-2900,
  catalog 7314-7318), and the nonce that comes again with its Request-Id passes
  (auth.lua:327): the message runs again on what the first run left. With the empty
  string for a Request-Id a signed message runs as often as it is sent while its
  timestamp is fresh: 327 finds "" equal to "", and the registry (2874) does not
  look it up. A message signed by a clock ahead by d is fresh for d seconds after
  its nonce and Request-Id have expired. In the catalog and in access a message
  without a Request-Id ends in an error in `idem.record` after its handler has run,
  and is not saved. Both look a Request-Id up before action, HMAC and role are
  checked. A cached response is the live table, so a replayed answer may show later
  state; at its limit the Request-Id registry can evict the entry it is asked for.
* Worker: `process.env.TEST_IN_MEMORY_KV` selects the in-memory store in production
  too (168-171), although README.ops.md:31 and worker/README.md:143 say that it is
  ignored there; ensureProdSecrets looks at the worker's environment only. Any
  text but "" and "0" enables it (155-160), not just the `1` of the docs. The
  test for production of ensureProdSecrets (235-239) goes by case, that of
  productionLikeEnv (162-166) does not. `ProductionGuarded` says what is left:
  nothing else serves from memory in production.
* Worker: the Durable Object cuts what it is asked for at 86 400 seconds
  (3322-3325) and REPLAY_TTL has no upper bound (436-442), so with a longer one the
  lock ends before the marker. On this path nothing reads the marker: the nonce is
  free again when the lock ends. /forget with the subject "sign" frees every
  nonce of /sign at once.
* Worker: without the Durable Object the "atomic-ish ownership check" (541) lets
  two isolates accept one nonce: both read the marker before either writes, then
  each sees its own. The docs call this mode best effort. The dedupe marker is
  set before the send, so a notification that failed is answered "deduped" to
  who repeats it. The breaker opens again instead of letting one request through, for as
  long as requests keep coming (`ClosedOnlyQuietly` states it); concurrent notes
  overwrite each other, so failures may go uncounted.
* Worker: with the defaults SIGN_TS_WINDOW = 300 and REPLAY_TTL = 600 a command
  signed at the early end of its window is just no longer fresh when its lock
  ends; a request delayed between the two checks is signed again.
  A value of a runtime pointer record is overwritten by a scalar field of the
  same name before the two are compared (885-924), so that contradiction goes unnoticed.
* send_write_command.js signs a message (56-67) without the role that the
  worker's has (worker/src/index.ts 1825-1837). The assertions of the deep test and
  the matrix pass when the process refuses the action: an output with status
  ERROR is an output.

## 8. The plan

Written so far, in this order, because the rest relies on them or because they
carry the most risk: IntegrityRegistry, RequestGate, SitePublishing,
WorkerInbox, CatalogStock, CatalogPayments, RegistryDirectory; then WorkerNotify,
WorkerAccess, WorkerSigning, WorkerWrites with CommandOnce, WorkerReads,
SchedulerClients. Next:

1. `RateLimiter` (`ao/shared/auth.lua` 520-670): three buckets charged one after
   the other, a refusal by a later one keeps the charge of the earlier.
2. `DraftLocks` (`ao/site/process.lua` 1227-1319) against an abstract lock with
   one owner; `SiteContent`: routes, layouts, menus, assets.
3. `IntegrityRegistry` behind `persist`, as `RegistryDirectory` does it, showing
   that the composition implements IntegrityRegistry but for a torn snapshot
   (refinement, with the last answered state as the mapping).
4. Catalog: products and prices, shipments, invoices, retention.
5. `Ingest` with `Access`: the same events in another order, or twice.
6. WorkerWrites in front of RequestGate, instead of a process that remembers
   every request id: what is left of CommandOnce when ids expire.

Abstract specifications worth stating: an at-most-once executor implemented by
RequestGate while clocks are right and handlers return; a mailbox (put once, get once) implemented by
WorkerInbox with the Durable Object; an atomic registry implemented by the one
with saves and crashes.

Theorems still worth proving: the refinements of these abstract specifications,
and for each module to come its type invariant and its main property.

New components come with a run and properties of their own; where they ask a
question an existing run can answer, the run is extended, and plain properties
make room for deeper ones.
