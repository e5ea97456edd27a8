# Verification of the booking service

TLA+ models of `src/` (the NestJS API of a hotel booking system with sharded
PostgreSQL, one Redis and several API instances), TLC configurations that check
them on small instances, and theorems checked by TLAPS. Paths below are relative
to the repository, as in `src/bookings/bookings.service.ts:109`. The modules and
`PROJECT.json` write the directory of the checkout in front of them:
`src/src/bookings/bookings.service.ts`.

1. [The system](#1-the-system)
2. [Modules and code](#2-modules-and-code)
3. [Runs](#3-runs)
4. [Fairness and symmetry](#4-fairness-and-symmetry)
5. [What is proved](#5-what-is-proved)
6. [Where the code and its texts disagree](#6-where-the-code-and-its-texts-disagree)
7. [What is not modelled](#7-what-is-not-modelled)
8. [Plan](#8-plan)

## 1. The system

```
 client --HTTP--> API instance 1..n (controllers -> services)
                    |            |               |
                    |            |               +-- CacheService --> Redis (one, no persistence)
                    |            +-- ShardRouter --> shard_a, shard_b, ...   hotels, rooms, bookings
                    +-- DbRouter --> global node (primary + async replica)   guests
```

All state that requests share is in PostgreSQL and Redis. An API instance
keeps only counters, health flags, a local copy of the sticky sessions and the
variables of the handlers under way; those are lost when it dies. A handler is
an async function: between two `await`s it runs alone in its instance, at an
`await` anything else may run there or elsewhere.

| component | state | operations | depends on |
|---|---|---|---|
| Bookings, `src/bookings` | table `bookings` of every shard | create, PATCH, DELETE, cancel, relocate (inside a shard: one transaction; across shards: saga T1, T2, T3 with compensation C1), lists | ShardRouter for rows, DbRouter for the guest, CacheService for the search version |
| Rooms, `src/rooms` | table `rooms` of every shard | CRUD, search through the cache | ShardRouter, CacheService |
| Hotels, `src/hotels` | table `hotels` of every shard | CRUD, card through the cache | ShardRouter, CacheService |
| Guests, `src/guests` | table `guests` of the global node | registration, PATCH, deletion guarded by a fan-out over the shards, booking history | DbRouter, ShardRouter |
| Shard routing, `src/sharding/shard-key.ts`, `shard-router.service.ts` | bucket map (fixed at start), health flags, counters | `forKey`, `childId`, `newHotelId`, `fanOut`, `fanOutList`, `checkHealth` | the pools of the shards; DbRouter when there are no shards |
| Read/write separation, `src/database/db-router.service.ts` | health flags of primary and replica, local sticky sessions | `write`, `read` (eventual, strong, primary preferred), probes | both pools, CacheService for the shared sticky flag |
| Cache, `src/cache` | keys in Redis: cards, search results, search version, sticky flags | `getOrSet`, `getVersion`, `bumpVersion`, `del`, `setFlag`, `hasFlag`; every error of Redis is swallowed | Redis |
| Resharding, `src/sharding/resharding.ts` | none | `rebalanceBuckets`, `HashRing`, simulation of growth | shard-key |
| Sharding reports, `src/sharding/sharding.service.ts` | none | distribution, statistics of a city and of a hotel, each gathered over the shards | ShardRouter |
| Health, `src/health`, and replication status, `src/database/replication.service.ts` | none of their own | `/health` (readiness of the instance), `/replication/status` | flags of DbRouter and ShardRouter, both nodes |
| HTTP: controllers, DTOs, middleware, session cookie | none | validation, headers | |

What makes each of them hard, and when it is correct:

- **Bookings.** Many requests, of several instances, work on the same rows.
  `create`, T1 and the relocation inside a shard look for an overlap and insert
  in a serializable transaction that PostgreSQL may abort (P2034) and that is
  retried until the fifth attempt; PATCH, DELETE, cancel, T2, C1 and T3 are single
  statements at Read Committed. Any of them may fail, take effect without its
  answer arriving, or be the last thing an instance does. Correct: a room is
  not booked twice for a night; a booking stays on the shard of its room; what
  was cancelled stays cancelled; a relocated guest has one booking at the end
  and at least one on the way; every request is answered; every change is
  followed by a new search version.
- **Search.** A search reads the version, looks up the entry with that version
  in its key, and, on a miss, asks all shards and stores what they said; a
  mutation commits and then raises the version. Redis and shards may fail at
  any of these points. What is stored is read from the primary, what a search without
  Redis shows may come from a replica. Correct: a search that starts after a mutation was
  announced shows it, but for what a replica that lags answers without Redis or in
  place of a primary that failed; and every search is answered.
- **Hotel cards.** The same idea without a version: a mutation deletes the key
  of the card. Correct: no stale card outlives the mutation, except in the ways
  the code accepts.
- **Hotels and rooms.** Existence, unique room numbers and foreign keys are
  looked up before the write and enforced by the database at the write; another
  request comes between. A cluster that grows moves buckets. Correct: a room is
  on the shard of its hotel, a hotel on the shard where a search for its city
  asks, and an error of a constraint reaches the client only after a race, or where the
  code does not look before it writes (DELETE of a hotel with rooms or of a room with
  bookings, PATCH of a room).
- **Guests.** There is no foreign key from bookings to guests; the application
  checks instead, one shard after the other. Correct: a guest with bookings is
  not deleted, a history is complete on the shards that answered, an email is
  registered once.
- **Routing.** The bucket of an id decides the shard, and a hotel, its rooms and
  their bookings carry the same bucket. Correct: every id that is ever made
  leads to the shard that has the row.
- **Read/write separation.** Correct: a session reads its own writes, a strong
  read never comes from a replica, a write never goes to one, and the flags
  follow the nodes.
- **Health.** Queries, probes, checks and reports that overlap set flags from
  answers that are out of date; Kubernetes sends traffic by the verdict.
  Correct: the verdict follows the nodes and shards, a flag never makes a shard
  unreachable, `caughtUp` is never said of a replica that lags.
- **Reports.** The shards answer one by one while rows are written, and some
  fail. Correct: every row is counted once or its shard is left out whole.
- **Resharding.** Correct: quotas differ by one at most, a bucket moves only to
  a shard that gains, as few as possible move, and the ring lookup is the first
  point clockwise.

`PROJECT.json` lists under `hazards` the lines where these things can go wrong,
with the properties that watch them.

## 2. Modules and code

| module | stands for | state |
|---|---|---|
| `Bookings` | `BookingsService`, all mutating requests | `booking`: the tables; `pc`, `job`, `attempt`, `reply`: the handlers; `doomed`: PostgreSQL |
| `RoomCalendar` | abstract: intervals of rooms taken when free and released | `taken` |
| `ShardKey` | `shard-key.ts`: hash, bucket of an id, strategies, bucket map | none, operators |
| `Resharding` | `resharding.ts`: the three placements, rebalancing, the ring | none, operators |
| `Catalogue` | `HotelsService`, `RoomsService` (mutations), `ShardingService` (reports), the growth of the cluster | configuration, tables of hotels and rooms, requests |
| `SearchCache` | `RoomsService.searchCached`, `CacheService`, `ShardRouter.fanOut` with `allowPartial`, `DbRouter.read` as far as a replica may answer, the version bump of every mutation | shards or primary and replica, Redis, searches, writers |
| `HotelCard` | `HotelsService.findOneCached`, `CacheService.getOrSet`, mutations of hotels and rooms as far as cards show them | database and replica, Redis, requests |
| `DbRouter` | `DbRouter` of every API instance over a primary and a replica, the sticky flags in `CacheService` | both nodes, health flags, sticky flags, probes, requests |
| `Health` | `HealthController`, health of the shards in `ShardRouter`, `ReplicationService`, on top of `DbRouter` | that of `DbRouter`, the shards, their flags, statements, reports, checks, positions |
| `GuestDirectory` | `GuestsService`, `ShardRouter.fanOut` with and without `allowPartial`, the booking requests as far as guests are concerned | guests, bookings, requests |
| `BookingsProofs`, `CalendarProofs` | theorems about `Bookings`: every workload; private reservations, and relocations | |
| `HealthProofs` | theorems about `DbRouter` and about `Health`, which composes it | |
| `ReshardingProofs`, `CatalogueProofs`, `GuestDirectoryProofs`, `SearchCacheProofs`, `HotelCardProofs` | theorems about these modules | |
| `MC...` | instances for TLC | |

`Resharding` EXTENDS `ShardKey` and `Catalogue` EXTENDS `Resharding`; `Health`
EXTENDS `DbRouter` and composes its steps with its own; `Bookings` instantiates
`RoomCalendar` with `taken` replaced by the set of active bookings;
`CalendarProofs` builds on `BookingsProofs`, `CatalogueProofs` on `ReshardingProofs`.

### Bookings

One request runs one handler; its `pc` is the `await` it has reached.

| step (`pc`) | the code waits for | action |
|---|---|---|
| `idle` | nothing, the request has not arrived | `Create`, `Update`, `Remove`, `Cancel`, `Relocate`: validation, `findLocal`, the checks of what it returned |
| `reserve` | the transaction's reads | `Reserve` |
| `commit` | its COMMIT | `Commit`, `Abort` |
| `write` | the one statement of PATCH, DELETE, cancel | `UpdateWrite`, `RemoveWrite`, `CancelWrite` |
| `T2`, `C1`, `T3` | the steps of the saga | `CancelOriginal`, `Compensate`, `SetStatus` |
| `bump` | the INCR of the search version | `Bump` |
| `done` | | |

`Unreachable` is a statement that the database refuses, `Heard` covers a
statement that took effect and whose answer was lost, `Crash` the end of the
instance. `OnError` is the way the `try`/`catch` blocks send each of these:
an error of T2 leads to C1, an error of C1 is logged and forgotten, every
other error is the answer.

*PostgreSQL.* A serializable transaction takes its snapshot at `reserve`
and becomes visible at `commit`; in between other requests run. Two rules are
kept of PostgreSQL. A commit dooms every other open transaction whose overlap
query would have found the row just inserted (`Reading`); of two transactions
that read each other's range, the one that commits second is thus aborted. This
is all the code relies on, and PostgreSQL may abort more: `Abort` is enabled
for every open transaction, since predicate locks cover pages (the comment of
`serializable()` says as much). Second, an UPDATE of a row that changed after
the snapshot fails (`Updating`). Statements outside serializable transactions
take no part in predicate locking; the check inside a transaction does not see
what PATCH or T3 are about to do.

*Ids.* An id is a pair of the bucket and the request that made it: `idInBucket`
draws 120 random bits, no two requests draw the same. `ShardOf` is the bucket
map. A relocation is local when both buckets are on one shard.

*Who may name a booking.* `GET /bookings` lists every row as soon as it is
committed, also the reservation of a saga that is not through. With
`Listed = TRUE` any committed row can be named by the next request, with
`Listed = FALSE` only seeded ones and those whose id was in an answer.

*Outside the code.* No request sets CONFIRMED or COMPLETED, but the service
tests for both; `FrontDesk` is whoever does it. It is the one action without a
line of source.

*Left out.* Prices, the guest (see `GuestDirectory`), reading requests, and the
deletion of rooms (the foreign key keeps a room that has bookings). A 404 or
503 from `findLocal()` changes nothing and looks like a request that never
came, so only the answers decided by the status of a row that was read are
actions.

*History variables.* `unchecked` collects the ids that PATCH moved, or that T3
made active, without an overlap check. `stale` is true from a change of the
tables to the next bump.

### RoomCalendar

The abstract specification has one variable, the set of intervals in force, and
three steps: take an interval that is free, release one, exchange one for
another that is free. It knows nothing of transactions, retries, shards or
sagas. `ImplementsCalendar` says that the tables under all the interleavings
change only in these ways. A saga appears there as Take (T1), Release (T2) or
Release (C1), and T3 as a stutter.

### ShardKey and Resharding

An id is a pair of the number in its first two digits and the rest, or of
`Foreign` and the whole text when it does not begin with digits (such ids are
hashed). FNV-1a and the trimming and lower-casing of cities are constants, any
functions with the right ranges. `buildBucketMap` lets the fragments of
`SHARD_BUCKET_MAP` overwrite the default, the last one winning, and refuses one
that is out of range.

`rebalanceBuckets` is written as the two loops of the code, each a recursive
function of how often it has run: `skimming`, over the buckets, with the array
of the spare ones, and `dealing`, over the shards, with the length that `pop` has
left of the array. `HashRing` sorts its points by insertion, stably, and `shardOf` is the
binary search over them, a recursive function of `lo` and `hi`. What they promise is stated
independently: `MovesLeast` by cardinalities, `Clockwise` by the nearest point,
`NewShardsGain` by comparing placements.

### Catalogue

One request runs one handler; a row knows the shard it lies on.

| code | action |
|---|---|
| `HotelsService.create` | `CreateHotel` |
| `HotelsService.update`, `remove`: `findOne`; the statement | `FindHotel`; `UpdateHotel`, `RemoveHotel` |
| `RoomsService.create`: hotel; number; insert | `CreateRoom`; `CheckNumber`; `InsertRoom` |
| `RoomsService.update`, `remove`: bucket of the new hotel and `findOne`; the statement | `FindRoom`; `UpdateRoom`, `RemoveRoom` |
| the shard does not answer | `Unavailable` |
| `distribution`, `cityAnalytics`: fan-out; one query of one shard; its failure; the sums | `Gather`; `AnswerQuery`; `FailQuery`; `ReplyReport` |
| `rebalanceBuckets` and a new deployment, SHARD_URLS and SHARD_BUCKET_MAP | `Grow`, `LayOut` |

The unique index (hotel, number) and the foreign keys of `prisma/schema.prisma`
refuse a statement when it is executed (`Taken`, `Found`, `Booked`), and the
error becomes a 500. `BreaksUnread` lists the constraints that no read has looked for:
`remove` of rooms does not look for bookings (`src/rooms/rooms.service.ts:151-156`), `remove` of
hotels not for rooms, `update` of rooms for neither hotel nor number. The rows of a bucket follow the map when the cluster is laid
out anew: no code does this, docs/LAB7.md:480-487 tells the operator to, with the
writes of the bucket held back. `Redeploy` takes that as given and lets no request
be under way. Both strategies are started from; a search for a city (`shardForCity`) asks one
shard under `city`.

History: `touched` (somebody has written since the request began), `kept` and
`seen` (what a report must and may count), `moved` (hotels that a PATCH took to
another city).

### SearchCache

One search key. The rows of a shard that matter to it are a version number;
`Write` increases it, `Bump` raises the search version afterwards. A reader goes
`GetVersion`, `Lookup`, then `AskShard` once per shard in any order, `Store` or
`Bypass`. Failures: each Redis command separately, loss of everything in Redis,
eviction of the version key, shards going down and coming back, P2024.

`shards` says which deployment it is; `Init` chooses one. With `SHARD_URLS` they are the constant
`Shard`, each one PostgreSQL, and `physicalShard` ignores the consistency. Without (so docker-compose.yml and
`k8s/` run) the only shard is the global node, a primary and a `replica` that replays
later (`Replicate`): then `Replicated` holds, and the two loaders of `src/rooms/rooms.service.ts:92-93` differ:
`MayAskReplica` lets the eventual read of a BYPASS go there at any time and the
read that fills the cache (`PRIMARY_PREFERRED`) only when degraded. An answer says the node it
is `from`. The flags of `DbRouter` are abstracted to `failed`: of a primary that has not
answered at some time an instance may believe so from then on, rightly or not, since no
property of this module needs the flags to recover (`FlagsFollow` of `Health` says
that they do).

History:
`announced` (what the bumps cover), `floor` (what was announced when a search
began), `guessed` (the search got 0 for another version because Redis failed),
`rolled` (the version key was lost); `mark` records what was announced when the
version took a value and links an entry's key to what the entry must contain.

### HotelCard

Cards are version numbers per hotel. One room can move between hotels. Readers
`Lookup`, `Load`, `Store`; writers `Check` or `CheckMove`, `Write`, `Invalidate`.
The database is the global node (the deployment without `SHARD_URLS`), because
it shows more: with the primary down a load is served by a replica that lags.
`StaleCardHasCause` has its history in `clean` and `from` of a card, in
`excused`, and in `wrote`, the versions a mutation gave the cards it changed: a
mutation that is through (`settled`) answers for these and not for what others
have written since.

### DbRouter

The database is the number of committed writes, the replica the number it has
replayed; a read returns what its node has. A request belongs to a session and is
served by one of the API instances (nginx picks any).

| code | action |
|---|---|
| `write()`: read-only check; the mutation; `localSticky.set`; `setFlag`; the `catch` | `Write`; `Commit`; `Remember`; `SetFlag`; `WriteFailed` |
| `read()`: choice of the route; `isSticky()` in Redis; the query; the two `catch` branches | `Read`; `Ask`; `Query`; `ReplicaFailed`, `Conflict` |
| `readPrimary()`: flag and query; the `catch`; the degraded branch | `readPrimary`; `PrimaryFailed`; `Degrade` |
| `checkHealth()`, `probeNodes()` | `Probe`, `Answer`, `Probed`, `ProbeOverload` |

The query and its error are two steps: a node may come back, or a probe may report,
between them. The answer of a probe is a step of its own for the same reason.
Faults: a commit whose answer is lost, P2024 (never a reason to mark a node down), a
query cancelled by replay, a Redis command that fails and a flag that Redis loses.

One assumption is made, and it is the one docs/LAB6.md:199 makes: a TTL is longer
than the replication lag. A flag remembers the number of writes at its SET, and ends
by its TTL only when the replica has replayed them. A replica that stays
behind for longer is outside the model; then own writes can be missed, by the design.

History: `acked` and `need` say which writes a session had an answer for when a read
began; `missing` and `blind` say that Redis lost the flag of another instance and that
a read was decided without it.

`situation`, chosen once from the constant `Situations`, says which requests
come and which nodes may fail in a behaviour. It is no part of the code: it
lets one run ask several questions whose states add up instead of multiplying.
With a single situation of everybody and every node it restricts nothing, and
the theorems hold for any set of situations.

### Health

| code | action |
|---|---|
| `ShardRouter` `physicalShard()`, `run()`: statement; its answer; `markUp` or `markDown` | `AskShard`; `ShardAnswers`, `ShardOverload`; `ShardServed` |
| `HealthController.health`: both parts at once | `AskHealth` |
| nodes: `checkHealth()` of `DbRouter` raced with its timeout | `ReadNodes` |
| shards: `SELECT 1` each, raced with 1500 ms | `CheckAnswered`; `ShardChecked`, `CheckTimesOut` |
| the status from the copied flags | `Verdict`, in the last `Settle` |
| `ReplicationService`: both nodes at once; lag and `caughtUp` | `AskStatus`, `ReadPosition`; `behind`, `caughtUp` |

`ReadNodes` may be taken at any moment, after the probes or before (the
timeout). A check that timed out is forgotten; a check whose answer has arrived
but has not been processed may be overtaken by a statement that fails. The flags
of the shards are copied when the last check has settled, the flags of the nodes
when the wait for the probes is over: a report may combine moments that never
were, which is why the property about it speaks of what it says in the end.

### GuestDirectory

A removal reads the guest, counts the guest's bookings shard by shard, decides
and deletes (`Remove`, `Count`, `Decide`, `Delete`); a history gathers them and
gives what it got (`List`, `Count`, `Reply`); registration and PATCH are checked
before and by the unique index at the write (`Register`, `InsertGuest`; `Change`,
`UpdateGuest`: PATCH does not look for the email). Booking requests check the
guest and write later (`Create`, `Patch`, `Withdraw`, `Relocate`, then `Insert`,
`Reassign`, `Erase`). The rows keep their shard and their guest. `held` is the
history: bookings of the guest at every moment since the fan-out began; `touched`
says that the table of guests changed while a registration was under way.

## 3. Runs

All runs take two workers and finish in less than three minutes.

| run | what is asked | instance |
|---|---|---|
| `all` | `TypeOK`, `OverlapOnlyUnchecked`, `Colocated` with every kind of request and every failure | 2 requests, 3 rooms in 2 buckets on 2 shards, 3 days, 1 seeded booking; 4.2 million states |
| `calendar` | `NoDoubleBooking`, `EndedStaysEnded`, `ImplementsCalendar` for create, cancel, delete, relocate (both kinds) with lost answers, injected failures, crashes | 3 requests; 1.5 million states |
| `sagas` | `StayConserved`, `StayNeverLost`, `ChangeIsAnnounced`, `RequestsAreAnswered` with injected failures and crashes | 3 sagas, 3 shards, one booking, an unknown room; 297 thousand states |
| `catalogue` | `TypeOK`, `FamilyTogether`, `CityIsLocal`, `ServerErrorHasCause`, `ReportCountsOnce`; `RebalanceMovesLeast`, `RingIsClockwise`, `OnlyNewShardsGain` | 2 requests, 2 hotels with a room each, 4 buckets, both strategies, one city in two spellings, 1 or 2 shards that grow, an explicit map and a refused one; all maps of 4 buckets and all rings of up to 3 shards with 2 points each; 326 thousand states |
| `search` | `TypeOK`, `SearchIsFresh`, `SearchIsAnswered` | 2 searches, 1 writer, both deployments: 2 physical shards, and the global node with its replica; every failure; 690 thousand states |
| `cards` | `TypeOK`, `StaleCardHasCause` | 2 readers, 2 writers, 2 hotels, every failure; 1.1 million states |
| `sessions` | `TypeOK`, `ReadsOwnWrites`, `StrongIsCurrent` | 2 requests of one session, 2 API instances, a primary that fails, or one of the requests while both nodes fail, every fault; 4.3 million states |
| `nodes` | `HealthOK`, `RefusedShardWasDown`, `CaughtUpIsTrue`, `FlagsFollow`, `RequestsAreAnswered`, `ReadinessFollows` | 1 API instance, 1 shard, at most two of: a request, a statement, two who ask `/health`, a status; nodes and shard that fail; six situations, listed in `MCHealth`; 92 thousand states |
| `removal` | `TypeOK`, `BookedGuestIsKept`, `HistoryIsWhole`, `OnlyRacesAre500` | 2 fan-outs, 2 other requests, 2 guests, 3 emails, 2 shards of which one fails; 3.2 million states |
| `x_revived`, `x_lost`, `x_dangling` | expected to be violated, section 6 | |

Why the bounds are enough to be interesting:

- *Requests.* Two requests give every pair of handlers in every order, which
  is where check-and-insert goes wrong. Three are needed for one that takes a room
  between two steps of another that was overtaken by a third, hence `calendar`
  and `sagas`.
- *Rooms and days.* Two rooms of one bucket and one of another are the
  destinations a relocation distinguishes. Days 1 to 3 give stays that are
  equal, contained, partly overlapping and back to back (out = in).
- *Retries.* `Retries`, the number of attempts, is 2 where the code has 5. The value
  only counts how often `Abort` returns to `reserve`; 2 has every outcome (success at
  once, success after a retry, given up). The theorems hold for every value.
- *Sessions.* A write and a read, through different instances, are the least that can
  miss an own write; other sessions only add commits.
- *Health.* Late errors and late answers need two who learn of a node or shard:
  two reports, a report and a statement, or a request and the probes. Each has a situation.
- *Buckets.* 64 in the code, 4 here: over up to 3 shards they divide evenly and
  with a remainder, and every map of them is tried, not only those that growth
  makes. The ring has every arrangement of its points on 4 positions, with equal ones.
- *Guests.* Two guests and three emails: one taken by the guest itself, one by
  the other, one free.
- *Versions* are bounded by the number of writers, each of which writes once.
- *Seeds.* One booking made by an earlier request. `Init` of the proofs allows any
  seeded tables without a double booking.
- *Rest.* Deadlock is checked in every run. A specification may stop only in
  `Rest`, when no handler is under way; `Health` and `Catalogue` never have to.

`calendar` is restricted and says so: no PATCH, `Listed = FALSE`. Outside these
limits the property is false: a PATCH writes dates and rooms without looking
(section 6), and a reservation that somebody else cancels is revived by T3
(`x_revived`). Inside them, it covers
retries, sagas interrupted at every step and two- and three-way races.
`sagas` has no refused statements since a T3 that is refused leaves the search
version unraised (section 6); a crash at the same place is there, and two
of its properties are claimed only where no instance died: what a dead instance
leaves behind nobody finishes. `all` has the refused statements.

## 4. Fairness and symmetry

Liveness is claimed of requests, from the moment they arrive
(`RequestsAreAnswered` of two modules, `SearchIsAnswered`), of the health flags
(`FlagsFollow`) and of the verdict of `/health` (`ReadinessFollows`). `FairSpec`
(`Bookings`, `SearchCache`) has weak fairness of the
steps of each handler. Justification: Node.js runs every continuation that
is ready, and each statement or Redis command returns, fails or times out. The
arrival of requests, the failures, the TTL and the outages have no fairness. A
statement that is refused is an answer as well, and only makes a handler
shorter. `RequestsAreAnswered` does not assume that PostgreSQL ever commits:
`Abort` may win every time and the bound of `serializable()` ends it. `SearchIsAnswered`
does not assume that a shard ever comes back.

`FlagsFollow` and `ReadinessFollows` are about nodes and shards that stay
as they are from some time on. `FairHealth` assumes that the timer of the probes fires
and that Kubernetes asks again (`readinessProbe` with a period of 5 s,
k8s/30-api-deployment.yaml:65-72), that a
probe or check which was answered is processed, and, with strong fairness, that of those
sent again and again some are answered in time: a probe gets a connection from the pool,
a check returns within its 1500 ms. Without the last, P2024 or a slow shard may
keep a flag wrong for ever, by the code's own decision that overload is not an outage.
Statements to shards have no fairness at all: the reports alone bring the flags right.

Symmetry over requests, readers, writers and instances is used for invariants and for
properties of single steps and refinement (no fairness there), and not in
the runs that check liveness.

## 5. What is proved

Every safety property of every passing run is a theorem, for any number of
requests, rows, shards, buckets, instances, reports and sessions and any choice of
failures, and so is the refinement of `RoomCalendar`. What they
assume of the constants is the named ASSUME of each module, which TLC evaluates on
every run of it: ids are fresh, what was stored before is consistent and finite, at least one
attempt, at least one shard. Where a theorem holds of a workload only, its statement
begins with the workload (`ASSUME Private PROVE ...`), a formula about constants.

**`BookingsProofs`**, every workload and every failure.

- `TypeCorrect`: `Spec => []TypeOK`. Not inductive alone: that `Commit` writes a
  proper row depends on what `Reserve` has found before, and the lookup of a
  PATCH on what `Update` has compared. `JobFits(r)` says for each step what the
  handler has established on its way there, and `Typed == TypeOK /\ JobOK` is
  inductive.
- `OverlapTheorem`: `Spec => []OverlapOnlyUnchecked`, the core of the matter. The
  inductive invariant is `IInv == Typed /\ Guarded /\ OverlapOnlyUnchecked`, where
  `Guarded` says that an open transaction that is not doomed conflicts
  with unchecked bookings only. `Reserve` establishes it (it has just looked), and
  every later insert either does not meet the stay or dooms the transaction
  (`CommitGuarded`). For all other steps the lemmas reduce to `Harmless`: no step
  but `Commit` makes a booking active or moves it without recording it in
  `unchecked`, and then neither part can break (`HarmlessStep`).
- `ColocatedTheorem`: `Spec => []Colocated`. From `RoomsKept`: a step changes the room
  of a row only to a room of the row's bucket, which follows from `SameBucket` kept
  in `JobFits` for PATCH and from the form of `childId` for inserts.

**`CalendarProofs`**, the workload of the run `calendar` (`Private`: no PATCH, nobody sets
statuses from outside, a row is named only when its id was in an answer).

- `NoDoubleBookingTheorem`, `EndedTheorem`. `PInv` adds to `IInv` that `unchecked` is
  empty and that every request is `Settled`: the row a request names was answered,
  so no request under way made it; the rows it may make are absent until its COMMIT;
  and between T1 and T3 its reservation is there and PENDING. A step writes answered
  rows or the request's own (`Touches`), hence cannot disturb what the others rely on
  (`OthersSettled`). That is why T3 never finds its reservation cancelled, the gap
  `x_revived` goes through.
- `RefinementTheorem`: `Spec => ImplementsCalendar`. A step inserts one row
  with or without ending another (`Inserted`), or leaves all but one row alone and that
  one with its interval or inactive (`Shrinks`). The first is Take or Exchange, where
  `Guarded` gives that the interval is free, the second is Release or a stutter.
- `AnnouncedTheorem`: `ChangeIsAnnounced`, where moreover statements are executed and
  answered (`Answered`): a change is followed by a step from which the handler still
  has to raise the version, unless its instance dies.

**`CalendarProofs`**, relocations only, as in the run `sagas`.

- `StayTheorem`: `StayNeverLost` under `Moving` (no lost answers; the ids are a finite
  set). The number of active rows does not say it by itself, since T2 ends a row and
  C1 another. `Held` are the stays without the reservations whose T2 is still to come.
  Every step keeps them or exchanges one for a new one (`Exchanges`): T2 gives up the old
  booking for the reservation, C1 takes back what never counted. So their number never falls.
- `ConservedTheorem`: `StayConserved` under `Across`, where each room is on a shard of its
  own and statements are executed: then it does not rise either, because the conditional
  T2 lets one saga of a booking through (`Frugal`). Inside a shard it may rise, see section 6.

**`ReshardingProofs`**, about operators, with no state. The library's induction takes a
predicate as a parameter, which no installed prover instantiates, so the
induction is stated of sets: every non-empty set of numbers has a least one (from the
theorem that `<` is well-founded), hence a set that has 0 and with each number the next has all
(`UpTo`), hence a recursive function is what its two equations say (`Recursion`).

- `MovesLeastTheorem`. After n rounds of the first loop what is spare is among the
  last n buckets, each once, and a shard that still has too many has given up all of
  these, one that has too few none (`SkimInv`); so each shard ends at its quota or below, and
  what lies ready is exactly what is lacking, since the quotas add up to the buckets (`QuotasAdd`,
  `EnoughLeft`). In the second loop the shards before the n-th have their quota and the
  others what the first loop left them (`DealStep`).
- `ClockwiseTheorem`. Insertion keeps the points in order, equal ones in the order of
  the shards (`Sorted`, `RingInOrder`); the search keeps everything before `lo` smaller than the key
  and everything from `hi` on not smaller, and each round shortens `hi - lo` (`SearchingSteps`,
  `SearchEnds`).
- `NewShardsGainTheorem`. With buckets: from the default map, where buckets go round the
  shards, no old shard lacks any. On the ring: the points of the small ring are those of the large one that
  belong to old shards, so a key stays or goes to a new one.

**`CatalogueProofs`.** `IInv == HotelRows /\ RoomRows /\ Requests /\ CityKeys`: every row
lies where the map sends its id, a room has the bucket of its hotel, a PATCH under way
names a hotel of the room's bucket, a hotel that was not moved has the bucket of its
city. `FamilyTogether` and `CityIsLocal` follow (`RoomsStayWithHotels`,
`HotelsOfCityStayTogether`); what `Grow` and `LayOut` do to the map is not used for them, so they
hold for any rebalancing. `ServerErrorTheorem` needs `Unraced`: until somebody writes, what a
request has read is still so; then only what it has not read (`BreaksUnread`) can refuse it.

- `CatalogueTyped`. `Setup` says that the map fits the shards: after `LayOut` because a range out
  of bounds is refused (`BucketMapTyped`), after `Grow` by what was proved of
  `rebalanceBuckets`. With `TInv`, the ids and the requests, `TypeOK` follows.
  `GrowthMovesLeast`, `KeysGoClockwise` and `OldShardsGainNothing` are `Setup` and the theorems
  about `Resharding`.
- `CountedOnce`: `Spec => ReportCountsOnce`. `CInv` says of each answer a report has got that it
  lies between the number of the shard's rows that have been there throughout and of
  those there were at some time (`Tallied`). A write cannot break it, as the first only
  lose rows and the second only gain some (`TallyStands`). An answer establishes it, because the rows of a
  shard are those whose id leads there (`HotelsCounted`, `RoomsCounted`). The sum over the
  shards then keeps both bounds shard by shard (`TotalBounds`): the rows of
  different shards are disjoint, and a shard that failed adds nothing and is asked for nothing.

**`GuestDirectoryProofs`.** `IInv == Tables /\ Rows /\ Tally`: what a fan-out has held
throughout and lies on a shard that has answered is at most what the shard counted; the
rows of a shard are never moved to another, only made and deleted.
`BookedGuestTheorem`, `HistoryTheorem`; `RegistrationTheorem` by an `Unraced` of its own;
`TypeTheorem`, with the uniqueness of emails. Cardinalities need that the ids are finitely many.

**`SearchCacheProofs`.** `FreshnessTheorem`: until the version key is lost, an entry under key
`k` shows at least what was announced when the version became `k` (`Entries`), and a search under way has a key that
announced at least what it must show (`Searching`). A late fill is stored under the old key and harms nobody.
`Shows` leaves out the answers of a replica where it is forgiven: in the cache and in the searches that may
fill it that of a primary that has failed, in a BYPASS any (`Forgiven`). So an entry has no row older than its
version before the primary has failed. Both deployments are covered.
`TypeTheorem`.

**`HotelCardProofs`.** `CauseTheorem`: every card in Redis, and every card loaded and not yet
stored, is as new as the mutations that are through, unless it has a cause (`Covered`). `TypeTheorem`.

**`HealthProofs`**, about `DbRouter`. `OwnWritesTheorem`: of what the replica has not replayed, a flag is left
in an instance and in Redis, unless Redis lost it (`Flagged`); a request carries what it must
show until its answer (`Sound`). `StrongTheorem`, `TypeTheorem`.

About `Health`. `HealthImplementsRouter`: `HealthSpec => Spec`, each step of the composition is one of
`DbRouter` or leaves its variables alone, so the three theorems above hold with `/health` at work.
`HInv` adds to the invariant of `DbRouter`, for the statements, that one whose shard
is down is already in `gone`, also while its error is on the way (`StatementInv`); for the
reports, that one waits for a shard exactly as long as its check is out
(`ReportInv`); for the positions, that the primary's was read after the status was
asked for and the replica's is one it has been at (`StatusInv`). These give
`RefusalTheorem`, `HealthTheorem` and `CaughtUpTheorem`. That the flags of the shards can be anything
(`FlagInv`) is all that is ever used of them.

**Model-checked only.** Liveness, since fairness and ENABLED are outside the prover:
`RequestsAreAnswered` of `Bookings` and of `Health`, `SearchIsAnswered`, `FlagsFollow`,
`ReadinessFollows`.

## 6. Where the code and its texts disagree

Checked by a run that finds the violation:

- `x_revived`. T3 is unconditional (`src/bookings/bookings.service.ts:340`). The reservation
  is listed after T1; if it
  is cancelled then and its room booked by somebody else, T3 makes it active again.
- `x_lost`. T2 commits and the answer is lost; C1 cancels the reservation as well. The
  guest has no booking, what docs/LAB7.md:361 says the saga avoids.
- `x_dangling`. A booking inserted after its shard was counted survives its guest
  (`src/guests/guests.service.ts:73`); docs/LAB7.md:142-144 says the application
  checks this integrity.

Seen while modelling, without a run of their own:

- `PATCH /bookings/:id` writes a new room or new dates without looking for
  an overlap (`src/bookings/bookings.service.ts:213`). README.md:162 promises no two
  overlapping active bookings. `OverlapOnlyUnchecked` excludes exactly these rows and T3's.
- docs/LAB7.md:373 says T3 is repeated; the code calls it once
  (`src/bookings/bookings.service.ts:340`), and when it
  fails answers with an error and does not raise the search version, although T1 and
  T2 have changed availability.
- `src/cache/cache.service.ts:149-150` says that old entries are never read again
  after a bump. `getVersion()` answers 0 when Redis fails for one command, or when the
  version key is gone; version-0 entries, if still there, are read. `SearchIsFresh`
  excludes exactly these two cases.
- The key of a cached search has the city in lower case (`src/cache/cache-keys.ts:26`), the query
  compares the city as it was typed (`src/rooms/rooms.service.ts:114`): the first of two
  spellings decides what the other one gets. `src/cache/cache-keys.ts:11-12` says that the two
  are the same request and that different ones never share a key; README.md:581 likewise.
- A search result computed while a shard was down is stored like any other; a HIT on
  it has no `X-Shard-Partial`.
- README.md:671 says a read after invalidation is fresh. A card loaded before the DEL
  and stored after it stays for the TTL. Two moves of one room leave the hotel in
  between with its card, although `src/rooms/rooms.service.ts:146` drops both hotels
  it knows of. A card loaded while the primary is down comes from the replica. These
  are the causes in `StaleCardHasCause`, and there are no others.
- `src/rooms/rooms.service.ts:104` says that with the strategy `city` all hotels of a city are
  on one shard. A PATCH of the city (`src/hotels/hotels.service.ts:66`) leaves the
  hotel where it was; `CityIsLocal` excepts the moved ones.
- PATCH of a room to a taken number or to a hotel that is not there, DELETE of a hotel with rooms, DELETE
  of a room with bookings (`src/rooms/rooms.service.ts:151-156`), PATCH of a guest to a taken
  email answer 500, without any race: nothing looks before the write, and no filter maps the
  error. POST of a room and of a guest does look. `ServerErrorHasCause` excepts exactly those of rooms
  and hotels (`BreaksUnread`).
- C1 is tried once and its failure is only logged: a PENDING reservation that no
  request owns keeps the room. The comment at the place says a production system
  would repeat it.
- Two relocations of one booking inside a shard both succeed: the status is read before
  the transaction (`src/bookings/bookings.service.ts:265`) and the old row is updated in
  it without a condition (`:285`), so the guest ends with two bookings. The error text of
  `:267` says only active bookings can be relocated, and T2 of the saga does check.
- `src/database/db-router.service.ts:19-20` and docs/LAB6.md:206 call the replica current in
  read-only mode because nothing is written then, and fill the cache from it. The mode begins in each
  instance when it notices the outage; a commit that was announced and not replayed before is missing from
  an entry that is stored under the new version, and another instance may still write while one is
  in read-only mode after a late error. `SearchIsFresh` and `StaleCardHasCause` except the
  replica of a primary that has failed, and no other.
- COMPLETED can become CANCELLED: `cancel()` tests the status before the write
  (`src/bookings/bookings.service.ts:227`).
- A map given by hand whose sizes differ by at most one may still lose a bucket in
  `rebalanceBuckets`: the remainder of the division goes to the first shards. It is
  minimal for the quotas the code chose, which is what `MovesLeast` states.
- docs/LAB7.md:190 says that a shard that is down costs its own keys only. A 503 for one of them also
  counts against the API instance in nginx (`max_fails=2`, `http_503` in
  `proxy_next_upstream`), and two of them take the instance out for five seconds. nginx
  is outside the modules.

## 7. What is not modelled

- Reading requests, lists, prices, revenue, formatting, logging, counters, headers: no
  state, and no property needs them.
- The local query of the city strategy and the text of the cache keys (section 6 has what
  was seen there); the statistics of the rings (deviation, percentages).
- Moving rows between shards: no code of the repository does it; `Redeploy` takes the
  procedure of docs/LAB7.md:480-487 as carried out.
- The report of the configuration (`/sharding/status`), figures of PostgreSQL that
  `/replication/status` passes through, `/health/live`.
- nginx, Kubernetes, Redis and PostgreSQL themselves, beyond what the modules say of
  them; load tests, benchmarks and demonstration scripts: clients of the system, with no
  state of their own.
- The API instances as such, outside `DbRouter` and `Health`. A handler is the unit of
  concurrency, and two handlers of one
  instance interleave as two of different ones do; a crash ends one handler
  here, several of them at once being the same as one after the other.
- The deployment without a replica (`primary-only`), where every query goes to the
  primary: in the safety properties of `SearchCache` it is the case of a replica that is never asked;
  the start of an instance.
- Durations. TTLs and timeouts may end at any moment.

## 8. Plan

Done: all modules of section 2. What would add most from here:

- Abstract specifications besides `RoomCalendar`: a cache that is transparent up to announced
  writes (for `SearchCache`), a register with sessions (for `DbRouter`).
- One composition of `Bookings` with `SearchCache`, in which the bump of the one is the version of the
  other; both are checked against the same promise today, `ChangeIsAnnounced` being what
  `SearchIsFresh` takes as announced.
