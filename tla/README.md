# A TLA+ model of the Lenso Audit Log Plugin

This directory specifies and checks the Audit Log Plugin of this repository:
how evidence is appended, kept and read, on PostgreSQL and on D1, how a Plugin
Instance comes and goes, and how evidence is taken over from the legacy package.
Every definition is translated from the Rust, JavaScript and SQL source;
`PROJECT.json` maps each one to its lines. Paths below are relative to `src/`, and
the crates are abbreviated:

| | |
|---|---|
| core | `crates/lenso-audit-log-core` |
| postgres | `crates/lenso-audit-log-postgres-plugin` |
| d1 | `crates/lenso-audit-log-d1-plugin` |
| capability | `crates/lenso-capability-audit-log` |
| agent tools | `crates/lenso-audit-log-agent-tools-plugin` |

Contents: 1 [the system](#1-the-system) · 2 [modules](#2-modules) ·
3 [runs](#3-runs-and-bounds) · 4 [fairness](#4-fairness) ·
5 [proofs](#5-proofs) · 6 [findings and remarks](#6-findings-and-remarks) ·
7 [what is not modelled](#7-what-is-not-modelled) · 8 [plan](#8-plan)

## 1. The system

A Lenso Host runs Plugin Instances. One that provides `lenso.audit-log@1` (a
*provider*) offers `append_event`, `list_events` and `get_event` to other
Instances; the Runtime tells it which Instance is calling. Several providers,
in several processes, may share one database. The core crate is the policy; a
store is either PostgreSQL or D1. An operator, outside the Host, prepares the
database.

```
 writers ─ append_event ─┐                     ┌─ PostgreSQL: audit_log.events
 readers ─ list / get ───┼─► core ─► EventStore┤        ▲ setup, adopt_legacy
 agents ─► agent tools ──┘   policy            └─ D1    operator
```

### Components

| Component | State it keeps | Operations | What is hard | What makes it correct |
|---|---|---|---|---|
| **append_event** (core, postgres `repository.rs`) | rows of `audit_log.events`; per call: the event being written, the row read back | authorize, validate, redact, choose the id, `INSERT .. ON CONFLICT DO NOTHING`, fallback `SELECT`, compare, project | statements of several providers interleave, with only the primary key between them; an INSERT outlives the call that sent it; callers retry | one row per id; answers are durable and are what was asked; one event per (source, key); conflicts are justified; nothing changes a row |
| **list_events, get_event** (core, postgres `repository.rs`) | none; the cursor travels with the consumer | admit the reader and the scope, keyset page of limit + 1 rows, next cursor, lookup by id | writers choose `occurred_at`, so rows appear on both sides of a cursor between two pages; ties; one bad row fails a page | the scope ceiling holds on both paths and reveals nothing; a scan misses nothing and repeats nothing |
| **Event model** (core `model.rs`, capability `lib.rs`) | none: pure functions | wire bounds, redaction, legacy envelope, projection, recovery | checks are made before redaction and envelope, which change the size; trees of any shape | no secret survives; what is answered decodes to what is stored |
| **Legacy adoption** (postgres `operator.rs`) | the catalog; two advisory and two relation locks | one transaction of some twenty statements that verifies and then takes over the legacy schema | READ COMMITTED: each statement sees another catalog; sessions outside the protocol; lock order; lost commits | only an exact legacy schema is adopted, once; the operator is told the truth; no participant deadlocks |
| **Schema operator** (postgres `operator.rs`, `migrations/`) | ledger of the managed schema | `setup`, `upgrade`, `prepare_managed` | runs beside adoption and a serving Plugin | the schema is created once |
| **Plugin lifecycle** (postgres `lib.rs`, `storage.rs`) | `Option` of the store, a pool shared by clones | `prepare`, `service`, `deactivate` | calls that cloned the store while it is being closed; a second `prepare`; a `prepare` that ends between opening its pool and installing it | calls get an open, checked pool; deactivation ends and leaves nothing running; no pool outlives its calls |
| **D1 Plugin** (d1 `host_facilities.rs`, `store.mjs`) | rows and ledger of a D1 database | append as one atomic batch, get, list, readiness, setup | a lost or malformed receipt after the commit; isolates with clocks of their own; numbers that JavaScript changes; setup checks and then acts | the same promise as PostgreSQL; only the schema of this release is served |
| **Agent tools** | none | two tools over `list_events`, `get_event` | – | no state of its own |
| **Capability package** | none | generated bindings, `recover_legacy_metadata` | – | recovery inverts the envelope |
| **Instance configuration** (core `lib.rs`, postgres `lib.rs`) | writer, reader and scope lists, fixed at startup | validation | – | readers with scopes are readers |
| **Release automation** (`.github/`) | remote services | gates around a publication | – | – |

The hazards of this code - each at its line, with the properties that cover it -
are listed in `PROJECT.json`.

### How they interact

The core calls a store through `EventStore` (three awaited calls); a call that
is cancelled while it awaits is simply dropped. Providers meet only in the
table. Readers and writers meet only in the table. The calls of one Instance
and its lifecycle meet in the pool. The operator and the legacy service meet in
the catalog and in PostgreSQL's locks; the operators of D1 meet in its schema. This is why the
models compose so loosely: each module takes the table (or the catalog) as the
shared state and leaves the rest of the system as its environment.

## 2. Modules

| Module | Models | State ↔ code |
|---|---|---|
| `AuditEvidence` | the vocabulary: requests, ids, events, rows, redaction and microseconds as functions | `core/src/model.rs` `from_request_with_id`, `stable_event_id`; the cut in `append_event` of `postgres/src/repository.rs` |
| `AuditLog` | the abstract promise of the Capability: `Record`, `Acknowledge`, `Refuse` | README and Capability contract, independent of a store; its parameters say what a store does to data |
| `PostgresAppend` | `append_event` on PostgreSQL, statement by statement; **implements `AuditLog`** | `rows` the table, `clock` its `now()`, `pc/req/event/stored` the locals of the call across its awaits, `orphans` INSERTs on a lost connection, `acks/conflicts` answers (history) |
| `D1Schema` | `setup` of the D1 store, statement by statement, and readiness | `ledger` the version in `lenso_audit_schema`, `table` what `audit_events` is, `setup` where each operator stands |
| `D1Store` | `append_event` on D1, on top of `D1Schema`; **implements `AuditLog`** | `rows` the table, `pc/req/event/submitted/stored` the call of an isolate, `orphans` batches nobody waits for, `acks/conflicts` answers (history) |
| `EvidencePipeline` | bounds, redaction, envelope, projection and recovery over JSON values, as functions from the paths in a value to what stands there | `column` the metadata column, `wire` the answer, `stage` how far the call is |
| `AuditReads` | `list_events`, `get_event`, the ceilings | `rows` the table, `scan` a consumer's chain of pages, `lookup` its last `get_event` |
| `PluginLifecycle` | `prepare`, the handle each call clones, `deactivate`, over sqlx's pool | `live` the `Option` of the store, `closed` pools, `phase/pool/statement` the calls, `prepare/deactivate` where those futures stand, `verified/strays` history |
| `AtomicAdoption` | the abstract promise of an adoption: look and take over, or refuse for the first fault, in one step | what `adopt_legacy` reads as, were it one statement; `Verdicts` its checks and answers in their order |
| `LegacyAdoption` | `adopt_legacy` against other sessions, statement by statement; **implements `AtomicAdoption`** | `faults` the catalog, `held` PostgreSQL's locks, `pc` the next statement, `job/got` the other sessions |
| `AuditLog_proofs`, `PostgresAppend_proofs`, `D1Store_proofs`, `EvidencePipeline_proofs`, `AuditReads_proofs`, `LegacyAdoption_proofs`, `PluginLifecycle_proofs` | the theorems about these modules | – |
| `MC_*` | the small instances TLC checks | – |

No module declares a RECURSIVE operator. A walk over a JSON value, which the code
makes with a stack or by recursion, is a quantifier over its paths, so
that `EvidencePipeline` can be proved about like the others.

`AuditLog` has two implementations, and four parameters in which they differ:

| | PostgreSQL | D1 |
|---|---|---|
| `Kept(e)`, what is kept of an event | cut to microseconds | `AsJavaScript`: as `serde_wasm_bindgen` and `JSON.stringify` leave it |
| `ReadBack(m)`, metadata as readers get it | projected: reserved and non-object values enveloped | as it is |
| `Unrecognised`, metadata whose replay may conflict with itself | `Reserved` | `Reshaped`: what JavaScript changes |
| `Misread`, metadata whose first append may conflict with itself | none | `Reshaped` |

### What is abstracted

- A *body* is every field that is validated once and copied unchanged; a body
  is valid or not. A *meta* is one metadata object in `PostgresAppend`, where
  only redaction (a function), reserved keys (a set) and being refused on the
  way out (a set) matter; in `EvidencePipeline` it is a JSON value with all
  its places, its strings reduced to their lengths.
- An id is a triple. SHA-256 over length-prefixed source and key is taken to
  be injective, UUIDv7 never to repeat.
- An instant is a microsecond and the nanoseconds into it, so that the cut to
  microseconds is a real conversion.
- A failed statement, a lost connection, a cancelled invocation and a crash are
  one action, `Abandon`: the code treats them alike, and keeps nothing in
  memory that a restart would lose. An INSERT that had been sent may commit
  at any later time, or never (`OrphanCommits`, `OrphanIsLost`).
- Of the list filters the scope and the range of `occurred_at` are kept; the
  others are equalities like the scope's, joined to it by AND.
- On D1 a batch is one step, since D1 runs it as one transaction, and an isolate
  serves one call at a time. `Readings` is what each isolate's clock may say:
  nothing relates the clocks of two isolates.
- The pool of `PluginLifecycle` is sqlx's as its documentation has it: `close()`
  refuses those who wait for a connection and completes when those in use are
  back. A call is its statements, each of which waits for a connection. How many
  calls the Runtime admits at once is left open.
- The database of `LegacyAdoption` is the set of its *faults*: the ways in
  which it is not an exact unmanaged legacy deployment, one per kind of check:
  of the schemas `audit_log` and `platform` that they are missing, have another
  owner, an access list or a comment; of the tables `platform.schema_migrations` and
  `audit_log.events` that they are missing, altered, owned by another or granted, of
  the first also that something else has its name; the publications, the
  legacy history, other relations and objects, a managed ledger. A change of a table's
  owner also changes that of its row type, which is part of the shape the code
  compares. Other sessions add faults by committing transactions of which only the
  locks and the effects matter.

### Variants

Beside some definitions stands a variant marked `(mutant: ...)`: the definition
as a plausible bug would have it, such as an INSERT without its conflict
clause, a cursor taken one row too late or an unlocked table. Nothing uses
them; `PROJECT.json` pairs each with a property that fails when it takes the
definition's place, which shows that the property depends on the code being as
it is.

## 3. Runs and bounds

`tlc -config <run>.cfg <module>`; the state counts are distinct states.

| Run | Asks | Instance | Result |
|---|---|---|---|
| `append_keyed` | Is a key safe under contention? | two providers; two writers and one caller that is none; one key; a replay that differs in a secret and in nanoseconds, a changed intent, a second writer, an invalid body; two clock readings | holds, 113k states |
| `append_refines` | Does the table implement `AuditLog`, and does an append end? Is `IInv` an invariant? | two providers; an unkeyed append twice, reserved and outgrowing metadata under one key | holds, 36k states |
| `append_replay` | Does an identical replay ever conflict? | as above, one fresh id | **violated**, see 6 |
| `d1` | Does `audit_events` implement `AuditLog` too, and is a ledger of this release there whenever it is served? | two isolates with different clocks; two intents under one key and an unkeyed append, metadata JavaScript changes; two operators, a newer release, foreign tables; one batch nobody waits for | holds, 323k states |
| `pipeline` | Do redaction and envelopes hold along the whole path? What fails after it is durable? | both stores; all metadata of two names over nested values (several thousand), legacy rows of any JSON type, year boundaries | holds, 10k states |
| `pipeline_limit` | Does what is stored respect the limit? | same | **violated** |
| `pipeline_answer` | Is what becomes durable answered? | same metadata; instants whose year has four digits in UTC as well | **violated** |
| `reads_ceiling` | Does the ceiling hold for list and get? | a limited reader, an unlimited one, a non-reader; two scopes and an unscoped event; one that cannot be projected | holds, 865k states |
| `reads_paging` | Does a scan miss or repeat anything, and does it end? | pages of one or two, as the consumer likes, over five events, three at one instant, one refused by the wire; with and without a scope and a time range, open, closed and empty; appends anywhere in the order at any time | holds, 54k states |
| `lifecycle` | What pool does a call get, what runs after a deactivation, and does everything end? | two calls and one connection; three pools, so that a second `prepare`, a failing one and one after a deactivation all occur; publications that come and go; every future dropped at any await | holds, 29k states |
| `adoption` | Is only an exact schema adopted, once, without deadlock among participants? Are the statements together as good as one (`AtomicAdoption`)? | two operators that adopt again and again; two sessions with five kinds of transactions: publishing and granting, repair, the legacy migration, a drop of either table; databases that are exact, absent or granted to others | holds, 272k states |
| `adoption_live` | Do adoptions and legacy transactions end although they can deadlock? | two operators, two sessions that publish and migrate | holds, 16k states |

**Why these bounds are enough.** Appends meet only at an id. Two providers give
a winner and a loser of one INSERT; orphans come on top of them without bound,
so three and more INSERTs of one id do race. `MaxFresh` and `MaxClock`
bound only how many different ids and instants are told apart: one reading
before and one after a row was written is what `created_at` needs, and two
fresh ids make the unkeyed retry possible. Requests are never consumed, so
every caller retries as often as it likes. Keyset paging compares two rows
and the cursor: three events at one instant give a tie before, at and after
it, with a page of one, which makes every row a page boundary. Locks conflict
in pairs, and a deadlock of the four locks needs at most as many actors as
the run has. The limits of the pipeline (64 bytes, 5 nodes, depth 3, two
items) stand for 64 KiB and the rest: they are reached and exceeded, each on
its own, in objects, arrays, names and strings.

`MaxOrphans` lets one batch at a time arrive late on D1: it races two that
are waited for, and its place is free again as soon as it has run. `MaxPools`
counts the pools ever opened: the live one, the one a `prepare` holds and the one a
deactivation waits for can all be different, which takes three. Two calls and a
`PoolSize` of one make a call wait for a connection that a closing pool will
never give it.

What the bounds do not show - more providers, keys, events, calls, pools, isolates,
operators and sessions, larger metadata - is what section 5 proves, for the safety
properties. In `reads_paging` the set of events is finite, so `ScansEnd`
says that a growing log does not send a scan backwards, not that a consumer
outruns writers who backdate evidence for ever.

**Deadlock checking** is on except in the three pipeline runs, where an event
that was answered or refused is at its end.

## 4. Fairness

- `PostgresAppend`: weak fairness of `Progress(p)`, a provider's own next
  step. The Runtime polls a handler's future until it completes, and each of its
  awaits is one statement; none waits for another call. Nothing is assumed of
  callers, of `Abandon`, or of orphans.
- `AuditReads`: weak fairness of `ListEvents(c, limit)` for some limit, the
  consumer's next call, and of nothing else: `RetryPage` is its choice.
- `PluginLifecycle`: a future that is not dropped is polled. Weak fairness of a
  waiting call's next step, which is the connection, `PoolClosed` or sqlx's
  acquire timeout; of a running statement's end; and of `CloseReturns`, which is
  enabled once every connection is back. `prepare` and `deactivate` are the Host's
  choice, and so is dropping them.
- `LegacyAdoption`: strong fairness of an adopter's `Statement` and of a
  session's `LockForJob`, since PostgreSQL serves a lock's queue in order: a
  request for a lock that becomes free again and again is granted. Weak fairness
  of `CommitJob` (a session with all its locks goes on to commit) and of the
  deadlock detector, which is what `deadlock_timeout` runs. Sessions idle in a
  transaction for ever are excluded by this, as they must be: adoption does wait
  for them (the code sets no lock timeout).

## 5. Proofs

Seven modules hold proofs: every safety invariant, every action property and all
three refinements the passing runs check are theorems for every value of the
constants. Their assumptions are those the specifications themselves declare, and
TLC evaluates them in every run:

- `EvidenceAssumption`: writers are callers, `NoKey` is no key, redaction is
  idempotent, the bounds are naturals; `RequestsAssumption`: the requests are
  well-typed;
- `D1Assumption`: clock readings are instants in range; what JavaScript made of
  metadata once, it leaves alone from then on;
- `PipelineAssumption`: appends bring JSON objects and legacy rows hold JSON values;
  no reserved name is one `is_sensitive_key` recognises (`_lenso_legacy_value` and
  `_lenso_legacy_portable_json` contain none of its needles); `"[redacted]"` is no
  longer than a string may be;
- `ReadsAssumption`: readers are callers, limited readers are readers, their
  scopes are complete (as the validation of the configuration requires), ids are
  unique, instants and ids are naturals, there are finitely many events, limits
  are positive;
- `LifecycleAssumption`: calls are finitely many, a pool has a connection;
- `AdoptionAssumption`: operators are not the other sessions, transactions are
  well-typed, and only setup and adoption create the ledger or the schema;
- `JobsFollowProtocol`: a transaction that brings a fault about holds the
  maintenance lock or, where every statement that can bring it about takes one, a
  lock that conflicts with the adoption's on the relation concerned (`GuardOf`). The
  repository asks the first of operators, and PostgreSQL takes the second by
  itself. Only the first will do for schemas, publications and a GRANT on a
  table, which takes no relation lock; such a GRANT, and index DDL on the ledger, by
  sessions outside the protocol are what it excludes (section 6).

### The promise: `AuditLog_proofs`

What follows from `AuditLog` alone, and so for every store that implements it:

| Theorem | States |
|---|---|
| `AnswersAreDurable` | what a writer was answered is in the log, with what it asked |
| `KeysNameEvents` | one key of a caller names one event, different keys different ones |
| `NothingIsTakenBack` | the log, the answers and the refusals only grow |

This is what makes the abstract specification worth implementing: the two
theorems are proved once, and `D1Store_proofs` cites them through its refinement.

### Appending: `PostgresAppend_proofs`

For every number of providers, callers, keys and requests:

| Theorem | States |
|---|---|
| `TypeCorrect`, `Invariant` | `TypeOK` and `IInv` hold always |
| `UniqueRows`, `GenuineRows` | one row per id; every row is a writer's redacted evidence |
| `DurableAnswers`, `JustifiedConflicts`, `StableKeys` | what callers are told is so, and the same for one caller and key |
| `FallbackReads` | the second statement finds the row |
| `NothingIsLost` | `AppendOnly`: no step removes or changes a row (runs check it as part of `KeepsPromise`, whose `Record` only adds) |
| `ImplementsAuditLog` | every behaviour is one of `AuditLog`, with the table as the log |

*The inductive invariant.* The properties are about rows and answers; what
makes them true is what a call knows between its statements. `IInv` therefore
adds to them

- `DispatchedIsGenuine`: an event in flight, in a call or orphaned, was derived
  from an authorized, valid request, with an id drawn so far. Without it
  `ExecuteInsert` could write anything (`RowsAreGenuine`);
- `FreshIdsAreUnused`: the fresh id of an INSERT still to run is in no row, no
  orphan and no other call. Without it an unkeyed append could lose its
  INSERT and reach the second statement;
- `SelectIsKeyed`: hence only keyed appends do, and only they can conflict
  (`ConflictIsJustified`);
- `StoredIsDurable`: what is about to be answered is in the table
  (`AcknowledgedIsDurable` after `Reply`);
- `FallbackFindsRow`, kept by the absence of any step that removes a row.

Run `append_refines` checks `IInv` as an invariant. The proof is one step per
action, one sub-step per conjunct that the action can disturb. `OneEventPerKey`
follows from `AcknowledgedIsDurable` and `OneRowPerId`, since an answer's row has
the id of its caller and key.

*The refinement.* `ExecuteInsert` and `OrphanCommits` map to `Record` when the
id is new (by `DispatchedIsGenuine` there is a request whose evidence this is)
and to a stutter otherwise; `FallbackSelect` maps to `Refuse` when the comparison
fails and stutters otherwise; `Reply` maps to `Acknowledge`, by
`StoredIsDurable`, or stutters when the event cannot be projected; every other
step leaves rows and answers alone. `AuditLog` makes no promise of a matching
answer for reserved metadata (`Unrecognised <- Reserved`): see the first finding.

### Reading: `AuditReads_proofs`

For every set of events, policy, query and sequence of limits:

| Theorem | States |
|---|---|
| `TypeCorrect` | `TypeOK` holds always |
| `CeilingsHold`, `DenialsRevealNothing` | readers see their scopes only; what is denied looks absent |
| `ScansAreExact` | a scan returns only what matches; a finished one missed nothing that was there when it began |
| `ScansDescend` | pages descend, nothing is returned twice |

*The order.* `Newer` is a strict total order on events, as ids are unique
(`NewerIsTotalOrder`). A page is defined by counting the events above each event;
two facts make that useful. A page has no gap (`NewestHasNoGap`): an event above
another has fewer above it. And a query for `limit + 1` rows that returns at most
`limit` has returned everything (`ShortPageIsLast`): of the events it missed, take
one with a minimal set above it - there is one, strict inclusion of finite sets being
well-founded; all of that set was returned, and it has at least `limit + 1`
members. `PageOfMatching` joins the two: without a next cursor a page is
everything that matches, with one it is everything from the cursor upwards.

*The invariant.* `AdmittedOnly` remembers for which scope a scan was
admitted, which is what the ceiling of its pages rests on; `CursorIsOldest`, that
all a scan returned lies at or above its cursor; `NothingSkipped`, that what the
scan still owes from its start lies below the cursor and matches. Appends only
enlarge what matches.

### Lifecycle: `PluginLifecycle_proofs`

For every number of calls and pools and every size of a pool:

| Theorem | States |
|---|---|
| `TypeCorrect` | `TypeOK`, with the bound on connections in use |
| `OpenPools` | the store handed to calls is open and was checked |
| `QuietAfterDeactivation` | after `deactivate` only pools nobody waited for are in use |

*The invariant.* `PreparedIsNew`: the pool `prepare` holds was seen by no call,
no check and no close, so installing it cannot install a closed one.
`CallsAreAccounted`: a statement runs on the live pool, on one that was given up,
or on the one a deactivation waits for; a call that waits may have a closed pool,
and never gets further. When the wait is over no statement is left there, which is
`DeactivatedIsQuiet`.

### D1: `D1Store_proofs`

For every number of isolates, operators, keys, requests and clock readings:

| Theorem | States |
|---|---|
| `TypeCorrect` | `TypeOK`: at each await of an append, its request, event and rows are there |
| `SetupsAreTrue`, `SchemaIsKept` | a setup that reported success has a ledger of this release, and its table or a look-alike of it; nothing takes a schema away |
| `ServesOnlyManaged` | an isolate serves only a schema with a ledger of this release and such a table |
| `ImplementsAuditLog` | every behaviour is one of `AuditLog`, with `audit_events` as the log |
| `AnswersAreDurable`, `KeysNameEvents` | hence those of `AuditLog` hold of D1 |

*The invariant.* `SchemaIInv` is that of the setup: an operator past its look at the
ledger, or past its batch, is on a database that has one
(`SetupHasSeenLedger`). Every other statement leaves a schema with a ledger alone
(`SchemaStep`), so readiness seen once is readiness for good: `ServesManagedSchema`,
and `OrphansAreManaged` for batches nobody waits for. Of the data, as on PostgreSQL,
`DispatchedIsGenuine` and `FreshIdsAreUnused`; and `ReceiptIsStored`: the row a receipt
holds is in the table, which is what `Acknowledge` needs after a first
receipt was lost and a retry read the row of the lost one. `RowsAreGenuine` says of
rows and late batches alike that they are some request's evidence as JavaScript
keeps it (`RowOfRequest`), which is why a late batch maps to `Record`.

### Event model: `EvidencePipeline_proofs`

For JSON values of any shape, depth and size, any sensitive names and any limits:

| Theorem | States |
|---|---|
| `TypeCorrect` | redaction and the envelopes make JSON values of JSON values |
| `NoSecretSurvives` | nothing under a sensitive name is stored or answered |
| `NothingIsLostOnTheWire` | a consumer recovers exactly what is stored, but for the look-alikes of D1 |
| `FailuresHaveGrown` | what is durable and cannot be answered outgrew the byte limit, was enveloped, or has no four-digit year |

*The argument* is in the lemmas about the functions, the invariant only says that the
column is the redacted request and the answer the projected column
(`ColumnIsRedacted`, `WireIsProjection`). `RedactFacts` and `RedactKeepsBounds`: the
places that redaction keeps are a subset of the places there were, each container
has the children it had or is gone, so no bound but that on bytes can be passed.
`EnvelopeHolds`: the value of an envelope's only key is the value that was put
there; with it `RecoveryInvertsProjection` is a case split along the code.
For the other direction on D1, where nothing is enveloped, a value whose only key is
a reserved one differs from what is recovered of it, since a finite value is no
proper part of itself (`PartIsNotWhole`, by the pigeonhole theorem).

### Legacy adoption: `LegacyAdoption_proofs`

For every number of operators and sessions, every database to start from and all
transactions that follow the protocol:

| Theorem | States |
|---|---|
| `TypeCorrect` | `TypeOK`; outside a transaction nobody holds a lock |
| `AdoptionsAreExact` | the database taken over has no fault at the commit: in shape, owners and access lists of both schemas and both tables, publications, and history |
| `AdoptedAtMostOnce`, `OutcomesAreTrue` | one adoption takes over; what the operator is told was so |
| `AdoptionIsAtomic` | every behaviour is one of `AtomicAdoption` |
| `ParticipantsAreDeadlockFree` | operators and participants never wait in a circle |
| `RepeatedChecksNeverRefuse` | the checks the code repeats before its commit never fail |

*The invariant.* `LocksExclude`: locks held together do not conflict. `AdoptersHold`
and `SessionsHold`: each actor holds the locks of the statements it is past.
`VerifiedStaysTrue`: a fault that an adopter has found absent is still absent. Owner
and access lists of the tables are under the maintenance lock or the table's, whichever
their statements take.
The last one is the point of `adopt_legacy`, and rests on the others: who
commits a fault holds a lock (`JobsFollowProtocol`) which conflicts with the one the
adopter took before it looked, so that the two cannot both be at that point
(`BreaksNothingVerified`). The kind of the ledger is the one thing looked at before
its lock. So `ledger_missing` counts as verified from the lock on, since LOCK TABLE
fails on a ledger dropped meanwhile (`LockTaken`, `FailEnds`), and
`ledger_replaced` from the look at the shape, which refuses a replaced ledger.
The refusals of `platform` fall into that gap: they may come first although the ledger is
gone by then, which `AtomicAdoption` allows them by name (`Overlooked`).
Two operators are kept apart by the maintenance lock (`CommitKeepsIInv`).

*The refinement.* Each statement is of one of four kinds (`StatementKinds`): it takes a
lock, passes, ends with an answer, or commits. The first two are stutters.
An answer is `Refuse`: the fault it names is there now, and the earlier
ones are absent now, not only when they were looked for, but for those `Overlooked`
(`FirstFault`). The commit is
`Adopt`, as no fault is left (`NothingIsWrongAtCommit`).

`RepeatedChecksNeverRefuse` is a result about the code: under the protocol, the second
look at the publications and at the ledger, the `CREATE TABLE` and the look at
the new table's privileges are defence in depth.

### Model-checked only

- Liveness, which rests on fairness and ENABLED, out of the prover's reach:
  `AppendsEnd`, `ScansEnd`, `CallsEnd`, `DeactivationEnds`, `StraysEnd`,
  `AdoptionsEnd`, `LegacyWritersGoOn`.
- What `Bytes` computes: a fold, about which an induction would be needed. The proofs
  use only that a value encodes within the limit or does not.
- The violations of section 6: a counterexample is a behaviour, which TLC shows.

## 6. Findings and remarks

Three statements of the documentation do not hold of the code; each has a run
whose counterexample shows it.

1. **A replay can conflict with itself** (`append_replay`). Metadata that holds
   `_lenso_legacy_value` or `_lenso_legacy_portable_json` is accepted. The replay
   compares the request's metadata, unwrapped, with the stored row's, wrapped
   (`repository.rs`, `append_event`), and answers `idempotency_conflict`, where
   `docs/management-security.md` promises the original row.
2. **Stored metadata can exceed the limit** (`pipeline_limit`). The 64 KiB are
   checked before redaction, and `"[redacted]"` is longer than many a value.
3. **Durable evidence can be unanswerable** (`pipeline_answer`). Evidence that
   outgrows a bound after it was checked - by redaction or by the envelope -
   is inserted, and then fails projection: its writer gets an internal failure,
   and so does every `get_event` of it and every page it is on. The run keeps to
   instants that any offset leaves within four-digit years: in its trace a sensitive
   value is replaced by the longer `"[redacted]"`. In run `pipeline` the instants are
   not so kept, and the same happens to an `occurred_at` whose year is 0000 or 9999
   in its own offset and -1 or 10000 in UTC. These are all the ways there are:
   `OnlyGrowthFails`, checked there and proved as `FailuresHaveGrown`.

Remarks: behaviour met while modelling that contradicts no statement of the
repository.

- **Adoption, index DDL and GRANT.** The adoption locks the ledger in SHARE mode,
  which admits `CREATE INDEX`; no relation lock keeps a GRANT out. Either, by a
  session outside the operator protocol, can commit after it was looked for. `JobsFollowProtocol` names what the
  model assumes of other sessions: who changes the catalog holds the maintenance
  lock, or runs a statement whose own relation lock conflicts with the adoption's.
- **Adoption, waiting.** It sets no lock timeout: a session idle in its
  transaction keeps it, and the maintenance lock it already holds, waiting.
- **A second `prepare`** is answered with an error after it has replaced the live
  store. The pool it replaced is not closed; it goes with its last call
  (`strays`, `StraysEnd`).
- **The publication check** is made once, in `prepare`. A publication that
  appears later goes unnoticed until the next one (`Publish` may follow
  `VerifyAndInstall`).
- **D1, numbers.** Metadata makes a round trip through JavaScript before it is
  compared. A number JavaScript writes differently (1.0) is recorded, and its
  append answered with `idempotency_conflict`, the first one included. It is what
  `Misread` and `Unrecognised` admit. The like may happen to floating-point
  numbers on PostgreSQL, through `jsonb`; there it depends on libraries outside
  the repository and is left out.
- **D1, envelope.** The D1 store hands metadata out without one, so a consumer that
  calls `recover_legacy_metadata` takes an object whose only key is a reserved one
  for an envelope: `ProjectionIsLossless` says exactly when (`LooksEnveloped`).
- **D1, order.** `list` orders and filters by a string in which years before 0 and
  after 9999 start with a sign, and so sort before all others. These are the
  events whose projection fails anyway; `AuditReads` orders by the instant.
- **D1, setup.** A foreign table with the index's columns that appears between the
  inspection and the DDL is taken over silently (`table = "lookalike"`); appends
  then fail. Of two operators that race, one can report `audit_schema_unmanaged`: it
  looked for the ledger before the other's batch, and for the table after it. A
  repeated setup succeeds.
- **Agent tools** declare themselves parallel-safe over a Capability whose default
  admission is one call and no queue: the Runtime may turn parallel tools away.

## 7. What is not modelled

- **Agent tools**: stateless projections; their error paths are unit-tested.
- **Generated bindings** and the Runtime's admission policy: generated or
  external code. `PostgresAppend` has one append of a provider at a time, which is
  what the policy declares; `PluginLifecycle` lets calls overlap.
- **Release automation**: its state is that of remote services.
- **`upgrade`**: there is one migration, so it has nothing to do. **`setup`** of
  PostgreSQL is one atomic step, as `lenso-postgres-kit`, which is external, runs it.
- **`get` and `list` on D1**: those of `AuditReads`, but for the order key above.
- **Field lengths and character sets**: checked the same way on the way in and
  out; a body is valid or it is not.
- **JSON text**: escapes are not counted, so `Bytes` is a lower bound of the
  encoded size. Numbers are portable or not.

## 8. Plan

Modelled, in the order of importance: `AuditEvidence`, `PostgresAppend` and
`AuditLog`; `EvidencePipeline`; `AuditReads`; `LegacyAdoption` and `AtomicAdoption`;
`D1Store` with `D1Schema`; `PluginLifecycle`. Each is proved about.

Left:

1. `PostgresAppend_proofs`: cite `AuditLog_proofs` through the refinement, as
   `D1Store_proofs` does, where it now proves the same by itself.
2. `PluginLifecycle`: that a pool which was replaced is used by the calls that already
   had it and by no other, as an action property.
