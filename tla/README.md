# Verification of godoo

godoo is an asynchronous Python client for Odoo. This directory holds TLA+
models of its concurrent and stateful parts, TLC configurations that check them
on small instances, and proofs for TLAPS. Paths below are relative to the
repository; `C/` stands for
`packages/godoo-client/src/godoo/client/`, `T/` for
`packages/godoo-testcontainers/src/godoo/testcontainers/` and `I/` for
`packages/godoo-introspection/src/godoo/introspection/`.

## Inventory

| component | state | operations | what is hard |
|---|---|---|---|
| write pool `C/services/properties/mutations.py` | shared iterator, `started`, `receipts`, worker tasks | `dispatch`, `write_one` | workers interleave; answers are lost; cancellation at any await, twice |
| read-merge-write `C/services/properties/{binding,functions,scope}.py` | the binding's definitions snapshot, the rows and payloads of a call | `patch_each`, `patch_many`, `patch`, `refresh`, `create`, `read`, `update_safely`, `update_safely_batch` | definitions, rows and parents change between read and write; concurrent refreshes; the caller's mapping changes |
| codec `C/services/properties/codec.py` | none | `decode_values`, `patch_values`, `encode_values`, `legacy_values` | value tables per kind |
| client call path `C/client.py`, `C/safety`, `C/rpc` | session, password, two safety contexts | `authenticate`, `logout`, `call`, `set_safety_context` | the guard and the server are awaited; sessions change meanwhile |
| ambient context `C/client.py` | a context variable per task, one token per scope object | `with_context`, entering and leaving its block | blocks of several tasks interleave; tasks inherit contexts and outlive blocks |
| `iter_search_read` `C/client.py` | the cursor and what is left of the limit | `Fetch`, `Yield` | records change between pages |
| typed records, references `C/_pydantic_transform.py`, `C/client.py` | fields set, the set of those the user set | build, read, assign, copy, `write`, `create`, `read(ref)` | which fields a write sends; several models read one after the other |
| change data capture `C/services/cdc` | a process-wide field cache, the feed cursor | `get_history`, `get_feed`, `ensure_fields_cached` | cursors against late commits; one cache for all clients |
| module manager `C/services/modules` | none of its own | `install_module`, `uninstall_module`, `upgrade_module` | retries after errors whose effect is uncertain |
| attendance, timesheets `C/services/{attendance,timesheets}` | none of their own | `clock_in`, `clock_out`, timers | check, then act, from several tasks; two clocks |
| URLs `C/services/urls` | a cache keyed by `id(client)` | `get_base_url` | keys reused after collection |
| introspection `I/introspector.py` | the schema cache | `get_schema`, `get_schemas`, `invalidate` | partial hits; overlapping fetches |
| code generation `I/codegen.py` | the files of a package | `write` | files written one by one, over those of an earlier generation |
| test containers `T/` | snapshot files, containers, network | `start`, `cleanup`, `save_snapshot`, `restore_snapshot` | several processes and one cache; cancellation and crashes |
| release gate `scripts/check.py`, `scripts/gate.py` | result files, wheels and their manifest | the checks, `promote` | the tree and the wheels change between and during checks |
| mail, accounting, errors, configuration | none | | left out: see the end |

Interactions: every service works through `OdooClient.call`, which merges the
ambient context, asks the safety guard and hands the request to
`JsonRpcTransport`. A property operation pins its session and context in a
`PropertyScope` and reaches the client through `_call_with_context`. A batch is
preflighted by `patch_each` and handed to `dispatch`.
`OdooTestContainer.start` drives the module manager and the snapshot files. A
page of a feed goes through the field cache. The command line of the
introspection reads schemas with `get_schemas` and writes a package of them.

## Modules

**PropertyDispatch** is `dispatch()` with its workers, an action per stretch
between two suspensions. `caller` is the coroutine that runs `dispatch()`,
`task[w]` a worker, `queue` the shared iterator, `cancelling` the workers whose
`Task.cancel()` is not delivered yet; `started` and `receipts` are the variables
of the code. `TakeNext` is the head of the worker's loop, `Settle` one iteration
of it, `WriteOne` the classification in `write_one`, and `Cancel`, `Drain`,
`Raise`, `CancelAgain` and `Interrupted` are the two ways `gather` is left by an
exception. The server decides on a request at any time after it was posted,
also when its worker is gone.

**PropertyBatch** is what a batch promises: a write is sent at most once, a
verdict is given once and nothing that happens later makes it wrong, nothing is
sent after a cancellation, and the writes released to the caller were never
sent. `PropertyDispatch` implements it under the mapping `fateBar`,
`verdictBar`, `phaseBar`.

**PropertyPatch** is read-merge-write in its five styles, composed with the
batch at its contract (each payload sent at most once, in any order). `Call`
copies the input and, for `refresh=False`, validates it; `update_safely` alone
copies only when its read has returned (`Taken`); `Serve` evaluates a
read on the server, and the answer travels in `reply` while everybody else goes
on; `Refreshed`, `RowsRead` and `Loaded` are the code after the awaits of
`refresh`, `read_rows` and `load_definitions`. Values and kinds are small sets,
the codec is `Accepts` and `TypeOf`. `asked` is a history variable, the mapping a
call was made with. Which styles run, over which inputs and
with how many edits by others, is a constant `Programs`.

**ClientSession** is `OdooClient.call` with the guard and the session kept by
the transport. A call suspends in the confirm callback and in the request; a
login suspends in the request. A session is named by the login that made it,
which stands for the `uuid4` of `authenticate`. **AmbientContext** is
`with_context`: `ambient[t]` is the context variable in task `t`, `token[s]` the
only token of a scope object, and `CreateTask` copies the variable.

**IterSearchRead** is the generator `iter_search_read`. `Fetch` is one page,
`Yield` hands one record over and, when the consumer asks for more, runs the
rest of the loop body; `Change` is what other users do to the matching records
at any time. `throughout` is a history variable: the records that have matched
ever since the iteration began are the ones it must not miss. `limit=0` reaches
Odoo as "no limit" and one record is yielded; the limit property speaks of
positive limits.

**CdcFeed** is the generator `get_feed` with the consumer that resumes it. The
four reads of a page are four actions, between which messages commit and are
deleted. Ids are drawn when rows are inserted and appear at the commit, so that
a lower id may appear late. **FieldCache** is the field cache below it: calls of
several clients look up, fetch and fill one dictionary, and `clear_cache` runs
at any time.

**ModuleInstall** is the module manager and the loop of `start()` around it. A
press of a button ends with an answer, a lock, a refusal, or breaks off with the
server going on (`late`); `Retries` is the `ir_cron` test, `Leave` what
`install_module` and then the container make of an exception, and `Again` the
second try after the wait for Odoo.

**ContainerStart** is `OdooTestContainer.start`, `cleanup` and the harness around
them. `pc` is the await the coroutine is at, and `call` what became of it; a
cancelled await of `asyncio.to_thread` leaves its call in `orphans`, which still
takes effect. **SnapshotCache** is the dump files in the cache directory: workers
are processes, each with a database, a key and a temporary file. They may be killed
between any two steps; `pg_dump` may fail or its call raise; the removal of a file
(`Unlink`) and `os.replace` (`Rename`) may raise, which the code swallows; `left`
counts the temporary files that nobody will touch again. A start whose snapshots the
environment disables is modelled here (`MakeConfig`) and left out of
`ContainerStart`, whose stages it shares but for the saving. The two modules meet at
the awaits "make config", "prepare db" and "save snapshot", each of which is several
steps of `SnapshotCache`.

**TypedRecord** is the life of record objects: read whole or projected, built,
assigned, copied and written, with the conversions of both directions over a few
wire values. **RefResolve** is `client.read` of references: grouping by model, one
read per model, and the order restored. **TimeTracking** is attendance and
timesheets with two clocks (`Skew`), requests carried out after their caller gave
up, and Odoo refusing what it likes. **UrlCache** is the URL dictionary with clients
that are made and collected, calls that overlap, and URLs that change: a call takes
the id of its client, asks, and stores the answer under that id. **SchemaCache** is
the introspector: the models, the fields and the selection values are three answers,
and what is built from them is cached after the last, whatever others have cached
meanwhile. **ModelPackage** is the files `write()` makes and whether Python can
import them (what an import loads is the least set that is closed under imports),
and **ReleaseGate** the checks, their results and `promote`.

**Client**, **Paging**, **Start** and **Components** put components that do not
call one another into one specification, so that one run checks, and one module
of proofs is about, several of them: `Client` is `ClientSession` or
`AmbientContext`, `Paging` is `IterSearchRead` or `CdcFeed`, `Start` is
`ContainerStart` or `ModuleInstall`, and `Components` is one of the seven of the
paragraph above or `FieldCache`. A variable (`part`, in `Components` `component`)
is chosen in the initial state and only the actions of that component run, so the
states are those of a disjoint union and no component constrains another (`Parts`
of the proofs: a behaviour of the union is one of each component). The eight of
`Components` share the variables `v1` to `v8` through their `INSTANCE`s; the proofs
call them by the names they have in the components. For TLC, `MCStart` puts
`SnapshotCache` beside `Start`, and `MCSystem` puts `Client` beside `Components`, in
the same way.

`MC*` modules instantiate these for TLC, and `*Proofs` hold the theorems. Each
definition that stands for code is listed with its lines in `PROJECT.json` under
`map`.

Mutants: operators marked `Mutant:` are what a plausible slip would have made
of the definition that follows them. None is used by a specification; each is
there to show that a property notices it.

## Runs

All runs set `CHECK_DEADLOCK FALSE`: operations end and nothing follows.

| run | shows | bounds, and why they are enough |
|---|---|---|
| `dispatch` | receipts truthful, the cancellation report exact, the contract implemented; a cancelled batch ends although server and callback never answer, an uncancelled one if its awaits end | three records over two workers: one worker must take a second record while the other is suspended, and a record is left undispatched |
| `patch` | preflight is complete, merges are right up to concurrent writers, only what was asked is written, the binding is never drifted | four pairs of operations over two records: two on one binding, of which one or both refresh, with two edits by others; `functions.patch` beside `update_safely_batch`, and `update_safely` beside a bound operation, with one. An edit can come between any read and write, and be undone; one refresh can overtake another; a caller can change its mapping during any read (1.3 million states) |
| `session_default` | the global default safety context is ignored (expected violation) | two users, three calls |
| `paging` | no record and no event is passed over, what a finished iteration or feed owes was delivered, once and in order; within the limit; both end when the server answers and the consumer goes on | `iter_search_read`: four ids, pages of none to two, limits of none to three, two changes: a change falls between any two pages and inside one. `get_feed`: with and without `res_ids`, five events of four messages, one message with two events that a page boundary may split, one deletion, one resumption (370 thousand states) |
| `feed_foreign` | an event of another model is delivered when its message is deleted between two reads (expected violation) | the same events |
| `start` | whatever fails, nothing is left behind unless a thread was abandoned or the daemon refused; a harness handed over is complete; takedown is in order; a failing start, and leaving a harness, end; modules reported installed are; dumps under a key are whole, a warm start gives the database a cold one gives, published dumps do not change, a temporary file is left only where something raised or was killed | all four ways to provide the database, two cancellations, one refused stop; two modules in the loop, three attempts: a lock is retried, broken presses are late. Three workers, two states of the addons, one edit, two faults (kills, and calls that raise): one worker restores while two save the same key, and two files are left (1.4 million states) |
| `start_cancelled` | one cancellation leaves a container or network behind (expected violation) | one cancellation |
| `components` | the eight components and the client, see below | 1.3 million states in all, up to symmetry |
| `own_url` | a client gets the URL of another one's database, with its id (expected violation) | two clients, two ids |
| `own_database` | a feed resolves values by another database's field types (expected violation) | two calls of two clients |
| `schema_fields` | `get_schemas` of two models returns schemas without fields (expected violation) | two models |
| `typed_partial` | a projected record sends a computed field back (expected violation) | one projection |

In `components`: a write of a typed record sends what was meant, over two
objects and every sequence of reads, assignments and copies; references resolve
to the records asked for, up to three of two models with equal ids; one open
attendance, and timers that run until stopped (two tasks, three attendances and
timesheets together, two ticks, Odoo's clock a tick ahead); a client that has asked
gets its own URL (two clients, two ids, two calls at a time, one change of each URL);
a refreshed schema is not older than the call (two calls, two models); a completed
package loads (three models, one of which cannot be named; `MCRelations` has none, one
way, circular, and to the one without a name); a promoted candidate was proven (two
trees; `Together` is the sets of checks that may be under way at once, here each alone:
two checks write results of their own; the theorem is for all such sets without
`package` beside `odoo18`, which needs it to have ended, `.github/workflows/test.yml:82`);
the types a call asked its server about are its own
(two calls of two clients that overlap in a field). In the client, credentials are
paired, scopes pinned, the guard is respected, and calls carry the context of their
blocks: three calls, two users, two logins that may overlap; two tasks and two scope
objects over a common key, blocks three deep, so that a task is created inside a block
that is left while it runs.

The two record objects, tasks, schema calls and URL calls of `components` are the same
two model values, and states that differ by their exchange count as one (`Alike`): no
definition tells them apart, and the run checks no liveness.

## Fairness

`LoopFairness` is weak fairness of what the event loop runs without waiting for
anybody: the caller's own steps, a new task's first step and the delivery of a
cancellation. `AwaitsEnd` adds that a callback answers and a request ends; it
stands for a configured timeout (`C/rpc/transport.py:27` has none by default) and
is assumed only by `BatchEnds`. Safety properties assume no fairness.

`FairSpec` of `IterSearchRead` is weak fairness of `Fetch` and `Yield`, that of
`CdcFeed` of the feed's steps: the server answers, with rows or with an error,
and the consumer goes on asking; neither generator waits for anything else.
That of `ContainerStart` is weak fairness of the calls it awaits, which end in
some way (the daemon calls and polls have timeouts of their own), and of the
code between them; cancellations and failures are never assumed. `Paging` and
`Start` state the same of the actions of the part that runs.

## Proofs

All theorems hold for every value of the constants. Each module of proofs shows
that `IInv` is inductive (one lemma per action, `StepIInv` to join them, and
`Invariance`) and derives the properties from it. Every invariant and every action
property that a run checks is a theorem, and so is the refinement of
`PropertyBatch`.

| module | theorems | what the inductive invariant adds to the properties |
|---|---|---|
| `PropertyDispatchProofs` | types, receipts, report, one post per write, nothing sent after a cancellation, the captured session, complete returns, drained workers, and the refinement of `PropertyBatch` | the iterator has yielded exactly a prefix (`Prefix`), a waiting worker is alone with its record, which has no receipt (`Exclusive`), the posts agree with the fate (`Sent`), every started record has a receipt, a worker or a cancelled worker (`Accounted`), `cancelling` matches the caller's phase (`Phases`) |
| `PropertyPatchProofs` | types, `PreflightComplete`, `OnlyAsked`, `BindingSound`, `MergedAsRead` | a row is what the server had at its version, and still has if the version is the same (`RowOnce`); an answer fits what is awaited (`Answered`); what has been checked by the time of each read (`Vetted`); every payload is the row with the patch over it (`Payload`), and nothing is written before (`WritesPrepared`) |
| `ClientProofs` | `CredentialsPaired`, `ScopePinned`, `GuardRespected`; `CallsInScope` | a login in flight has known credentials (`LoginsKnown`), a call before its guard has sent nothing (`CallsProgress`); a token holds what the blocks outside its own say, the variable what all say (`Contexts`), and no two blocks share a token (`Tokens`): with that no induction over the depth is needed |
| `PagingProofs` | `NoGaps`, `Complete`, `LimitRespected`, `Ascending`; `NoneSkipped`, `FeedComplete`, `OnceInOrder` | what lies behind the cursor was yielded, where the rest of a page is and that a page that is not the last is full, the loop runs while the limit leaves something (`Cursor`, `Page`, `Budget` of `IterSearchRead`); the cursor stands on an event that was there, an event the messages read beforehand leave out came after all of theirs, a page leaves out only events beyond its end, and old ones only when it is full (`Cursor`, `Found`, `Page` of `CdcFeed`) |
| `StartProofs` | `NothingLeftBehind`, `EnteredComplete`, `TakenDownInOrder`; `DoneIsDone` | which resources and orphaned threads there can be at each await, and what the teardown still has before it (`ContainerStart`); every module of the call is in the state asked for or still to come (`NoneLost`), and is reached once its press succeeded (`PressCounts`) |
| `SnapshotCacheProofs` | `DumpsWhole`, `WarmAsCold`, `NoLitter`, `Published` | every file, and every worker's database from the build on, is whole and of its key's addons unless the key is mixed (`Fits`, `FilesFit`, `WorkerFits`); no more files are left than something raised or was killed |
| `ServiceProofs` (lemmas) and `ComponentsProofs` | types, `WritesAsMeant`, `RefsResolved`, `OneOpen`, `TimersRunUntilStopped`, `OwnOnceAsked`, `Refreshed`, `PackageLoads`, `PromotedProven`, `OwnAnswers` | see below |

What the invariants of the components say:

- `TypedRecord`: an object that is no copy has its user set for itself, which names
  what the caller gave (`OwnSets`); its values are those given, and for the rest
  those read (`Values`). That a value read back as sent is the same needs that Odoo
  answers no name of a Python object (`TypedConstants`).
- `RefResolve`: an existing record that is referred to has been fetched, or its model
  is still to be read; no model is left that has been asked (`Collected`).
- `TimeTracking`: requests under way name records that are there (`Requests`); while
  operations do not overlap one task is busy, attendances are in the order of their
  check-ins and none is open when another is asked for (`InTurn`). `max(elapsed, 0.01)`
  is positive under any clocks, so that a stopped timer has hours.
- `UrlCache`: no two living clients have one id (`Lives`); a call in flight is of a
  client that lives, whose id it took, and an answer on its way is good (`Waiting`); under
  the id of a client that lives and was answered stands a URL of its own (`Told`): an
  entry it found there when it was made is no more.
- `SchemaCache`: what a refresh has still to read is not older than it, nor what it has
  read (`Fresh`).
- `ModelPackage`: what a generation has written imports models of that generation
  (`Written`); the models of a complete one are therefore closed under imports, and what
  an import loads lies within them.
- `ReleaseGate`: a check whose tree and wheels nobody touched has tested what it will
  record (`Tested`), and what is recorded as passed is good (`Proven`).
- `FieldCache`: a database has told what it has now, and an answer on its way was told by
  the database it comes from (`Answers`).

Assumptions: `BatchAssumption` is the check `dispatch()` makes; `SessionAssumption`
gives the levels and keeps `None` apart from other values; `IterAssumption` says
that ids are positive and finitely many; `PatchAssumption` and `ServersAssumption`
give the shape of inputs, and say that a binding is made from definitions that have
its aliases, which its constructor checks; `SnapshotAssumption` keeps `None` apart
and bounds edits and faults, and `StartAssumption` says that the bounds are numbers.
`ContextAssumption`, `FeedAssumption` and `CallsAssumption` are the constants of
`AmbientContext`, `CdcFeed` and `ModuleInstall`: the first task is a task, ids are
positive, pages are not empty, jobs have the shape of a call. `ComponentsAssumption`
joins those of the eight: kinds and fields fit, Odoo answers with a blank in dates
and with no name of a Python object, `None` and the other marks are no values,
models are finitely many, relations are among them, and `package` and `odoo18` are
not under way together. TLC evaluates each of them in the runs.

What the proofs found. In the model of `start()`, a call of the teardown that failed
could begin the teardown anew; in the code each has a `suppress` of its own
(`T/container.py:285`), and `Recover` leaves the teardown out now. Invariants that TLC
had passed were not inductive until they said more: that an idle call of the field
cache misses nothing, that a generation writes only models it has read, that `offline`
is never at a step of the wheels, that no check-in lies in the future, and that a
record object that does not exist shares its user set with none.

How a proof step follows the code, by one example: `NoneSkipped` needs to know
that a row committed while a page is under way cannot fall behind the cursor.
`CommitIInv` shows that an event that becomes owed has a higher id than any
committed one (else its message is `late`), and `Cursor` that the cursor is such
an id; so the event lies ahead.

Only model-checked: liveness under fairness (`CancelEnds`, `BatchEnds`,
`IterationReturns`, `FeedEnds`, `TeardownEnds`), which, like `ENABLED`, is out of the
prover's reach, and the seven sentences that the code breaks. Induction over data is
out of reach too, so that what is proved about is written without it: references are
grouped by sets (`IdsOf`, `Targets`, and `IsFirst` for the order of the reads),
and `Loaded` is the least closed set and not a search.

`PostedOnce`, `Drained`, `ReturnComplete`, `NothingSentAfterCancel` and
`SentUnderCapturedSession` of `PropertyDispatch`, and `NoGaps` and `Ascending`
of `IterSearchRead`, are proved and have no run of their own.

## Where code and documents disagree

Seven runs expect a violation; each states a sentence of the repository and finds
it broken by what the code does. `PROJECT.json` quotes both under `findings`.

- `session_default`: the documented global safety default is never consulted.
- `feed_foreign`: an event whose message was deleted between the two reads of a
  page passes the filter on the model.
- `start_cancelled`: a cancellation abandons the thread that brings up a network
  or a container, and what it brings up stays.
- `schema_fields`: a call of `get_schemas` for several models cannot tell whose
  fields it has read, and caches schemas without fields.
- `typed_partial`: the class derived for `fields=[...]` forgets which fields are
  computed, and a write sends them.

- `own_url`: a client that is given the `id()` of one that was collected finds its
  entry in the URL cache; `force_refresh` helps, and so does any call that has asked
  (`OwnOnceAsked`).
- `own_database`: the field cache is shared by the clients of a process, where
  `docs/services/cdc.md:73` speaks of one feed.

One more is stated in its module and has no run of its own: `CircularSafe` of
`ModelPackage` (`I/codegen.py:88` calls circular imports safe; a model that refers to
itself imports itself before its class exists, which TLC finds on the instance of
`components`).

What the properties leave out, because the code does not prevent it: a second
cancellation while a cancelled batch drains ends `dispatch()` without its report
(`interrupted`); a write that meets a concurrent one undoes it, as
`docs/services/properties.md:202` says; what the caller of `update_safely` changes
before its read has returned is written (`Taken`); an event that commits after one with
a higher id was delivered is not delivered (`late`), nor, by a feed that is resumed, one
at or below its `since_id`; a scope object entered again before it was left loses its
first token (`reused`); copies of a typed record share the set of written fields
(`copied`); two overlapping `clock_in` may both check in (`overlapped`); a tree
exchanged during a check and put back is not noticed (`unseen`); an older fetch of a
schema, in flight, puts its entry over a newer or an invalidated one; and `limit=0`.
Addons edited between the hash and the build leave a dump of other addons under the key
(`mixed`); that is an exception although `docs/development.md:47` says that a cache hit
must describe the requested Odoo state.

Two smaller observations, kept in the models as the code has them: a `datetime`
is written with a "T" that Odoo's own format does not have (`ToWire`), and
`_is_ir_cron_error` looks for debug text in an attribute that `OdooRpcError` does
not have, so that locks only told there are not retried (`Retries`).

## Order of the work

The order is by importance: first what writes to a production database, then what
every call depends on, then reading, then tools, and last the components that stand
by themselves. All modules named above are written. Worth having next: compositions
with the steps of both in one run, of `CdcFeed` over `FieldCache` and of
`ContainerStart` over `SnapshotCache`.

## Not modelled

- `C/services/mail`, `C/services/accounting` and most CRUD helpers are single
  calls, or a few in a row, without state of their own; what can go wrong in a
  call is in `ClientSession`. `accounting/functions.py` also does sums over what
  it reads, which its unit tests cover.
- `get_history` is one page of the reads of `get_feed`; `check` and the resolver
  of values keep no state.
- `C/errors.py`, `C/config.py`, `I/type_mapper.py` and `I/cli.py`'s options are
  straight-line classification and parsing.
- The value tables of the property codec are pure; the models know of a
  definition what it accepts and of what type it is. `PropertyBinding.create`
  and `read` change nothing the client keeps.
- `odoo19` of the gate is `odoo18` with another version; the manifest mode is
  part of `promote`; `required` and `resolve` read what CI hands them. The test
  plug-ins and docker seeds are test code and data.
- Seed resolution, HTTP polling and configuration parameters of the containers
  are calls that succeed or fail.
- Inside modelled parts: payloads, messages, logging, the lengths of timeouts
  and file formats. What Odoo, Docker and asyncio do is modelled only as far as
  the code depends on it, and marked external in `map`.
