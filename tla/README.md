# A TLA+ verification of DemumuMind Panel

DemumuMind Panel is an LLM gateway: a FastAPI process that takes requests in the
OpenAI, Anthropic and Gemini protocols, resolves the model to a provider through an
in-memory registry, calls the upstream with one of the provider's keys, caches and
accounts for the answer, and is administered over HTTP and by background jobs. This
directory holds TLA+ modules for the parts of it whose behaviour depends on the order of
steps, TLC runs that check them on small instances, and TLAPS proofs for every instance.

Paths below are relative to the repository (`app/...` is `src/app/...`).

## 1. The system

One uvicorn worker runs one asyncio event loop. Everything that shares memory (the
registry, the key counters, the response cache, the HTTP client) is shared by coroutines
of that loop, so an atomic step of a model is what runs between two awaits that may
suspend; an `await` of a coroutine that never suspends (the cache's methods) is no
boundary. The database is SQLite in WAL mode (30 s `busy_timeout`, foreign keys on) or
PostgreSQL; sessions do not expire their objects on commit.

| Component | State | Operations | Talks to | What is hard |
|---|---|---|---|---|
| Key pool and failover (`services/provider_manager.py` 176-219, `services/failover.py`, `services/dispatch.py` 148-200) | round-robin counter and cooldown per key | `active_keys`, `pick_key`, `mark_key_rate_limited`, `classify`, the retry recursion | upstream | other requests move the counter and mark keys between a call and its answer; the key list is edited during a retry |
| Registry and hot reload (`provider_manager.py` 129-178, 295-400; `services/hot_reload.py`; `main.py` lifespan; admin handlers) | five maps, an `asyncio.Lock`, the last row counts | `load`, `refresh`, every commit of an administrator, polling, Redis events | database | commits between the four reads of a reload; a re-read that fails; a refresh that fails after the commit; restart |
| Response cache (`services/cache.py`) | an `OrderedDict` of 4096 entries, 300 s | `get`, `set`, `get_stream`, `set_stream`, `invalidate` | dispatch | limit, expiry, order of use |
| Dispatch (`services/dispatch.py`, `api/v1/routes.py`) | per request | chat, messages, Gemini, images, streams | all of the above, `finops` | client disconnects in a stream, locked database, exhausted pool, crash between answer and usage row |
| Upstream connection pool (`services/pool.py`) | 64 connections of one httpx client | request, stream, close | upstream | a connection that is not given back |
| Usage accounting (`services/finops.py`, `dispatch.py` 65-130) | `agent_usage` rows | `record_usage`, statistics | database | exactly one row per answer; its price is that of the resolution, minutes old for a long call |
| Model resolution (`provider_manager.py` 101-109, 221-259) | alias map, key mappings | `resolve` | registry | alias collisions, default provider, inactive providers |
| Provider and model administration (`provider_manager.py` 295-384) | rows | insert, update, price | database | uniqueness of the default under concurrent edits |
| Cleanup job (`services/cleanup.py`) | metadata of models, activity flags | one pass every 600 s, or on demand | database, upstream | minutes between read and write |
| Discovery and tests (`services/discovery.py`) | models, metadata, run history | import, probe, test all | database, upstream | the same, and the write lock held through probes |
| Price reconciliation (`provider_manager.py` 386-430) | cost of usage rows | recompute after an edit | database | rows written meanwhile, two overrides at a time, a null price |
| Plugins (`services/plugin_manager.py`) | the loaded instances, rows | upload, invoke | database | the runtime is loaded before the row is committed; invocations load what they read before |
| Protocol translation (`services/translate.py`) | none; the conversation lives in the client | requests and answers between five protocols | dispatch, cache | calls and results keep order, sides and names through two conversions and a change of provider; what of a request the cache key holds |
| MCP gateway, agent types, guardrails, telemetry, authentication | counters or none | | | |

What makes each correct: a request tries every key before it gives up on rate limits and
never more calls than keys; a committed edit is always on its way to the registry; the
cache serves nothing older than its lifetime or made for another key, and evicts the
least recently used; each answer is accounted for once and each connection comes back;
one default provider at most; the jobs neither undo nor lose what an administrator does;
a provider gets the conversation its client holds, and the client the provider's whole
answer to it; a usage row's figures are those of one price, after an override of the price in
force; a plugin that runs is the one that is stored.

## 2. The modules

| Module | Models | Composes |
|---|---|---|
| `Failover` | `failover.py`: the category of a refused call and whether it rotates the key | |
| `KeyPool` | selection of a key, marking, the retry loop, the administrator's edits, the clock | `Failover` |
| `ReadThrough` | abstract: a view of a source that only ever moves to a later state of the source | |
| `Registry` | commits, re-reads, refreshes, polling, Redis events, restart | implements `ReadThrough` |
| `LossyCache` | abstract: a map with lifetimes that may forget | |
| `Service` | abstract: what the routes promise the clients: an answer's origin, its charge, its one end | |
| `ResponseCache` | `CacheService`, both halves of its `OrderedDict`, the clock | implements `LossyCache` |
| `Dispatch` | the routes and the three dispatch functions, streams, usage rows, images, crash | extends `ResponseCache`, implements `Service` |
| `Maintenance` | the cleanup job, discovery with its test, price overrides, the administrator, over SQLite's transactions | |
| `Routing` | the alias map, `resolve`, the default provider, edits and refreshes | |
| `Translate` | `translate.py`: bodies of requests and answers as operators on messages of blocks | |
| `Conversation` | an agent's conversation through cache, translation and provider, with a change of provider | `Translate` |
| `Accounting` | the price of a model and the usage rows of its requests: overrides, reconciliation, imports, requests, retention | |
| `Plugins` | uploads and invocations of a plugin, its row, the runtime | |
| `MC*` | the instances TLC checks | |
| `*Proofs` | the theorems | |

**KeyPool.** `keys` is `active_keys(provider)`, `rr` the round-robin counter, `cooling`
the ticks left of each key's cooldown; a request is idle, has a call on the wire, or has
ended. `Start` is resolve, `pick_key` and the synchronous start of `pool.request`;
`Retry`, `GiveUp`, `Succeed`, `Fault` are what `_do_request` does with the answer without
giving up the loop (a retry's `pick_key` included); `Tick` is the monotonic clock;
`Reconfigure` a refresh with another key list. A body text is reduced to the groups of
hints it contains, which is all `classify` looks at.

**Registry.** A table's contents are represented by the number of commits that changed
it. `CommitOp` is the commit of a handler or of the cleanup with its cascades; `ReRead` its
`session.refresh(row)`; `Acquire`, four `ReadTable` and `Install` are `refresh`;
`FailRead` a read that raises, with what each kind of coroutine makes of it;
`CountProviders`, `CountModels`, `CountFails` one round of `_polling_loop`; `KeyEvent` a
message to `_redis_loop`; `Restart` the death of the process and the whole lifespan. A discovery is
no single commit: `BeginDiscovery`, then an `ImportModel` for each `SAVEPOINT` whose `RELEASE`
commits, then `FinishDiscovery`, the final commit, behind which the only refresh comes. At any of its
awaits it may be given up (`AbandonDiscovery`): its client leaves, or a step raises, and what has been
committed stays without a refresh. `excused` holds the tables whose last commit is one that no refresh
of its author follows: the seed's, that of a request whose own refresh raised, an import of a
discovery that was given up (`Orphaned`). Any later commit to the table takes it out again, so it is no
general pardon: a failed read of the poller or of the listener excuses nothing. On PostgreSQL a
discovery is one transaction: giving it up undoes its imports, which is a `BeginDiscovery` and an
`AbandonDiscovery` here.

**ResponseCache.** `order` and `entry` are the two halves of the `OrderedDict`; an entry
has a text and an age. `Get` and `Set` are the public methods up to the moment they
return; a time-out is exact, `Age` is a second of the clock. Digests are slots.

**Dispatch.** `pc` names the await a request is suspended at. One `Connect` per
request: `KeyPool` shows what happens inside. The cache is asked by the route and again by
the generator of a stream, as in the code. A text is known by its route, its prompt and
whether it is whole: the `finally` clause also caches a stream that broke off. `Close` and `CancelClose` are the `finally`
clause, with the cancellation the server sends when the client is gone. `RowLocked` is one
turn of the retry loop of `_record_db_usage`. Guardrails are left out, since no code
installs a rule.

**Service.** What a client can hold the routes to, without cache, connections or awaits. A request is
submitted, may be answered with a text a provider has written for it or for a request like it
(`Suits`: a text for the same prompt, whatever the prompt for a Gemini question, whose key does not hold it; a
stream's text for a stream and a whole one for everything else), is charged at most once, and ends as answered, failed or lost.
`Write` is a provider's text for a request, `Recall` an older text that suits it, `Settle` its usage row or
that it was given up. `Dispatch` maps its
dozen places to four stages (`Stage`) and reads off its own state what has been written (`Written`).

**Maintenance.** A job is a SQLAlchemy session: `loaded` holds the rows as it has read
them, `mine` the objects as it has changed them. `Commit` writes the columns that differ
(`is_active`, and `meta` as one JSON value), fails if a changed row is gone
(`CommitStale`) or if another transaction holds SQLite's write lock longer than
`busy_timeout` (`CommitLocked`). `writer` is the holder of that lock. `tx` is an
importer's transaction that a failed import has left open: a `SAVEPOINT` outside a
transaction starts one, so `RELEASE` commits the import at once (`InsertAlone`); inside one
it does not (`InsertInside`); rolling back to it after a conflict keeps the lock
(`SkipConflict`), after "database is locked" it leaves a transaction open (`SkipLocked`)
whose first read pins its snapshot and which cannot write once others have committed
(`Doomed`). `Begin`, `Reached`, `Unreachable`, `Probe` and `List` are the awaits of
`run_cleanup`; `Discover`, `MergeModel`, `MissModel`, the inserts, `Imported`, `Test` and
`Tested` those of `discover_and_test_stream`; `Abandon` is its client going away;
`Override`, `AddModel`, `DeleteModel`, `Reactivate` are the administrator's handlers;
`Crash` is the process. `failures` and `unlisted` are history: what has really been
observed of the present row, against what its metadata says.

**Routing.** `AliasMap` is the loop of `_reload`, written as a recursive function of the
number of rows read, `Resolve` is `resolve`. A row of `models` has the number of the edit that
inserted it: the numbers are never used twice, as the UUIDs of the code are not, and their order is
the order in which SQLite returns the rows. `DeleteProvider` takes the provider's models along. `Reset` and `WriteDefault` are the two statements of an edit with
`is_default`; a refresh is `ReadProviders` and `Install`. A name is an alias or a pair of a
provider and an alias; aliases of models may be pairs themselves, as an aggregator's
`openai/gpt-4o` is.

**Translate.** A body is its system text, its messages and the names of its parameters, or
an answer. A text is a sequence of atoms, so joining and dropping texts shows; a message
has a role and blocks (text, image, call, result) in the order in which the protocol puts them,
whichever field holds them. Ids matter: Gemini and Ollama have none, so a call is named
after its function there. `Raises` is the unguarded `json.loads` of a call's arguments. The
operators are the converters one by one; `TranslateRequest` and `TranslateResponse` compose
them as the code does, through the OpenAI form.

**Conversation.** `Say` and `GiveResults` are the client, `ServeHit`, `Send` and `Answer` a
request of `chat_completion` or, for a stream of the OpenAI route, `chat_completion_stream`;
`Reroute` points the model elsewhere. `Prompt` is what `_extract_prompt` makes of the
messages, cut at `PromptLimit`. One client with one request at a time: interleavings at the
cache are the matter of `Dispatch`, so an entry leaves it here only by `Expire`.

**Accounting.** One model. `ReadModel`, `CommitEdit`, `RefreshRegistry`, `LoadRows` and
`WriteRows` are the awaits of `update_model_pricing` in their order; `Written` is SQLAlchemy's
update of the columns that differ from what was loaded, so two overrides can mix in one
row. `FailEdit` is an override that ends with an exception after its commit. `Resolve` and
`InsertRow` are a request, `Inserted` the cost and flags of its row: a known cost of at most
`Negligible`, 1e-6 dollars in the code, makes the row free although the cost is in it. A price has a part per
token and a part per request, either a number, `Null` or `Absent`, which the code tells
apart in two ways (`HasEntry` for the reconciliation, `HasNumber` for the registry). An import
reads and writes the metadata in one step here: what a job's old copy does to an override is
divergence 9, and `Maintenance` is about it.

**Plugins.** `code` is what a handler has received or read, `instance` what the runtime runs,
`table` the row. An upload is `LoadUploaded`, `SelectRow`, `CommitRow`; an invocation
`SelectInvoked` and, if nothing is loaded, `Load` in `Invoke`. A version outside `Good` is a file
that wasmtime cannot instantiate. The signature is checked and the verdict stored, but a file with a bad
one is loaded like any other, so the model has none.

Definitions introduced by a comment that begins with "Variant" are faulty versions of the
definition below them. No specification uses them: each was put in the place of its
original once, to confirm that the property it threatens then fails.

## 3. The runs

| Run | Expect | Shows |
|---|---|---|
| `keypool` | pass | `AttemptsBounded`, `NoRepeatWhenLimited`, `LimitedMeansAllTried`, `CallsUseReadyKeys`, `Balanced`, types |
| `registry` | pass | `StaleOnlyWhilePending`, `ReadYourWrite`, `ImplementsReadThrough`, types |
| `registry_live` | pass | `FreshAgain`, `PollingRepairs` |
| `cache` | pass | `EvictsLeastRecent`, `ImplementsLossyCache`, types |
| `dispatch` | pass | `UsageAccounted`, `ConnectionsReturned`, `AnswersKeptApart`, `EveryRequestEnds`, `ImplementsService`, types |
| `dispatch_refusal` | violation of `RefusalsAreHandled` | a refused stream keeps its connection |
| `maintenance` | pass | `DeactivationEarned`, `NeverReactivated`, `ManualRespected`, types |
| `routing` | pass | `AtMostOneDefault`, `RoutesAsDocumented`, `RoutesAreSticky`, types |
| `conversation` | pass | `RequestArrives`, `ResultsNameCalls`, `CallsAnsweredAtOnce`, `AnswersArrive`, `AnswersOwnHistory`, types |
| `conversation_echo` | violation of `AnswersTheHistory` | an Anthropic client that sends the results of a call is answered from the cache with that call |
| `accounting` | pass | `RowsCarryThePrice`, `OnePrice`, types |
| `plugins` | pass | `RunsWhatIsStored`, types |

**Bounds and why they are enough.** `keypool`: two requests on lists of 0, 1 and 3 keys,
one with a key entered twice; two requests are what it takes for one to move the
counter between the other's pick and retry, three keys for a retry to skip one, a cooldown
of two ticks for it to end between calls. `registry`: two administrators and the poller,
three commits or restarts, one failing read: a commit between the reads of one
reload with a second reload queued behind the lock, a deletion that breaks a re-read, and a discovery
with two imports and another's commit between them, given up or not. Administrators are interchangeable,
hence the symmetry, which the liveness run does without.
`registry_live`: one administrator, who may run a discovery, the poller and a listener; two commits. `cache`: four slots for
three places (a full cache, and a key outside it), lifetime two. `dispatch`: two requests
for one connection and one cache place, so that each can exhaust the pool and evict the
other's entry; every route, a second prompt, an uncached stream; one chunk; one
crash. `maintenance`: two jobs are started out of two cleanups, a discovery and an
override, so that every pair of them overlaps, on two models of which one is not there at
first; the threshold is two (three in the code) and the first row is one failure short of it, and
either marked or with a manual price, so that one pass is enough to reach it and two can count past
each other; there are two manual prices, for an override to replace another's; one model
may be inserted by hand.
`routing`: five edits by two administrators on two providers and two model rows, with one
plain alias and the aliases that can collide with explicit names, and a key that maps
two names: what it takes for two aliases to change hands while a default changes. `conversation`: every
pair of a client's and a provider's protocol, four sets of parameters, three requests (a question,
the results of its calls, what comes after) and one change of provider between them; a model
answers with a text, a call, two calls of one function, a text and a call, or arguments that
broke off; the prompt holds four atoms, fewer than a conversation has. `accounting`: two overrides
out of four bodies (one of them with a null price), two requests of every kind (paid, reported, cached), one
import, removed row or crash; two overrides are what it takes to meet. One cost is negligible, the
others are not. `plugins`: four uploads,
two at a time, two versions that load and one that does not, an invocation at any time, one crash. In every module the counters that grow (commits, failures, chunks, crashes) are
capped by a constant named in the guard; `locked` stops at four by the code itself.
Deadlock is not checked where requests are served once and the behaviour ends with them;
in `cache` it is checked.

**Fairness.** `registry_live`: the event loop runs every coroutine that can go on (weak
fairness of `ReadTable`, `Install`, `ReRead`, the poller's counts); an `asyncio.Lock`
wakes its waiters first come, first served, so a waiting coroutine gets a lock that is
released again and again (strong fairness of `Acquire`); the poller sleeps for a bounded time; a
discovery ends, with its refresh or without, since its listing is finite, its probes time out after 30 s
and its client reads the events or leaves. No
administrator, Redis event, failing read or crash is obliged to happen. `dispatch`: each
await of a request ends, by httpx's 30 s timeouts for connections and chunks and by
SQLite's `busy_timeout`; an upstream stream is finite (`MaxChunks`).

## 4. The proofs

All theorems hold for every value of the constants that meets the modules' named
assumptions: any number of requests, keys, coroutines, slots, any bounds. The only
assumptions are those (distinct model values, natural bounds, nonzero cooldown and limit).

* `KeyPoolProofs`: `TypeCorrect`, `FailoverEnds` (`AttemptsBounded`), `NeverTwice`
  (`NoRepeatWhenLimited`), `CallsAreReady`, `AllKeysTried`. The invariant says, besides
  the properties, that a *calm* request (nothing but its own 429s has touched its choice)
  has marked every key it tried but the one on the wire: only then is the next pick, which takes
  a ready key if there is one, a new key. The last theorem is a count: distinct tried
  keys, as many as the list has, all from the list, are all of it. The arithmetic of the
  scan (its positions are a bijection of the list) is a lemma of its own. `RoundRobinIsFair`
  (`Balanced`) needs that nothing cools down before the first retry, so that every first call
  takes the key after the last one: then the keys before the counter are exactly one call ahead
  of the others, and the set of requests that have called with a key is finite, although that
  of all requests need not be.
* `RegistryProofs`: `TypeCorrect`, `NoUpdateLost` (`StaleOnlyWhilePending`),
  `OwnWritesSeen` (`ReadYourWrite`), `RegistryImplementsReadThrough`. The invariant adds
  that the coroutine that holds the lock is the one that reads, and that no other has read
  anything (`LockInv`); and that each table is between the registry and the database, in
  every snapshot that waits to be installed too (`OrderInv`), so that installing never
  goes back. `StaleOnlyWhilePending` then follows from `OwnerInv`, which says who is going to do it:
  the author of the last commit to a stale table that is not excused still owes its refresh. A coroutine
  ceases to owe only by installing, by another's later commit, or by an end that excuses exactly the tables
  it leaves behind; one whose re-read fails owes nothing, for the deletion that caused it is a later
  commit to the same table. `OwnWritesSeen` needs that
  what a coroutine has committed is not newer than what it reads afterwards.
* `DispatchProofs`, first part, about `ResponseCache`: `TypeCorrect`, `HalvesAgree` (`Consistent`, which every other
  property of the cache rests on and no run checks by itself),
  `LeastRecentGoes` (`EvictsLeastRecent`), `CacheImplementsLossyCache`. The invariant is `Consistent`, ages
  within the lifetime of what can be served, and the ghost `older`, which relates the
  order of the list to the order of use.
* `AccountingProofs`: `TypeCorrect`, `RowsHaveOnePrice` (`OnePrice`), `OverridesReachTheRows`
  (`RowsCarryThePrice`), so all that its run checks. For the first two the invariant says
  that every price somebody holds is one the model has had, that selected rows
  are well formed, and that a row still to be inserted has not been reconciled. For the third: an override that has met no other is alone between its
  commit and its end, and the price in force is its own (`MineInv`; no import can come after
  it, since an override marks the metadata as manual); what it has selected is what the table
  holds, and rows inserted since have its figures or are late (`SelectedInv`); while no
  override is under way and nothing is unsettled every row has the figures in force
  (`SettledInv`). Reconciling twice is reconciling once.
* `PluginsProofs`: `TypeCorrect`, `WhatIsStoredRuns` (`RunsWhatIsStored`). The invariant
  relates the version each handler carries to the row and the runtime, by where it
  stands, for an upload that is alone.
* `RoutingProofs`: `TypeCorrect`, `DefaultIsUnique` (`AtMostOneDefault`), `DocumentedRoutes`
  (`RoutesAsDocumented`), `StickyRoutes` (`RoutesAreSticky`), so all that its run checks. For the
  default the invariant is the property without the count, beside the settings about to be
  written: a commit with `is_default` clears all other rows in its own transaction, and no other edit
  makes a default. For the routes `AliasMapFinds` says in one formula what the loop has found
  after n rows: the first favoured row that serves the alias, or else the first that serves it. That
  the formula satisfies the loop's equation shows that the recursive function exists; that
  there is no least n at which another solution differs shows that it is this one. `StickyRoutes` needs
  the order of the rows besides (`Kept`): a row that the registry does not know is younger than all
  that it knows, so it cannot take a name over from them.
* `DispatchProofs`, second part, about `Dispatch`: `DispatchTypeCorrect`, `EveryAnswerAccounted` (`UsageAccounted`),
  `ConnectionsComeBack` (`ConnectionsReturned`), `AnswersStayApart` (`AnswersKeptApart`). The
  invariant says of each request, by the place where it stands (`Sound`), which requests get there,
  how many rows there are, whether it may hold a connection, and whether it has a text and which;
  of each slot of the cache (`Kept`), that what it holds fits every request whose key it is; and,
  from the first part, that the two halves of the cache agree, so that what is looked up is
  what was kept. A text enters the cache only from a request it fits, which is what ties the two.
  `SharedCacheIsLossyCache`: every step of a request, of the clock or of a crash is, for the cache,
  a step of `ResponseCache` or a loss of all it holds, so that the cache the requests share still
  implements `LossyCache`; `StepPromise` of the first part does the rest.
  `RoutesKeepTheContract`: every step of the routes is one of `Service` or none. For it the
  invariant is extended by `Told`: a provider has written whatever the cache holds for some request, at
  least as far as it goes (`Backed`), and the place of a request says whether a provider
  has been at work for it, whose text is then the one written for it (`Source`). That text is still on record when the entry
  is read, since what has been written for a request stays so after its end and in a crash.
* `MaintenanceProofs`: `TypeCorrect`, `DeactivationIsEarned` (`DeactivationEarned`),
  `DeactivatedStaysSo` (`NeverReactivated`), `ManualIsRespected` (`ManualRespected`), so all that
  its run checks. The invariant says that the marks of a row, and those of every copy a session has
  of it, are backed by what has been observed of that row (`RowOK`, `CopyOK`); that a copy's
  activity and manual price are those it was read with, unless both criteria have been met; and that a
  row inserted by an open transaction is known to its job alone (`NewOK`). A copy may outlive its row,
  and the model may get another one: what is said of copies holds while the row with their id is there.

* `ConversationProofs`: `TypesHold`, `RequestsArrive` (`RequestArrives`), `ResultsFollowCalls`
  (`ResultsNameCalls`), `CallsAreAnswered` (`CallsAnsweredAtOnce`), `AnswersReachClients`
  (`AnswersArrive`), `HitsAreOwn` (`AnswersOwnHistory`), so all that its run checks, for conversations of any
  length. The argument goes from the small to the large. What clients and models say takes a few
  forms (`Asks`, `Replies`, `Hands`, `Reminds`), and so do their messages (`FormsOf`); what
  becomes of a message on its way into OpenAI's form (`Inward`) and out of it (`ForProvider`) is found
  form by form. A request is the map of its history under the two (`Mid`, `Sent`), so
  what is kept by a message (its content and the side that said it, its calls and results, its ids)
  is kept by a history. The invariant says that the history consists of such messages and
  is in order by itself: its results name calls before them (`Names`), and it is `Settled`, every call
  answered directly behind its message both as it stands and in OpenAI's form, up to the last message,
  which the model may have just said (`Waiting`, `Told`). With these and what is in flight being made
  of the history (`Underway`, `InFlight`) and answers in the cache being of the model's forms (`CacheGood`) the
  invariant is inductive. `HitsAreOwn` needs a second one (`Owns`): every entry was made from a
  beginning of the history. The last message of a history that asks is the client's and shows the
  key some text, so a shorter beginning has a shorter prompt and another key.

  The prover cannot instantiate induction theorems over predicates. `FlattenSeq`, on which all
  conversions rest, is instead characterised by induction over *sets* of naturals
  (`Induction`, from well-foundedness, which the library states for relations and sets): its value at the empty
  sequence, at one element and at a concatenation. Everything else is derived from these three.
  `SelectSeq` is built into the prover without a definition, which is why `Translate` selects with `Keep`, its
  equivalent by `FlatMap`.

Two properties were stated too strongly until their proofs were tried, and hold now that
they say what the code does: a manual price may also be replaced by one that a job has read earlier
(`ManualRespected`), and a model that is deleted and added again between two refreshes is a new row,
behind those it was in front of (`RoutesAreSticky`).

Only model-checked: liveness under fairness (`FreshAgain`, `PollingRepairs`, `EveryRequestEnds`),
which is out of the prover's reach; and the violated properties, whose counterexamples are
behaviours of the code. All other properties of the runs, the invariants, the action properties and the three
refinements, are proved.

## 5. Divergences between the code and its documentation

1. `provider_manager.py:196`, "offset is used for retry (next key)": with an even number of
   keys the offset cancels the advance of the counter.
2. `provider_manager.py:3-5`, "refreshed ... after every insert": not after
   `POST /v1/admin/seed`, not after the imports of a discovery whose client leaves or that raises
   before its end (`discovery.py` 546-574), and polling compares row counts only.
3. `cache.py:3`, the key contains the prompt: only the texts of `messages`, up to 8000
   characters; not the tool results of an Anthropic client (run `conversation_echo`), not images,
   nothing of a Gemini body.
4. `dispatch.py:5-6`, "errors are AppError/UpstreamError values": a refused stream raises
   `httpx.ResponseNotRead` and its connection is not closed (run `dispatch_refusal`).
5. The cache key holds no protocol: `/v1/messages` may be answered with an OpenAI-shaped
   body (`docs/harness-integration.md:105`).
6. `dispatch.py:387`, "the final SSE chunk": the first usage object of the stream is used.
7. `dispatch.py:318`, usage rows "not silently dropped": given up after four attempts.
8. `finops.py:5`, `docs/harness-integration.md:154`, budgets: nothing calls `check_budget`.
9. `discovery.py:319`, a manual price "is never overwritten": the merge looks at the job's
   own copy, and a commit writes the whole column.
10. `cleanup.py:66`, premium models "are NEVER deactivated": one that a concurrent test
   finds premium is not spared by a cleanup that read it earlier.
11. `cleanup.py:131`, API keys are deactivated "if no usage": usage is recorded under the
   caller's agent type, never under the name that is counted, so every old key is.
12. `docs/provider-setup.md:63`, "provider-name/alias" targets a provider: not if some model
   has that string as its alias.
13. The same line, "the first active match": an alias whose owner belongs to an inactive
   provider resolves to nothing, although another provider serves it.
14. `translate.py:783-786`, a response "re-emitted in the target protocol", "every (src, dst)
   pair": the second half uses the converters of requests, so an Anthropic or Gemini client of
   a provider of another protocol gets no text and no call.
15. `translate.py:3`, "never raise": the arguments of a call are parsed unguarded.
16. `cache.py:4`, the key holds the temperature: not Gemini's, which is in `generationConfig`.
17. `docs/harness-integration.md:105`, `/v1/messages` is translated: with `stream` true the
   route reads the events as one JSON document and fails; on the chat route the events of
   another protocol are passed on as they are.
18. `docs/provider-setup.md:89`, after an override "existing usage rows are reconciled": not if a
   price is null (the recomputation raises after the commit), not the row of a request
   resolved before; and reported costs and cached answers get a computed price.
19. `dispatch.py:112`, "Free models always cost $0": a request of a priced model that costs at most
   1e-6 dollars is recorded as free, with that cost (`dispatch.py` 274, 414); and a row that two overlapping
   overrides update can end free and with any cost.
20. `plugin_manager.py:3-4`, the table as single source of truth: an upload is loaded before it is
   committed, and a file that does not load replaces the row but not what runs.

`Maintenance` and `Routing` describe the SQLite deployment. On PostgreSQL two concurrent
inserts with `is_default` do not see each other's row, so both may remain; and a
`SELECT` without an order may return the models in another order after an update.

## 6. What is not modelled, and the plan

Not modelled, and why:

* **Statistics and budgets of usage**: aggregates over rows that no state of the program
  depends on; `load_budgets` and `check_budget` have no caller.
* **Agent types, guardrails**: no code in the program calls or fills them.
* **Groups**: only the seed creates one, the default group; a cleanup deletes it while no key is
  in it, the next start creates it again, and no request looks at groups.
* **MCP gateway, authentication, HTTP layer**: stateless; one read of a row and one call.
* **Telemetry**: counters that nothing reads back. **Migrations**: run once, before all else.
* **Parsing and formatting**: of listings, SSE chunks, URLs and tool schemas; a listing is a set
  of names, a chunk a step, a schema the name of a parameter. The history of test runs is
  capped and only shown.
* **Signatures of plugins**: `WasmtimeRuntime.load` computes the verdict, stores it and loads the file
  whatever it is, so no behaviour depends on it (though `plugin_manager.py:4-6` makes execution
  depend on a configured public key).
* **Chat requests for a model of kind `image`**: `chat_completion` passes them on to `image_generation`
  (`dispatch.py` 220-231), which `Dispatch` has only as its own route.
* **Exceptions between `cache.set` and the usage row**: an answer whose token counts are `null` makes
  `_tokens_from` raise after the answer was cached, so that the answer is kept and has no row; `Dispatch` has no
  such end of a request.
* **Web panel and harness**: clients of the API without state that the server depends on.
* **Idle keys in a cleanup**: deactivated by a query in the same transaction, whose one surprise is
  divergence 11; the retention of usage rows is `RemoveRow` of `Accounting`.
* **Probes of the jobs on the connection pool**: plain requests of the same
  client, as those of `Dispatch`, where an exhausted pool and its time-outs are shown.

The plan is done: the safety properties and the refinements of all modules are proved. What could be
added, most important first:

1. The addresses of providers in `KeyPool`: a retry takes a fresh key but keeps the address it was
   resolved to (`dispatch.py` 142).
2. Answers cached for a model that is re-pointed or re-priced within their lifetime (`cache.py` 128),
   which needs the registry beside `Dispatch`.
