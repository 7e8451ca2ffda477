# Formal model of spotify-api

TLA+ models, TLC configurations and TLAPS proofs for the service in
`src/spotify_api`: an HTTP façade that plays, searches and looks things up at
Spotify on behalf of people whose credentials a second service (keyring) holds
and whose preferences a third (settings-api) holds.

To run everything, in this directory:

    tlc -workers 2 -config MCJobRunner.cfg MCJobRunner     # and the other cfgs
    for m in Induction.tla *Proofs.tla; do tlapm $m; done

`PROJECT.json` lists the runs with the properties each checks, the lines of
source each definition models, the faulty variants that show that each property
can fail, the findings, the hazards and the theorems.

## 1. The system

The program is one asyncio event loop. Nothing preempts a coroutine: state can
change only where a coroutine awaits something that really suspends. All state
is in memory and dies with the process, so there is no crash recovery to model.
What makes the code hard is therefore the order in which handlers, background
tasks, callbacks and timers run between their awaits, what Spotify and keyring
answer, and the clock.

| Component | Source | State | Operations | What is hard |
|---|---|---|---|---|
| Job store | `jobs/store.py`, `jobs/models.py` | dict of jobs; dict of one `asyncio.Event` per job; TTL | create, get, list, start, finish, fail, cancel, record_attempt, wait_for_terminal, reaping in every read and create | Events looked up before an await and set after it; reaping while a job runs or is waited for; ownership on every path |
| Job runner | `jobs/runner.py` | dict of strong references to tasks | submit, cancel, shutdown, `_run`, done callback | a task is created, marked for cancelling, ended and dropped in four different turns of the loop |
| Job endpoints | `api/routes/jobs.py`, `api/asynchrony.py`, `models/jobs.py` | none | GET (with long polling), list, DELETE, 202 | a long poll spans every other operation |
| Configuration, entry point | `config.py`, `__main__.py` | the settings, read once | get_settings | names, ranges, blanks and a pair that stand or fall together: a mistake must stop the start, not become a default |
| Lifespan | `app.py` | the object graph, three HTTP clients | start, shutdown, closing | shutdown meets jobs in every state; an exception on the way down |
| Credential cache | `credentials/` | entries and locks per user token and profile | resolve, invalidate, check_health | double-checked locking over two awaits, invalidation during a fetch, cancellation in the queue, lifetime arithmetic |
| Spotify client | `spotify/client.py` | none but loop variables | request, search helpers, explicit_among | one re-authentication and a retry budget in one loop with three exits |
| Playback commands | `jobs/confirm.py`, `spotify/resources/player.py`, `api/routes/player.py` | loop variables: deadline, last state seen | play, pause, resume, next, previous, seek, volume, shuffle, repeat, queue, transfer | the player is shared with people and devices; confirmation polls against a deadline; a play is up to four requests and two confirmations |
| Preferences | `preferences.py` | none (read per request) | for_token, narrowing of caps, shuffle_for, repeat_for, explicit_allowed | read twice when the caller names no profile; partial failures |
| Batch resolver | `spotify/resolver.py`, `api/routes/lookup.py` | a semaphore per batch | resolve | gather, one failure among many, work left running, cancellation while some wait for a permit |
| Token verification | `api/dependencies.py`, `context.py` | none | get_user_context | two headers, three answers from keyring, then two reads of settings |
| Error mapping | `errors.py`, `api/errors.py` | none | upstream answer to error to status, problem documents | totality; one name for a failure in a request and in a job; the exception nobody foresaw |
| Logging and middleware | `logging.py`, `api/middleware.py`, `context.py` | two context variables per task | bind, set, redact, record | a request runs in two tasks and its job in a third, each with a copy of the context |
| Health endpoints | `api/routes/health.py` | none | /healthy, /ready | none |
| Mappers, queries, request and response models | the rest | none | pure functions, validation | unit tests reach them |

How they interact: a route takes a verified token and a `UserContext`, reads
preferences where they matter, and builds a `work()` closure. Without
`?async=true` the handler awaits it; with it the closure goes to
`JobRunner.submit`, the caller gets a 202 and polls the job endpoints. `work()`
is a playback command or a lookup; it calls `PlayerResource`, which calls
`SpotifyClient.request`, which asks the credential cache, which asks keyring.
Coroutines share state in exactly two places, the job store with its runner and
the credential cache; they share the player indirectly, through Spotify.

What makes each component correct:

- *Jobs*: an accepted job settles or ages out and never hangs; a waiter is woken
  when, and only when, its job settles or goes; cancelling stops the work and
  is not overwritten by a late result (by a late failure it may be, section 4);
  nobody sees or stops a job of another account; tasks are neither collected
  while running nor kept for ever.
- *Credentials*: a request carries the credential of its own user and profile;
  the lock of a key is always handed on; nothing is used past its life.
- *Client*: the number of requests is bounded, every request ends.
- *Playback*: success is answered only with a state that shows all that was
  asked, failure only after the whole time; explicit tracks never reach a
  person who has not allowed them; every command ends.
- *Request context*: a request runs as the account of the one token that was
  verified, on settings that were resolved for a profile; what must not be
  guessed is not; a person's settings only narrow what the deployment allows.
- *Traces*: every answer and record names its own request, and the account once
  it is known, wherever it is written from; none shows a secret.
- *Failures*: one name each, a status that tells the remedy, and no quotation of
  what nobody foresaw.
- *Process*: it starts only as its operator wrote; it stops after its requests,
  without waiting for its jobs, and closes what it opened.
- *Batches*: an item's failure is its own result, a request's failure fails the
  batch; permits add up however lookups end; explicit tracks are passed over
  for those who refuse them; no lookup is left behind.

## 2. Modules

| Module | Models | Built on |
|---|---|---|
| `JobStore` | the store: one operator per method | |
| `JobRunner` | runner, handlers, lifespan: the state machine of background jobs | `JobStore` |
| `JobContract` | abstract: the life of a job as a client sees it | |
| `JobRunnerProofs` | proofs about `JobRunner`, with that it implements `JobContract` | `JobRunner` |
| `CredentialCache` | keyring credential provider with its locks | |
| `SpotifyClient` | `request()` of several coroutines over one cache | `CredentialCache` |
| `SpotifyClientProofs` | proofs about cache and client | `SpotifyClient` |
| `PlaybackCommand` | one playback command from handler to last confirmation | |
| `PlaybackCommandProofs` | proofs about `PlaybackCommand` | `PlaybackCommand` |
| `RequestContext` | one request from its headers to its preferences | |
| `RequestContextProofs` | proofs about `RequestContext` | `RequestContext` |
| `BatchResolver` | one batch lookup: handler, tasks, semaphore, gather | |
| `BatchResolverProofs` | proofs about `BatchResolver` | `BatchResolver`, `Induction` |
| `Configuration` | environment to settings, or to a refusal; pure | |
| `Failures` | upstream answer to error to status; pure | |
| `RequestTrace` | a request's three tasks: contexts, answer, job record, log records | `Failures` |
| `RequestTraceProofs` | lemmas: what each step of a request keeps, what the redactor stops | `RequestTrace`, `Induction` |
| `Service` | the process from environment to exit, around the requests | `Configuration`, `RequestTrace` |
| `ServiceProofs` | proofs about `Service` and the requests in it | `Service`, `RequestTraceProofs` |
| `Induction` | induction over the naturals as a fact about sets | |
| `MC*` | instances for TLC | |

Modules contain a few operators that are named for what they get wrong
(`ExpiredOneLate`, `NeverRelease`, `WaitForADevice`, ...). Each stands before the
definition it is a faulty variant of. Nothing uses them; replacing the real
definition by one of them makes TLC violate the property it is paired with in
`PROJECT.json`, which shows that the property has something to say.

### Jobs: `JobStore`, `JobRunner`

| Variable | Code |
|---|---|
| `jobs` | `InMemoryJobStore._jobs`; absent keys map to `NoJob` |
| `settled`, `fired` | the keys of `_settled`; the jobs whose Event has been set, including Events already dropped from the dict, because a waiter keeps its own reference |
| `task` | `none`, `created`, `working` (suspended in `work()`), `finished` (ended, callback pending), `done` |
| `tasks` | the keys of `JobRunner._tasks` |
| `cancelling` | tasks with a pending `Task.cancel()` |
| `waiter` | open long polls: job, account, deadline |
| `reply` | the answer given in this step, so that invariants can speak of answers |
| `phase` | `serving`; `closed` or `aborted` after `shutdown()` |
| `now` | `time.monotonic()` in ticks |

- The store has an `asyncio.Lock`, but no method awaits anything while holding
  it. It is never contended and every method is one step.
- A handler that only calls the store is one step; a long poll is `WaitBegin`
  and `WaitReturn` with anything in between; a task is `TaskStart`, then
  `WorkSucceeds`, `WorkFails` or `TaskCancelled`, then `DoneCallback`.
- `WaitReturn` is enabled by the Event or by the deadline and then reads the
  job afresh, as the code does.
- `Task.cancel()` marks; the mark takes effect when the task next runs. A task
  that never started ends before its first line, and a marked one never comes to
  record a result (`MayRun` guards `TaskStart` and `WorkSucceeds`). It may still
  record a failure (`WorkFails` has no such guard): a lookup job awaits
  `asyncio.gather`, and when one of its lookups has raised and the callback that
  tells `gather` is still queued, `task.cancel()` reaches the other lookups and
  reports success, but what the job is resumed with is the failure. `_run`
  passes it to `store.fail`, which does not look at the status it replaces. The
  kinds of job are not told apart, so the model allows this to any job.
- `Shutdown` goes through the tasks in the order of submission and stops at the
  first job that is no longer in the store, because `store.cancel` raises and
  nothing catches it.
- The clock does not move inside a step.

Assumed of the environment: `work()` does not swallow `CancelledError` (no code
under it does); uvicorn answers open requests before it runs the lifespan's
shutdown, with no time limit configured, so `Shutdown` requires that no long
poll is open. After `Shutdown` the loop may still run tasks; the end of the
process itself is not modelled.

`JobContract` is the promise to API clients: *unborn, pending, running, one of
three endings, gone*, one visible change at a time. `JobRunner` refines it with
`status` = the stored status (or *unborn* before submission and *gone* after
reaping), `outcome` = what the record carries, `busy` = the jobs whose task is
suspended in its work, and `open` = serving. The contract states the code's two
exceptions where a reader will look for them: a job that was cancelled while its
work was under way may turn to failed until that work has come to rest
(`Overturn`, only while `busy`), and closing may rewrite settled jobs to
cancelled (`Close`). Section 4 says which sentences of the repository each
contradicts.

### Credentials and requests: `CredentialCache`, `SpotifyClient`

| Variable | Code |
|---|---|
| `cache` | `_cache`: whose credential, its real expiry, `expires_at` |
| `holder`, `queue` | the `asyncio.Lock` of each key and its waiters, first come first served |
| `outrun` | history only: the fetch in flight was asked before an `invalidate` |
| `call` | a coroutine in `request()`: where it is suspended, its context, `attempt`, `reauthenticated`, requests sent |

`resolve()` is cut at its two awaits: up to the lock (`Resolve`, part of
`Begin`, `WakeUp` and `FirstUnauthorized`), from the lock to the fetch
(`Granted`, with the second look at the cache), and from keyring's answer to
the request (`FetchSucceeds`, `FetchFails`). A newcomer queues behind a woken
waiter that has not run yet, as in `asyncio.Lock`. `Cancel` may come at every
await. Answers from Spotify fall into four classes: accepted, first 401,
refused for good, worth a retry.

A coroutine that has finished can `Begin` again for anyone, so three calls
stand for any sequence of requests of which three overlap.

### Playback: `PlaybackCommand`

One command: preferences applied (`Wanted`), the explicit check, the read that
precedes a skip, the command, the confirmation loop, and for a play with modes
the shuffle and repeat requests and a second confirmation. The player is not a
variable: each poll may find any state, or nothing, or fail. That covers
everything that other people, devices, other commands and time can do to a
player, so one command stands for all and nothing is assumed of Spotify.

Spotify's side of the command itself is kept. `AnswerLost` is an attempt whose
connection broke or that was answered with a 5xx: Spotify may have carried it
out all the same, and `request()` sends it again while the budget lasts,
whatever its method. `took` counts how often the command was carried out; a PUT
repeated leaves what it left before (`Repeats`), a POST is one more skip or one
more entry in the queue.

`observed` is what the confirmation under way remembers; `shown` (history) is
what Spotify last showed the command, over both confirmations of a play, and
`fresh` whether it showed it to this one. A poll that erases, or a second
confirmation that answers with what the first one saw, is noticed.

Every command may name a device (`request.device`) and the player plays on one.
`addressed` (history) collects the devices that the accepted requests went to.
The modes of a play go to the device the play went to; no predicate but that of
a transfer looks at the device, so the state that confirms the play may be that
of another one. The properties say no more than that.

Abstractions: shuffle, repeat, volume and position are *dials*
with a value (a position within the tolerance is the same value); tracks are
model values and some are explicit; bodies, parameters and parsing are left
out. `left` and `nap` are the time to the deadline and to the next poll.

### Before the handler: `RequestContext`

`get_user_context` cut at its awaits: keyring's keys (`Verified`, `NotVerified`,
`KeysUnreachable`), the first resolve of settings-api (`Read`) and, when the
request names no profile, the second (`Reread`); either may end in an outage or
a refusal. `Answer` is the set of what a resolve may answer, and each read picks
any of it: the person may have changed a setting in between, and the client
library may answer from caches of different ages. `resolved`, `source` and
`asked` are history: which answer the preferences were made from, and for which
profile it was asked. Pure parts are operators: `Presented` (which header
counts), `Narrowed`, `Market`, `Explicit`, `DefaultProfile` and `Applied`. A
setting is present, missing, refused or of the wrong shape; numbers, market
codes and profiles are small sets. `PlaybackCommand` and `BatchResolver` take
preferences as given (`Person`, and the `cap` and `explicit` of `Begin`).

### Batches: `BatchResolver`

| Variable | Code |
|---|---|
| `at` | the handler, or the job that runs `work()` |
| `stage` | the task of each item: `created`, `queued` for a permit, `woken` with one, `searching`, then `returned`, `raised` or `cancelled` |
| `marked` | tasks with a pending `Task.cancel()` |
| `free` | `Semaphore._value` |
| `outer`, `mark` | the future of `gather()`; a pending cancel of its caller |
| `outcome`, `result` | what the search came to (history); the `LookupResult` |

The tasks of one `gather()` are neighbours in the event loop's queue, so `Start`
starts them all: the first `Permits` search and the others queue. From then on
nobody asks for a permit, which is why the semaphore needs no more than a
counter and the order of the items. A released permit belongs to the waiter that
is woken before that waiter runs (`Leave`). `gather` settles on the first task
that raised or was cancelled and leaves the others running (`Gathered`); being
cancelled itself, it cancels every task that is left unless it has settled
already (`Cancel`). A search is one step here; what it does inside is
`SpotifyClient`.

### The process and what it says: `Configuration`, `Failures`, `RequestTrace`, `Service`

| Variable | Code |
|---|---|
| `phase` | before `main()`, refused, built, serving, draining (uvicorn was told to stop), closing or aborting (the lifespan after its `yield`), stopped or aborted |
| `environ`, `settings` | the environment; `get_settings()`: the settings that were given |
| `open` | the HTTP clients: keyring's keys, settings-api (`preferences`), the shared one |
| `request` | the stage a request is in; the id it brought; history: the account that was verified and what became of its work |
| `context` | the two context variables in each of a request's three tasks |
| `answer` | status, problem type, the id in header and body, whether it quotes |
| `job` | the task and the record of the job that a request left behind |

`BaseHTTPMiddleware` runs the application in a task of its own, so a request is
an outer task (the middleware) and an inner one, and its job a third. A task
starts with a copy of its creator's context (`Arrive`, `Submit`); what it binds
later, its creator never sees (`Verified`). `Records` is what each task may
write next, with the id and account its own context holds. Nothing reads
records back, so they are a view of the state and no variable.

Work is abstract: it returns or fails for one of the causes in `Failures`,
which are the answers of keyring and Spotify as `keyring.py` and `client.py`
tell them apart, and one for everything else. A field of a log call is the path
to one value (a name, a secret's name, a key that is no string, a list item, a
place in any other container), and `Survives` is the redactor's walk down it. The
walk goes through dicts and lists only: whatever lies in another container (a
tuple, a set, some other mapping) is passed on as it is, and the renderer writes
a tuple's dicts out. `RecordsAreSafe` therefore speaks of what has nothing but
dicts and lists above it: what a record shows below a secret's name or beyond
the depth was inside another container. No log call of the service passes one
today.

`Service` starts with the environments of its instance: `Main` accepts or
refuses, `Start` opens the lifespan, `StopSignal` makes uvicorn take no more
requests, `Shutdown` needs every request answered and marks the held tasks, up
to one whose job was reaped if there is one, `Close` closes one client per step
and `Abort` is the way out of the exception. A job's record is what
`JobRunner` makes of it, reduced to one job per request; whose DELETE it may be
and what the store does in between is there, not here. Reaping and deleting
happen in some request that is at work.

An environment maps names to one number or one of blank, good and bad; a
setting's own rule for a text (a length, a country code, a word of a list) is
that one bit.

## 3. Runs

Passing runs:

| Run | Instance | States | Question |
|---|---|---|---|
| `job_runner` | 2 jobs, 2 accounts, 1 long poll that ends within a tick or beyond the expiry, TTL 1, clock 0..2 | ~68,000 | Stuck jobs, lost or spurious wakeups, foreign or expired answers, task references, cancellation and shutdown, the contract; waits and jobs end |
| `client_safety` | 3 calls, 2 tokens, lifetimes 0 and 2, skew 1, clock 0..1 | ~518,000 | Lock hand-over, whose credential, freshness |
| `client_liveness` | 3 calls on one lock, 1 retry | ~161,000 | Bounded requests, every call ends |
| `playback` | 2 tracks, plays of up to 2, 2 devices of which requests name 1, 3 people, 1 retry, timeout 1, interval 2 | ~239,000 | All of playback, lost answers and liveness included |
| `request_context` | 2 tokens, 2 profiles, answers with up to 2 odd keys of 7 | ~8,500 | Which token, whose settings, what stands in for what cannot be read |
| `batch_resolver` | 3 items, 2 permits, up to 2 hits, of 3 kinds of track | ~68,000 | Permits, partial success, explicit tracks, lookups end |
| `service` | 2 requests of 2 accounts that may bring the same id, 3 causes of failure, 2 good environments and 34 bad ones, fields of up to 3 steps, depth 1 | ~59,000 | Start and refusal, traces, redaction, names of failures, shutdown with open requests and running jobs |

What the properties say that is not obvious from one function:

- `NoZombie` ties the status a caller polls to the task that will change it.
- `EventTracksOutcome` is the exact relation between the Event and the record,
  through setdefault, replacement and reaping.
- `EveryWaitIsAnswered` is its consequence for a long poll, with no help from
  the clock, which may stop for ever: the wakeup itself has to arrive.
- `CancelStopsTheWork` and `ImplementsContract` relate the record of a
  cancellation to the mark on the task, to late results and to late failures: a
  cancelled job never succeeds, and it turns to failed at most once, while its
  work is still under way.
- `OnlyOwnerStops` and `AnswersAreOwnAndFresh` quantify over every path,
  including the second half of a long poll.
- `LockFollowsCalls` says who holds and who waits for a lock in terms of where
  every call is suspended. One fetch per key at a time follows from it.
- `AnswerMeetsRequest` speaks of the very state the answer is made from: the
  track and the modes together, even if someone interferes between the two
  confirmations. The device (but for a transfer) and the context of a play are
  not among what the code asks for, nor in the property.
- `ModesOnlyWhenMeant`: the modes follow a state that shows the play, and go
  where the play went.
- `NothingIsGuessed` traces the two dangerous preferences back to the answer
  they were made from, through both reads, outages and unreadable keys.
- `PermitsAreExact` and `EveryLookupEnds` cover the tasks that go on after the
  batch was answered, which no caller sees any more.
- `PartialSuccess` separates an item's failures from the request's in both
  directions.
- `AllSentOrReported` bounds repetitions by the retries and keeps success apart
  from a song that ended by itself.
- `GivesUpHonestly` fixes the order of poll and deadline, that polls which fail
  neither erase what was seen nor end the wait, and what the second confirmation
  of a play may take from the first: nothing. A play that was seen playing before
  its modes were sent, and of which no later poll shows anything, ends as *no
  device*; the property allows that one case and no other.
- `RecordsNameTheirRequest` holds for a job's records long after the request was
  answered, for the answer to an exception that reached the middleware, and
  whoever else has called since.
- `FailuresAreNamed` compares whole chains: from an upstream answer to the status
  and the remedy the documents give for it, and the same failure in a request
  and in a job, even of two different requests.
- `ClosedUnderNobody` includes the task that was created and has not run yet.
  Lookups that an answered batch has left running are not among the tasks it
  speaks of (section 7).
- `RecordsAreSafe`: within dicts and lists nothing is written that lies under a
  secret's name, under a key that is no string, or beyond the depth.
- `StartedMeansSound` compares what runs with what was written, not with the
  rules again: nothing the operator wrote is silently dropped.

Why the bounds are enough. Two jobs let one expire, run or settle while another
is created, let shutdown meet a reaped job before a live one, and are what
every pairwise property needs; the proofs cover any number. A clock to 2 with a
TTL of 1 has a job that is younger than, exactly at and past its time to live,
and a second one that is still fresh when the first expires; the long poll's
deadline lies before or beyond that. Three calls on one lock are a holder, a
woken waiter and a newcomer. Lifetimes of 0 and 2 around a skew of 1 give
entries that are never served, served, and expired at the next reading; the
liveness run adds an unknown expiry and one exactly at the skew. The cap of
twelve default lifetimes is written in the model but lies beyond these values.
A timeout shorter than the interval, with a tick that may come during a
poll too, makes each confirmation one poll before the deadline and one after a
rest beyond it, or a single one at it: a player that is seen and then not, not
and then seen, and changed from one to the other; the proofs cover any number of
polls. Two devices are the one a request names and another that is seen playing. One retry is enough for an answer
that is lost, repeated and lost again. Rules for the settings of one answer
meet in two places only, the profile with anything else and a refused key with
anything else, so two odd keys at a time show each pair. A third item over two
permits is the one that queues; two hits are an explicit track before a clean
one, and the reverse. In `service` one cause has a handler and the caller's
remedy, one has another status, one is foreseen nowhere; fields of three steps
around a depth of one are looked into, dropped, and named by a secret at every
step; bad environments leave each range, break each rule, miss each required
name, halve the pair and use an old and a misspelt name. Symmetry is used in
`client_safety` only, over calls.

`CHECK_DEADLOCK FALSE` stands in every configuration: jobs and clock are
bounded, a process that was shut down and a command that ended do nothing more.

Fairness, and why the code justifies it:

- *Jobs*: the event loop runs every task, callback and waiter that is ready;
  `work()` ends because each HTTP call in it has a timeout and its retries and
  polls are bounded (the other two models show that). No fairness for callers
  or the clock.
- *Client*: HTTP calls end by their timeout, sleeps end, the woken waiter runs.
  No assumption on which answer comes; no fairness for callers or the clock.
- *Playback*: whatever the command awaits (a request, a poll, a pause) ends for
  the reason above, and time passes.
- *Batches*: the event loop runs what is ready, and a search ends because its
  requests do. Nobody has to send or cancel a batch.
- *Service*: each await of a request ends by a timeout of its own; the lifespan
  goes on. None for jobs, callers, operators or reaping: stopping may not depend
  on them.
- *Request context*: no liveness; a request is a straight line of at most four
  steps.

## 4. Findings

The violated runs each check a sentence of the documentation against the code.

1. `shutdown_cancels`: a running job that was reaped makes `shutdown()` raise;
   the tasks after it are not cancelled; `jobs/runner.py:72`: "Cancel
   everything still running".
2. `cancelled_is_final`: DELETE answers *cancelled* for a lookup job one of
   whose lookups has just raised a failure of the whole request; the job is
   resumed with that failure and `_run` records it over the cancellation
   (`jobs/runner.py:88`, `spotify/resolver.py:100`); `jobs/models.py:23`:
   "Statuses a job will never leave."
3. `resolved_for_its_profile`: the profile a request runs as comes from the
   second read, the settings were asked for with that of the first; if the
   default changes in between, one profile plays under the settings of another;
   `docs/operations.md:106`: "Each request is resolved for the profile it runs
   as".
4. `invalidate_sticks`: a fetch in flight files what it was asked for before
   the invalidation; `credentials/keyring.py:104`.
5. `account_in_records`: the account is bound in the task that the application
   runs in, and `request_completed`, `request_failed` and `unhandled_exception`
   are written in the middleware's, which never sees it;
   `api/dependencies.py:167`: "every log record the rest of the request produces
   says whose request it was".

Also met while modelling, and visible in the models without a run of their own:

- A job older than the TTL is dropped while it runs (`Reaped` does not look at
  the status); `jobs/store.py:34` and `docs/operations.md:89` speak of finished
  jobs. The first finding starts with it.
- A match that `to_track` cannot map, say one with a null among its artists,
  raises outside the block that catches an item's failures
  (`spotify/resolver.py:147`) and fails the whole batch with a 500
  (`PartialSuccess` names it as the one such case); `docs/mcp.md:14`: "One item
  failing never fails the batch", and `spotify/resolver.py:75`.
- A play that names a device sends its shuffle and repeat there once what it
  asked for is seen playing, on whatever device (`Started`); if another one is
  playing it, or a resume finds another one playing, the modes go to a device
  that may not be active yet; `api/routes/player.py:241`: "Shuffle and repeat are
  set on a device that is playing". For the same reason such a play may be
  confirmed by the state of another device.
- A play with modes confirms twice, each time for the whole of
  `confirm_timeout_seconds`, so it may wait twice what the person chose
  (`StartConfirming`).
- The redactor looks into dicts and lists only (`Survives`);
  `logging.py:20-21` speaks of "every secret-looking field, by name, at every
  depth". Nothing in the service logs another container, so no secret is shown
  by it today.
- `shutdown()` rewrites a job that settled in the turn before to cancelled;
  `jobs/models.py:23`: "Statuses a job will never leave." This is why
  the contract allows it, in its closing only.
- A queueing that Spotify accepted still fails when no poll sees a player
  (`PollSeesNothing`); `api/routes/player.py:502`: "Spotify's acceptance is the
  signal."
- Confirmation polls are never counted, because the routes pass `confirm()` no
  store; `docs/api.md:228` says that `attempts` counts them.
- `nodevice` is also what a wait ends with in which every poll failed, even if
  the first confirmation of the same play saw a device;
  `jobs/confirm.py:191`: "Nothing was playing anywhere for the whole wait".
- An expiry from keyring without an offset parses and then raises a `TypeError`
  when it is subtracted (`keyring.py:226`), outside the block that falls back to
  the default: the request or job fails as unforeseen (`keyring_odd`).
- `explicit_not_allowed` is a 403 (`Status`); `docs/api.md:45` reserves 403 for
  Spotify Premium.
- `/ready` answers 503 with a `ReadyResponse` (`Probe`); `models/responses.py:166`
  says that every non-2xx answer is a problem document.
- A `shutdown()` that raises leaves two clients open (`Abort`).

## 5. Proofs

Every theorem is proved for all values of the constants: any number of jobs,
calls, items and requests, any sets of accounts, tokens, tracks and
environments, any bounds of the clock. All invariants and action properties of
the passing runs are proved, and so is the refinement; the table names the
theorem of each. Every inductive invariant (`IInv` in each module) was checked
by TLC on the instance of its run before it was proved.

| Module | Theorem | States |
|---|---|---|
| `JobRunnerProofs` | `TypeCorrect` | `[]TypeOK` |
| | `NoZombieJobs` | `[]NoZombie` |
| | `EventsTrackOutcomes` | `[]EventTracksOutcome` |
| | `TasksHeldUntilDone` | `[]HeldUntilDone` |
| | `CancellationStopsWork` | `[]CancelStopsTheWork` |
| | `AnswersOwnAndFresh` | `[]AnswersAreOwnAndFresh` |
| | `OwnersStop` | `OnlyOwnerStops` |
| | `RunnerImplementsContract` | `ImplementsContract` |
| | `ShutdownStops` | `[]ShutdownStopsAllOrMeetsTheReaped`, of the proof module |
| `SpotifyClientProofs` | `TypeCorrect` | `[]TypeOK` |
| | `LocksFollowCalls` | `[]LockFollowsCalls` |
| | `CredentialsAreOwn` | `[]OwnCredentialOnly` |
| | `FreshIsGood` | `[]FreshMeansGood` |
| | `RequestsBounded` | `[]RequestsAreBounded` |
| `PlaybackCommandProofs` | `TypeCorrect` | `[]TypeOK` |
| | `AnswersMeetRequests` | `[]AnswerMeetsRequest` |
| | `AllIsSentOrReported` | `[]AllSentOrReported` |
| | `ModesAreMeant` | `[]ModesOnlyWhenMeant` |
| | `ExplicitIsNeverSent` | `[]ExplicitNeverSent` |
| | `GivingUpIsHonest` | `[]GivesUpHonestly` |
| `RequestContextProofs` | `TypeCorrect` | `[]TypeOK` |
| | `VerifiedTokenOnly` | `[]OnlyTheVerifiedToken` |
| | `ScopedAnswersOnly` | `[]OnlyScopedAnswersApply` |
| | `GuessesNothing` | `[]NothingIsGuessed` |
| | `CeilingsKept` | `[]CeilingsHold` |
| `BatchResolverProofs` | `TypeCorrect` | `[]TypeOK` |
| | `PermitsExact` | `[]PermitsAreExact` |
| | `BatchesSucceedInPart` | `[]PartialSuccess` |
| | `CleanTracksOnly` | `[]OnlyCleanTracks` |
| `ServiceProofs` | `TypeCorrect` | `[]TypeOK` |
| | `RecordsAreOwn` | `[]RecordsNameTheirRequest` |
| | `FailuresHaveNames` | `[]FailuresAreNamed` |
| | `RunsAsWritten` | `[]StartedMeansSound` |
| | `ClosesWhenNobodyIsLeft` | `[]ClosedUnderNobody` |
| | `DictsAndListsAreRedacted` | `[]RecordsAreSafe` |

What is assumed of the constants is in the `ASSUME` of the module that declares
them, and TLC evaluates each on the runs: bounds are natural numbers and
positive where the configuration demands it (a TTL, a timeout, an interval,
permits, a batch size); markers such as `NoAccount` or `Nowhere` are none of the
values they mark the absence of; somebody has a token and a profile; explicit
and unreadable tracks are tracks; a log field has a name; an environment is made
of names the settings know, names of before the prefix, misspelt names and names
of other software. Lifetimes may be any integers, answers of keyring, Spotify
and settings-api anything that their type allows.

### Jobs

None of the four state invariants is inductive alone. That a live job has a
running task (`NoZombie`) survives the end of a task only because the record is
settled in the same step; a task that is cancelled leaves no live record only
because `CancelStopsTheWork` says that the mark goes with a recorded
cancellation or a reaped job; a live job is held only because `HeldUntilDone`
describes `tasks` exactly; and shutdown keeps the relation of Events to records
only because every held job that is stored has an Event. `TaskBeforeOutcome` is
the strengthening: a job number with no task has no record, so a fresh
submission starts from nothing, and a job whose task is unfinished has not
succeeded or failed, so an ending meets a record that runs or was cancelled and
no other.
There is one lemma per action, and `ReapKeepsJobInv` serves every handler that
only reads.

`AnswersOwnAndFresh` rests on `VisibleIsOwnAndFresh`: what reaping left and
belongs to the caller is the stored record, and its age is below the TTL. Every
answer is made from that in the step that reaped, the second half of a long poll
too, for which the type of `waiter` is needed. `OwnersStop` is a property of
steps: all but a deletion and shutdown leave both the cancelled records and the
marks as they were (`StopsAreAnswered`).

The refinement. `Seen` is the mapping: a job without a task is unborn, a job
that is stored has its status, any other is gone; `LifeIs` says that the three
exclude each other, which needs `TaskBeforeOutcome`. A submission is `Accept`, a
deletion of a live job `Stop`, both forgetting what had expired; every handler
that only reads is `Forget`; a task's first step is `Begin`, or is not seen when
the job was reaped before (`TaskWrites`, `Unseen`). `Busy` maps the tasks that
are suspended in their work, and the end of a task is told from the record it
finds: of a running job it is `Settle`, of a cancelled one that fails
`Overturn`, of a job that was reaped, or of a marked task that just ends, `Rest`
(`WorkEndsMaps`, `RestMaps`, `BookkeepingMaps`). The done callback, the end of a
task that never started and the clock are not seen; shutdown is `Close` with the
jobs that its loop reaches. That work under way finds a record that runs or was
cancelled is `UnfinishedStatus`, and that an unmarked task finds one that runs
`UnmarkedTaskStatus`, from `TaskBeforeOutcome`, `CancelStopsTheWork` and
`NoZombie`. The contract forgets
jobs only while it is open, but the end of a long poll, which reaps, has no such
guard in the code. The one more invariant needed is `NobodyWaitsForTheClosed`:
polls begin only while the process serves, and it closes only when none is open.

`ShutdownStops` is what the first finding leaves of the docstring it refutes: a
shutdown that comes to its end has marked every task that was not over, and one
that does not had come to a job that was no longer stored.

### Credentials and client

`LockFollowsCalls` speaks of queues and holders together; `LockInv` states it by
position (`QueueWaits`: each waiting call stands in its queue once, and nobody
else; `HolderFetches`), so that a waiter may leave from the middle
(`RemovalKeepsTheRest`, `WaiterLeaves`). `EntriesKeepTheirWord` says of a cached
entry that it was fetched for its own key and that what it may still be used for
ends a skew before the credential does, unless that time has passed already:
this is what makes the arithmetic of `TTLWithinExpiry` hold for negative and for
enormous lifetimes. `RequestsArePaid` counts a request against what allowed it,
a retry against the budget and the one re-authentication against its flag. The
three parts are disturbed by different actions, and one lemma
(`MoveKeeps`) serves all steps in which a single call moves.

### Playback

The invariant keeps what was sent and what is still to be sent together equal to
what is due (`SentThenDue`), because neither half says anything about success
while a play with modes is under way. `Cleared` carries the explicit check over
the read that may lie between it and the command. `CountedTries` bounds how often
the command was carried out by how often it was tried, and that by the budget.
`SeenSoFar` says that a confirmation that goes on has seen no state with the
effect, that what it remembers is what it was last shown, and, as long as it was
shown nothing, that nothing was shown before it either, but for the state after
which the modes were sent (`SeenBeforeTheModes`): without these the state in a
timeout need not be the last one, and *no device* could hide one. `OneTarget`
keeps all requests of a command to the device it named. That no mode is sent that
nobody wanted, and none twice, comes from `ModesOfSendsTheWanted` over `SentThenDue`
(`SentAreDue`).

### Request context

The properties speak of a request that has arrived at its handler; what they
lack to be inductive is what holds on the way, `Underway`: the token under
verification is the one presented, the first read asks for the profile the
request named, and the second is made only if it named none. `ApplyKeeps` serves
both reads under the one condition they share, that the answer was asked for by
profile or leaves the request without one; `NarrowedIsWithin` and
`PresentedInEveryHeader` are the two facts about pure operators that everything
rests on.

### Batches

`PermitsAreExact` is a statement about the cardinality of the set of tasks that
hold a permit. It is inductive only together with `TasksStartTogether`: before
they start, all tasks are alike and none holds anything, and a cancellation
before that marks all or none. `PermitsAreBusy` and `LeaveKeeps` do the counting
for every way out of a lookup, with and without somebody to wake. The other
three need `SettledByTask`, an item has a result exactly when its task returned,
and `AnswerFollowsTasks`, which ties the handler to what `gather` said.

### The process, its requests and their records

`RequestTrace` has no specification of its own; its lemmas say what each step of
a request or of its job keeps, and `ServiceProofs` adds the process. `Bound`
gives the context of each of the three tasks from the step that creates it: that
the inner task and the job carry the request's own id and account is inductive
only because the outer task carries no account, so that a copy never brings
another's. `JobsFollowTasks` ties a job's record to its task as far as
deletion and old age leave it. `AnswersTellTheOutcome` and `JobsTellTheOutcome`
say, of a request and of a job, what the failure behind them was, before and
after the middleware has had its turn; `FailuresAreNamed` compares the two and
follows from both with `StatusTable` and `FailureTable`, which go through every
cause. `Begun` and `Ending` are the two halves of the process: nothing of a
request exists before it serves, what is in force is what a sound environment
says, and from the step that marks the tasks to the last client closed no
request is open and every held task stays marked.

`DictsAndListsAreRedacted` is a fact about the redactor, a recursive walk, and
not about the process around it. `WalkIs` shows that its definition has a solution
by giving one; `StoppedWithinDictsAndLists` that a value with nothing but dicts
and lists above it survives only if no step on the way is a secret and the depth
is not passed; `NothingGetsPast` puts the positions of the property together. Below
another container the theorem promises nothing, because the code does not look.

Induction. The provers cannot instantiate a theorem that takes an operator, as
the induction theorems of the library do. `Induction` proves instead, by
counting finite sets, that a set which contains 0 and the successor of each
member below m contains m (`UpTo`, used for the walk above); the fact about
intervals under it also gives the least waiter in line (`MinIsLeast` in
`BatchResolverProofs`).

### Only model-checked

The liveness properties `EveryWaitIsAnswered`, `EveryJobSettles`,
`EveryCallEnds`, `EveryCommandEnds`, `EveryLookupEnds` and `NothingHangs`: the
proof system has no support for fairness and `ENABLED`. The five violated
properties of section 4 are counterexamples and have no proof.

## 6. Plan

Done, in this order: jobs, credentials and client, playback, request context,
batches, Spotify's side of a command, the process with its configuration, traces
and failures; then the proofs of all safety properties and of the refinement.

Next:

1. What the other findings leave of the sentences they refute, as theorems: a
   credential filed after an invalidation was asked for before it; the profile a
   request runs as and the one it was resolved for differ only if the person's
   default changed between two reads.
2. An abstract specification of the credential cache (one fetch per key at a
   time, served credentials are own and good) and its refinement.
3. A composition of `SpotifyClient` and `BatchResolver`, several lookups of one
   batch over one credential, where a failed fetch is a failure of the request
   and a second 401 is an item's.

## 7. Not modelled, and why

- `record_attempt`: no caller reaches it (section 4).
- Growth of `_cache` and `_locks`, which are never evicted: the model has a
  fixed set of keys; unbounded growth is no property of a finite instance.
- A client that disconnects in the middle of a request: what then is cancelled is
  Starlette's choice and not in this repository.
- Length of a backoff, the text of a search, query building, chunks of
  `explicit_among`, GET reads of the player: no shared state and no decision that
  another part depends on. Spotify is taken to answer `/tracks` with the URIs it
  was asked for.
- Schema validation beyond the fact that a body may be refused, mapping of tracks
  beyond the fact that it may raise, parsing of a player state: total functions on
  JSON that unit tests reach.
- Inside a text setting, what its rule looks for; a `.env` file, in which other
  software's names would be refused where the environment's are not.
- The format of a log record, its fields' texts, the level, timings.
- Signatures of tokens and caches of the client libraries of keyring and
  settings-api: they answer anything, and the verified account is taken as given.
- Lookups of a batch that was answered by a failure of the request, or whose
  caller is gone, run on (`EveryLookupEnds`); they are neither open requests nor
  held jobs, so `Service` does not know them, `shutdown()` does not wait for or
  cancel them, and one of them may meet a closed HTTP client. `ClosedUnderNobody`
  does not speak of them.
- `FailuresAreNamed` covers the failures whose cause is upstream, and the
  unforeseen. Errors that the service raises of itself in a handler or a job
  (`confirmation_timeout`, `explicit_not_allowed`, `job_not_found`,
  `batch_too_large`) stand in the table `Status` and are not raised in
  `RequestTrace`. What `render_exception` writes of a stack trace is not modelled.
- `explicit_among` looks at URIs of tracks only and lets others pass; an answer of
  Spotify without a list of tracks flags none.
- The static site and its checker: no part of the service.
