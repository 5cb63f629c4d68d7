# A TLA+ model of sync-Go

sync-Go copies tables between databases.  A master server (`src/backend/cmd/server`)
keeps the configuration and the jobs in PostgreSQL, runs the jobs in goroutines,
on demand or by cron, and reads the sources itself or through agents
(`src/backend/cmd/agent`) that hold a gRPC session.  A dashboard
(`src/frontend`) talks to it over HTTP.

This directory models the parts of it where several actors meet: request
handlers, cron callbacks, engine goroutines, worker pools, agents and their
streams, the pages of the dashboard, and the rows, channels, caches and cookies they
share.  The source is the reference; paths below are relative to
`src/backend/internal` unless they start with `cmd` or `src`, or name a page of the
dashboard (`src/frontend/src`).

* [Inventory](#inventory): the system's parts
* [Modules](#modules): what each module models and how it corresponds to the code
* [Runs](#runs): what TLC checks, with which bounds, and why they are enough
* [Fairness](#fairness)
* [Proofs](#proofs): what TLAPS checks, from which assumptions, by which argument
* [Where the program differs from what it says](#where-the-program-differs-from-what-it-says)
* [Not modelled](#not-modelled) and [Plan](#plan)

## Inventory

| Part | State | Operations | Meets |
|---|---|---|---|
| Job handlers, `api/handlers/jobs.go` | `SD_JOBS` rows: status, progress, network, schema | create, start, abort, reset, delete | engine goroutines write the same rows |
| Network and schema handlers, `network.go`, `schema.go` | `M_SCHEMA_JOBS`, and the job row that mirrors a network | create, update (upserts the job row), delete; deleting a schema clears references | foreign keys and `UNIQUE(network_id)` of `SD_JOBS` |
| Scheduler, `syncengine/scheduler.go` | cron entries by network id | `RefreshJobs` each minute, `TriggerJob` each tick | inserts a job row, starts a goroutine |
| Sync engine, `syncengine/engine.go` | locals of `ExecuteSync`; status, progress, `last_sync_value` in the database | admission, load, mark running, one pipeline per rule, verdict | handlers, drivers, agent manager, pool |
| Local pipeline, `engine.go:366-457` | channel of 16 chunks, errgroup, worker pool | extract, send, receive, load, cancel, wait, mark | drivers |
| Drivers, `drivers/*.go` | connections; the CSV file | `StreamExtract`, `StreamLoad`, truncate | called concurrently by the workers |
| Agent manager, `syncengine/agent_manager.go` | maps: agents by node code, channels by job id, waiting tests by id | register, dispatch, look up, clean up, resolve | shared by engines and gRPC handlers |
| gRPC handlers, `api/handlers/agent_grpc.go` | locals of one stream | `Session`, `PushData`, `ReportTestResult` | agents, agent manager, `M_NODE` |
| Agent, `cmd/agent/main.go` | session, goroutine per command | heartbeat, reconnect, sync, test connection | gRPC handlers |
| Status cleaner, `grpc/server.go:81` | `M_NODE.status`, `last_seen` | marks silent nodes offline | heartbeats |
| Connection tests, `network.go:480-560` | the waiting-tests map | dispatch, 15 s wait, answer | agent manager, agent |
| Connection pool, `db/postgres.go` | pgx pool | acquire, release | every statement; engines hold a cursor while they use others |
| Configuration, `nodes.go`, `schema.go`, `credential.go` | `M_NODE`, `M_SCHEMA`, rules, credentials | create, update, delete | foreign keys |
| Settings, `api/handlers/system.go` | `S_SETTINGS` | read all, upsert key by key | seven pages save the whole table |
| Password migration, `db/migrations.go:345` | encrypted passwords | runs at every start | - |
| Rate limiter, `api/middleware/rate_limit.go` | visitors by address | count, reset, clean-up goroutine | every request |
| Login, users, roles: `auth.go`, `middleware/auth.go` | the token cookie (the server keeps none) | login, logout, verify | tabs of one browser |
| Logs, statistics, metrics, database console | append-only or read-only | - | - |
| Settings pages (7) and record editors (3) | form, query cache, saving flag | load, refresh, edit, save | other tabs, the refetch of the query library |
| List pages (11) | selection, search, page, popups, forms, query cache | poll, refresh, select, act, save, delete | other users, late answers |
| Session of the browser: `login/page.tsx`, `lib/api.ts`, `proxy.ts`, `IdleSessionObserver.tsx` | cookie, name per tab, timers | sign in, sign out, 401, navigate, idle logout | tabs share the cookie, not the name |
| Tools and consoles of the dashboard | - | one request, one output | - |

What is hard in it, and what makes each part correct:

* **Job lifecycle.** One row, many writers, nothing locked between two
  statements.  A row that reads `running` should have a goroutine behind it; a
  job should have one engine; `cons_max_jobs` should bound the engines;
  progress and status should agree; a run should come to an end.
* **Pipeline.** Producer, bounded channel, workers, first error cancels.  No chunk
  lost or loaded twice, success only after all loads, `last_sync_value` never
  above a chunk that was handed over and not loaded, nobody left waiting.
* **Remote extraction.** Engine, agent and stream handler meet only through a map
  keyed by the job id.  Batches must reach the right listener, a channel must
  not be used after it was closed (the process would panic), a finished rule must
  have loaded what the agent sent, a listener must be released.
* **Sessions of agents.** A reconnect races the end of the old session; the cleaner races
  the heartbeat.  A command must not go to a stream nobody serves, a live node must not be
  marked offline, a dead one must be.
* **Connection tests.** A timeout races the answer, the answer the registration of its
  channel.
* **Pool.** Each engine holds one connection (the cursor of its rules,
  `engine.go:167`) and needs a second: hold and wait.  One must be left.
* **Forms.** A load replaces what is in the form whenever it arrives, and a save
  sends the form as a whole.  Edits must not vanish under the user's hands, settings nobody
  edits must stay, replaced values must not come back.
* **Lists.** What the user sees, selects and confirms is older than the table; answers to
  earlier requests change the page in between.  A row must not get another's values, a
  deleted one must not reappear, the list must catch up.
* **Browser sessions.** Expiry, refusals and sign-ins in several tabs cross; the
  idle observer restarts its timers from an effect.  The name shown must be the session's,
  a dead session must leave the overview, only an idle user is signed out.
* **Incremental runs.** Ties at the high-water mark, comparison as text, concurrent
  upserts of one key.
* **Start-up.** A crash leaves rows `running`; migrations run again.

`PROJECT.json` lists each of these hazards with its line and the properties that
watch it.

## Modules

Every SQL statement, channel operation and critical section of a mutex is one
atomic step; everything between two of them interleaves.

### JobLifecycle (`MCJobLifecycle`, `JobLifecycleProofs`)

The `SD_JOBS` row and everyone who writes it.

| Variable | Code |
|---|---|
| `status`, `progress`, `net`, `schema` | columns `status`, `progress`, `network_id`, `schema_id`; `"absent"` is an id not yet used, `"deleted"` a row that is gone |
| `network` | `M_SCHEMA_JOBS`: none, without a schema, with one |
| `second[n]` | the statement on the job row that a handler, or the scheduler, still has to make for network `n` |
| `phase[r]`, `runJob[r]` | how far goroutine `r` is in `ExecuteSync` and its caller, and for which job |
| `waiting` | the goroutines that are blocked, for a connection of the pool or in the listener of a remote rule |
| `quiet`, `orphans` | history variables, read by no action |
| `restarts`, `faults` | counters that bound crashes and lost statements |

Handlers: `CreateNetwork`, `UpdateNetwork`, `DeleteNetwork`, `DeleteSchema`,
`CreateJob`, `StartJob`, `AbortJob`, `ResetJob`, `DeleteJob`.  `CreateNetwork` and `UpdateNetwork` are the
statements on the network (`network.go:188`, `314`), `MirrorJob` the one on the job row that follows
(`224`, `353`); as its failure is only logged it has a disjunct in which the row is not written, and
between the two the network may be deleted or changed by others.  The statement that writes `st_job_id`
(`232`, `367`) touches no column of the model.  Scheduler: `ReadNetwork` (`scheduler.go:118`), then `TriggerJob` or
`TriggerFails` (`130`).

`ExecuteSync` is `Admit`/`Reject`/`AdmitUncounted` (the setting and the count, `engine.go:70-77`; what the setting reads
is any member of `Limits`, each time anew),
`LoadJob`/`LoadFails` (the joins, `79-177`), `MarkRunning` (`180`), `ReportChunk` (`423`),
`PipelineFails` or `Complete` (`460`), and `RecordFailure` in the goroutine that called it
(`jobs.go:226`, `scheduler.go:144`).  `LoseWrite` is a status write whose error the engine
drops; `Restart` kills every goroutine and keeps every row.  `Wait` and `Resume` say that a run may be blocked
anywhere (its statements wait for a connection, its listener for the agent, neither with a timeout), for some time or for
ever.

Abstractions: names, node references, counters and logs are left out; an id is a
model value and a deleted one is not used again (SERIAL); progress is
5, at most 98, and 100 in the code, and 1, 2, 3 in the runs; an engine
may fail at any point where a call can; for each network one handler or tick at a time is between its two statements
(`second` has one place per network: a named bound).

### Transfer, Pipeline (`MCPipeline`, `PipelineProofs`)

`Transfer` is what one rule promises, whoever carries it out: nothing reaches the target
but chunks that the source handed over, success means all of them are loaded, and nothing is loaded
after the verdict.  A load that reports an error may have been committed, so `Fail` may add a chunk; a
remote source does not learn of a failure and goes on handing over.  That no chunk is loaded twice is not
part of it (a set does not show it): see `ChunkAccounting` and `LoadsOnceWhenAlone`.

`Pipeline` is the errgroup of `engine.go:366-457`.  Chunks are numbered in the order of extraction; as the channel
is first in first out with one sender, `sent` and `taken` stand for its
content.  `Value[c]` is the largest value of the incremental column in chunk `c`, in any order, as the query has no
`ORDER BY`; `seen` is `maxIncValue`, the largest so far, also of rows in a chunk that was cut.  `producer` is the goroutine around `StreamExtract`, `worker[w]` and `hand[w]` a
loader.  `Extract`, `ExtractCut`, `ExtractEnds`, `ExtractStops` and `ExtractFails` are the
ways a driver may go on, break off or end: `ExtractCut` is the postgres and mysql drivers returning the
handler's result for a partial last chunk without looking at `rows.Err()`
(`postgres.go:168-172`), `ExtractStops` the CSV driver taking any read error for the
end (`csv.go:118-120`).  `Send` and `SendCancelled` are the two arms of the `select` at
`engine.go:400`.  `LoadSucceeds` and `LoadFails` are what
`StreamLoad` reports; `LoadDropped` is a success for a chunk that is not in the target: no table is named
(`postgres.go:176`), or the deferred `Flush` of the CSV writer failed (`csv.go:157`).  `Delivered` is what the driver answered for,
dropped or not.  `Wait` is `g.Wait()`, `FinishRule` the write of `last_sync_value` (`seen`, or nothing when the rule is not
incremental).

`MarkBehindLoads` says what this code does ensure of the mark: it is the value of a chunk that was delivered, and no chunk
that was handed over and not delivered has a value up to it.  It does not say that the next run skips nothing: rows that the
source never handed over, or that the driver dropped, may lie below the mark (`NextRunSkipsNothing`, which TLC refutes), and all rules of a
network share one `last_sync_value`.

Abstractions: values are numbers, compared as numbers and not as text; two chunks with the same key are not
told apart; a failing load may or may not have committed its chunk; the mark of one rule only.

`KeepsPromise` is the refinement: `Pipeline` implements `Transfer` with `Chunks <- 1..N`,
`handed <- 1..extracted`, `loaded <- Delivered` and `transferred`/`completed` read as `ok`.

### RemoteSync (`MCRemoteSync`, `RemoteSyncProofs`)

One job id and everything that shares it: engines (calls of `ExecuteSync`), each going
through its rules, the registry entry `jobs[jobID]` of the agent manager, one
channel, one agent goroutine and one `PushData` handler per dispatch.

`DispatchSync` (`agent_manager.go:53-74`) is `Register`, which enters the channel under the mutex, then `Send` of the command,
or `DispatchFails` before either.  The listener loop (`engine.go:326-366`) is `Receive`, which takes a batch from the channel,
then `LoadBatch` or `LoadFails` when `StreamLoad` returns, and `FinishRule`; `batch[e]` is the batch in hand; `Return` the deferred `CleanupJob`.  The agent's `handleSyncJob` is
`AgentOpens`, `AgentRefuses`, `AgentSends`, `AgentCloses`, with `ConnectionLost` at any time.
`PushData` is split where it gives up the mutex: `PushRecv` receives a batch and looks
the channel up, `PushSend` sends to what it found, `PushEnd` looks it up again at the
end of the stream, `PushClose` closes it, `PushPanics` is either of them meeting a closed
channel.  Place 0 of a stream is the header batch, which carries no rows.

`overlapped` records that two engines, or a new command and an older stream, used the
job id at once.  This does happen (see
[below](#where-the-program-differs-from-what-it-says)), so the properties say what holds
as long as it does not.

Each dispatch keeps the promise of `Transfer`, as the local pipeline does: `Promise(d)` reads
`handed` as the batches the agent sent and `loaded` as the target, and `AloneKeepsPromise` says that
every step of the whole is a step of each `Promise(d)`, or a stutter.

Abstractions: batches are numbers; a load that fails may or may not have committed its batch; the agent
session itself (who is connected) is in `AgentSessions`.

### EnginePool (`MCEnginePool`, `EnginePoolProofs`)

Who holds and who waits for a connection of the master's pool.

| Variable | Code |
|---|---|
| `pc[e]` | the statement that run `e` makes next in `ExecuteSync`, or `"group"` (in `g.Wait()`), `"listening"` (to its agent), `"new"`, `"done"` |
| `rules`, `chunks`, `broken` | how much work is left; a cancelled errgroup |
| `asking` | loaders and clients (handlers, scheduler, cleaner) that have a statement to make |
| `using` | whoever has a connection for a statement |
| `held` | the runs whose `rows` (`engine.go:167`) are open |

`Acquire` is pgxpool's, with no timeout as the context is `context.Background()`.  Each
statement of a run is `Makes`, followed by the next one; `Advances` is `rows.Next()`,
which closes the cursor at the end; `ReturnError` is an early return with its deferred
`rows.Close()`.  A rule is local (`BeginRule`) or remote (`Dispatch`, `Listen`, `LogBatch`, `engine.go:297-366`): a run that
listens needs no connection of its own for it but keeps its cursor, and logs each batch.  Statements that follow one another without anything in between count as one.
`AtOnce` is the number of runs under way.  Nothing in the code makes it less than `Pool`, so this
(`EnoughConnections`) is a hypothesis of the theorems that need it, and of the run.

### AgentSessions (`MCAgentSessions`, `AgentSessionsProofs`)

One node: the agent's streams, the manager's entry, the row, the connection tests.

| Variable | Code |
|---|---|
| `client[s]`, `server[s]` | the two ends of a stream: the agent's `runSession`, the master's `Session` |
| `next[s]`, `beats[s]` | the agent's ticker (`cmd/agent/main.go:132`) and the heartbeats under way, by age |
| `agents` | `AgentManager.agents[nodeCode]` |
| `row`, `status`, `age` | the row of `M_NODE`, its status, the ticks since `last_seen` |
| `test`, `target`, `tests`, `order`, `respCh` | a handler in `TestConnectionAdhoc`, the session it found, `AgentManager.tests`, the command, the answer in the channel |
| `heard` | history: the last heartbeat of the session was stored |

`Accept`/`Reject` are the handshake with auto-registration, `SessionEnds` the deferred
`Unregister`, which removes the entry of the node whichever session it belongs to; `Clean` the
cleaner; `CreateNode`, `UpdateNode` and `DeleteNode` the handlers of `nodes.go` (a created row is `offline` with
`last_seen` at its default, `NOW()`, `migrations.go:96`); `Ask`, `List`,
`Send`, `Receive`, `GiveUp` the steps of a test; `Restart` the master.  `Cut` is the loss
of the connection or of the agent.  Time passes in `Tick`s of some seconds: a due heartbeat is
sent, and stored within `Delay` when both ends are there.

### FormPages (`MCFormPages`, `FormPagesProofs`)

Tabs that each show one settings page or record editor, and the table or record behind
them.

| Variable | Code |
|---|---|
| `page[t]`, `on[t]` | which page, and whether it is mounted |
| `loading[t]`, `reply[t]` | the request of `loadSettings` or of the query, and what the server read |
| `form[t]`, `held[t]` | `settings` or `form` of the page, and the keys that it has |
| `shown[t]` | the `whitelist` of sms-auth |
| `cached[t]`, `cache[t]` | the query cache of the tab |
| `saving[t]` | `isSaving`, `saveMutation.isPending` |
| `put[s]` | a save request: where it is, its body, the keys not yet written |
| `store` | `S_SETTINGS`, or the record |
| `stamp`, `touched`, `retired`, `careful` | the number of edits, and history |

A page is a record of what tells pages apart: which settings it edits (`*Inputs`, from its
JSX), whether a spinner covers its inputs while it loads, whether it can refresh, whether its
record changes by itself.  A key stands for settings that the same pages edit, a
value for the set of edits in effect.  `WriteKey` writes one key of a settings request, in any
order (Go's map order), `WriteRecord` a record in one transaction, `WriteFails` stops
half-way.  An answer of `GetSettings` holds a set of keys out of `Answers`, as rows that fail to scan are skipped and
`rows.Err()` is not looked at (`system.go:99-106`).  `RecordArrives` is the effect that copies the record into the form, also when the
query library refetches it under the user's hands (`Focus`).

### ListPages (`MCListPages`, `ListPagesProofs`)

One list page with its query cache, its requests and the table, which others change too
(`OthersChange`).

| Variable | Code |
|---|---|
| `page` | which page: its operations, dialogs, polling, refreshing, paging |
| `rows`, `used`, `owner` | the table, the ids ever given, whose values each row holds |
| `list`, `known`, `stale`, `fetch`, `answer` | the query: data, invalidated or not, its request |
| `refreshing` | where `handleRefresh` is |
| `on`, `selected`, `match`, `current` | mounted, `selectedId`, the rows a search matches, `currentPage` |
| `popup`, `modal`, `formOf`, `deleting` | the SweetAlert popup, `modalOpen`/`modalType`, the row the form was filled from, `deleteModalOpen` |
| `call`, `pending` | requests, and mutations that are pending on this page |
| `gone` | history: rows whose deletion was reported since the last list came |

react-query is external and modelled as the pages use it: one request per query, polls
join it, `refetch` and the invalidation of a mounted query replace it, the invalidation of an
unmounted one marks it.

### Session (`MCSession`, `SessionProofs`)

| Variable | Code |
|---|---|
| `cookie`, `left` | the user of the token cookie, ticks until it expires |
| `screen[t]`, `hint[t]` | the route of a tab, `auth_user` in its `sessionStorage` |
| `login[t]`, `signed[t]`, `toast[t]`, `leaving[t]`, `bare[t]` | a sign-in, the user whose cookie its answer has set while `onSuccess` is still to run, its toast, a logout, a request sent without a cookie |
| `watch[t]` | the idle observer: `showWarning`, the value its last effect saw, its two timers, the ticks since the user moved |
| `last` | history: the tab whose sign-in made the session; none when there is no session or the tab was reloaded before `onSuccess` |

`LoginAnswered` is the answer of the server, whose `Set-Cookie` acts at once, `LoginArrives` the `onSuccess` of the page, which
sets the name (`login/page.tsx:41-44`); a reload in between loses the second.  `Lands` is the check of `proxy.ts` and of the overview; `Load` a new document, which loses
what its scripts waited for; `Unauthorized` the interceptor; `WarnFires`, `Effect`, `LogoutFires`
and `Activity` the observer, whose effect runs again after each change of `showWarning`.

## Runs

`MC*` modules add only values of the constants, the symmetry sets and, for `forms`, a view that leaves out
`retired` once `careful` is false, as from then on no action and no property reads or changes it.

| Run | Question | Bounds | Distinct states |
|---|---|---|---|
| `job_safety` | Do rows, goroutines, limit and progress agree in every interleaving? | 2 jobs, 2 goroutines, 1 network, limit 1 or 2, 1 crash, 1 lost statement | 2,317,295 |
| `job_live` | Does a row stop reading `running`, unless its run is blocked for good? | 1 job, 2 goroutines, 1 network, limit 1 or 2, 1 crash, 1 lost statement | 237,354 |
| `pipeline` | Are chunks accounted for, the mark behind the loads, `Transfer` implemented, and does the rule end? | 6 chunks with values 4, 1, 5, 2, 6, 3, channel of 2, 3 workers | 195,963 |
| `pipeline_cut` | Is a completed rule complete? (no) | 4 chunks, 2 workers | violated |
| `remote_engines` | With two engines on one job id, is everything in order, and `Transfer` implemented, while they do not overlap? | 2 engines, 1 rule, 2 batches and the header, channel of 1 | 331,433 |
| `remote_rules` | Is a listener released, also across successive rules of one run? | 1 engine, 2 rules, 2 batches and the header, channel of 1 | 2,089 |
| `pool` | Is a connection left, do runs end unless their agent keeps them, are clients served? | 3 runs, 2 at a time, 1 loader each, 1 client, 3 connections, 1 rule, 1 chunk | 67,476 |
| `agents` | Is the entry served, a live node online, a dead one offline, an answer heard? | 2 sessions, 1 test, period 2, delay 1, threshold 3 | 988,792 |
| `forms` | Do edits, settings and saves survive each other? | 2 tabs in four layouts, 2 save requests, 1 edit, answers with all keys or none | 2,418,138 |
| `lists` | Do rows keep their values, stay deleted, fill the pages, and does the list catch up? | each kind of page, 2 rows, pages of 1, 1 request | 759,345 |
| `session` | Whose name is shown, who is expelled, who is signed out? | 2 tabs, 2 users, lifetime 1, warning 1, timeout 2, a sleeping machine | 629,832 |
| `idle_logout` | Is an idle user signed out? (no) | 1 tab, 1 user | violated |

Why the bounds are enough.  *Jobs*: two goroutines are what it takes for one to
overtake another, two jobs for the limit to matter to someone else's row, and
with limits of 1 and 2 both "room" and "full" occur, with one engine and with two.  A single crash and a single lost
statement suffice for each property about one row.  *Pipeline*: six chunks
are one in the hand of each of three workers, two that fill the channel and one the
producer waits to send, so every worker can fail while the producer is blocked and only
the cancelled context can free it; three workers let one fail while a second holds a chunk
and a third waits.  The values are mixed so that the largest is neither first nor last.
The proofs remove these bounds.  *Remote*: a channel of one with two batches and a header
makes the handler block in front of a full channel; two engines are what
it takes to share an id.  One rule per engine is enough there because a second rule of the
same engine meets the first only through the registry, which `remote_rules` covers.

*Pool*: three runs of which two may be under way is the smallest number with a run
that waits to be started, and with three connections the two cursors leave exactly the
one that everybody shares.  *Agents*: two sessions are what it takes to overlap; with a period of
2, a delay of 1 and a threshold of 3 the bound of the cleaner is met exactly (the code has a heartbeat
every 8 s and a threshold of 20 s).  *Forms*: two tabs and two saves are the smallest number that can cross;
one edit is enough as each property is about one value that is lost, kept or restored;
the layouts pair settings pages that share and do not share settings, and take an editor that leaves and one that stays, with
the refetch of its own tab.  The editor of a network (`NetworkEdit`) differs from that of a node in having three groups of
fields that are read and written together, and is left to the proofs.  Answers with all keys and with none are the two ends; the
proofs allow any.  *Lists*: with one call under way at a time
two mutations cannot cross; the proofs of the safety properties allow any number of them.  Two rows give a
selection something to move to and, with pages of one, two pages.  *Session*: two tabs and two users cross; a lifetime of
one tick, a warning after one and a logout after two let expiry and timers fall on the same tick.

`remote_*` and `pool` may really stop (after the bounded number of
runs, or with a listener whose stream was refused), so their configurations switch TLC's
deadlock check off.  All other runs are checked for deadlock.

## Fairness

* `JobLifecycle`: strong fairness of each goroutine's own steps (`EngineStep`), which are only possible while it is not
  `waiting`.  A goroutine is scheduled, and driver calls and statements that have their connection return.  A wait may last for
  ever: `Resume` is not fair.  Strong rather than weak fairness because a run waits only finitely often (for its statements and
  the batches of its rules), so being blocked again and again is not what keeps it.  No handler, tick, crash or
  chunk report is fair: nobody has to press a button.
* `Pipeline`: weak fairness of the producer, each worker and the engine.  A
  goroutine blocked on the channel is not enabled, so fairness does not unblock it.
  Errors need not happen: failing and succeeding are alternatives inside one fair step.
* `RemoteSync`: weak fairness of engines, agent goroutines and stream handlers.
  Connections need not break and jobs need not be started.
* `EnginePool`: weak fairness of the runs, the loaders and the end of each statement, and
  strong fairness of `Acquire`: pgxpool serves who waits in turn, so nobody is passed over
  for ever when connections become free again and again.  `Listen` is not fair: nothing makes an agent answer.  Nobody has to start a run or make a request.
* `AgentSessions`: time passes and the cleaner's ticker fires.  Agents, handlers and
  requests are not fair.
* `ListPages`: the interval of a mounted page fires; the server's reading and the answer
  are strongly fair, as invalidations may drop a request any number of times but not for ever.
  No user step, mutation or change by others is fair.
* `Session`: a visible overview sends its queries (weak), and a refusal gets through some time
  although the network may fail (strong).  No timer, user or tick is fair.
* `FormPages` has no fairness: nothing in it must happen.

## Proofs

The proof modules hold for any number of jobs, networks, goroutines, chunks, workers,
engines, rules, batches, connections, sessions, tests, tabs, users, save requests, edits, rows and page
sizes.  They assume
`ConstantsAssumption`, `PipelineAssumption`, `RemoteAssumption`, `PoolAssumption`,
`AgentAssumption`, `SessionAssumption`, `FormAssumption`, `ListAssumption` and `PagesAssumption`
(finite sets where something is counted, `0 < ProgressStart <= ProgressCap <
ProgressDone`, channels of at least one, `0 < Warn < Timeout`, pages of at least one row, and that
pages are those that the modules define), all of which follow from the code's constants.  What an
installation may or may not meet is a hypothesis of the theorems that need it, and of no other:

| Hypothesis | Of | In the code |
|---|---|---|
| `SomeWorker` | `Pipeline`: `CompletedLoads`, `MarkNeverAhead`, `PipelineKeepsPromise`, `NeverStuck` | `cons_worker_threads`, which nothing checks |
| `EnoughConnections` (`AtOnce < Pool`), and a loader for `NeverStuck` | `EnginePool`: `ConnectionsLeft`, `NeverStuck` | `cons_max_jobs` against pgxpool's default size, see [below](#where-the-program-differs-from-what-it-says) |
| `HeartbeatsInTime` (`Period + Delay =< Threshold`) | `AgentSessions`: `LiveOnline` | 8 s and the network's delay against 20 s |
| `Sleeps = FALSE` | `Session`: `AwakeNeverSignedOut` | a sleeping machine delivers both timers late and at once |

*JobLifecycle.*  `TypeCorrect` (`Spec => []TypeOK`) stands on its own.  The other
invariants are not inductive: `IndInv` adds `QuietRunning`, which says that as long as `quiet`
holds the row of every goroutine under way reads `running`.  From it follow the other
parts:

* `QuietExclusive`, because `StartJob` refuses rows that read `running`;
* `RunningHasEngine`, because the last step of each goroutine writes its row, and under
  `quiet` no other goroutine wrote it; without `quiet` the two sides of the
  disjunction (another engine, or an orphan) are followed action by action;
* `QuietProgress`, because only engines of rows that read `running` write progress;
* `QuietLimit` by the pigeonhole principle: under `quiet` the map from
  executing goroutines to rows is injective into `RunningRows`, so an engine that
  is admitted below the limit leaves fewer than `MaxJobs` executing, its own row being counted.

`StatusOrderWhenQuiet` is the action property on top of it: under `quiet` a row that exists moves only
along `Moves`, or by a reset or a deletion.  In particular an engine then ends only a row that reads
`running`, so nothing but a reset or a deletion takes a job out of `aborted`; without `quiet` this is
false (`AbortIsFinal`).

*Pipeline.*  `IndInv` is the type invariant with the accounting of chunks and the
agreement between a goroutine's state, the channel and the verdict
(`Bookkeeping`).  `CompletedLoads` (all that was handed over is delivered, and loaded unless the driver dropped it) and `MarkNeverAhead` follow
from it when there is a worker (`SomeWorker`), the second because the mark is the `seen` of a completed rule, hence the value of a chunk that
was extracted, and all of those are delivered: the engine does not check `cons_worker_threads`, and without a
worker a source of at most 16 chunks is reported as transferred with nothing loaded.
`PipelineKeepsPromise` shows the refinement of `Transfer` under the same
assumption: initial state to initial state, each step to a step of `Transfer` or a stutter.
Of `Termination` two halves are proved: `NeverStuck`, that until the rule is over some goroutine's guard
holds (a full channel has a worker that is not returned or a cancelled context, an empty one a producer), and
`OnlyForward`, that no step undoes anything and each adds to a quantity bounded by `N` and `Workers`.  That
the two give termination under fairness is an argument in words; TLC checks the conclusion.

*RemoteSync.*  `IndInv` has three layers.  `Structure` holds whoever uses the job id: nothing
exists of a dispatch before its command (so the channel a command registers is unused),
and the two ends of a stream agree.  `Alone` holds while `overlapped` is false: one engine
is unfinished, one stream is live, the registered channel is that of the rule that is listened to, and as long as a
stream is live it is open and that stream's own (or that of a command that failed, which nobody listens to); a
channel is closed only when its stream is over; and between `Register` and `Send` no stream
is live and the new channel is empty, open and its rule not begun (`RegisteredQuiet`).  That is why no handler meets a closed channel
(`NoPanicWhenAlone`).  `Accounting` adds that, while a rule is listened to, its target and its
channel hold exactly what its handler passed on; hence `NoMixingWhenAlone` and
`FinishedLoadedWhenAlone`.  It is kept as an order, not only as sets: what is in the target, then what the
listener has in hand, then what waits in the channel, then what the handler holds, each batch in its place, so no batch waits twice or
again (`LoadsOnceWhenAlone`).  `PromiseWhenAlone` goes through the actions once more and maps each to a step of `Transfer`
or a stutter for every dispatch; a behaviour that never overlaps therefore implements `Transfer`
(`AloneImplementsTransfer`).  `NeverLeftAlone` is the safety half of `ListenerReleased`: an engine that listens to an
agent that neither refused nor broke off has a batch or a close waiting, or an agent or a handler with a step to
take.  It needs `EndClosed`: only a broken stream ends without closing its channel.

*EnginePool.*  `IndInv` says in which phases of a run its cursor may be open (`HeldOK`),
that only actors with a statement use a connection (`UsingOK`), and bounds both counts.  `MakesInv`
treats all statements of a run alike: each gives its connection back or leaves it to the
cursor.  `ConnectionsLeft`: an open cursor belongs to an unfinished run, and fewer of those are
admitted than there are connections.  `NeverStuck`: a waiting statement finds that connection, and a
run in `g.Wait()` has a loader with a chunk or none left; so the circle of runs that wait for one another is
excluded in every phase, not only counted out.  Runs that listen wait for their agents and not for a connection; the theorem is about the others,
whom they do not stop.

*AgentSessions.*  `LiveIsOnline` is about time: `Fresh` bounds the age of the row by the age
of the oldest heartbeat under way, or the time since the last one was sent, for
every live session at once; `FreshIsYoung` then gives `age =< Period + Delay`, whatever the threshold
(`LiveIsRecent`), and with a threshold of at least that the cleaner has nothing to do (`LiveOnline`).
`GoneAges` is what `GoneIsOffline` rests on: without
an open stream the date that the cleaner compares only gets older but for the heartbeats that were sent before.  `EntryIsServed` is inductive with the types.  `TestOK` follows a test: before the
command is sent nobody works on it, until the agent reports the channel is in the map, then
the answer is in the channel; hence `AnswersHeard`.

*Session.*  `NameIsRight` needs `AnswerIsCurrent`: between the cookie and `onSuccess` the answer under way names the user of the
cookie.  It and `HomeIsKnown` follow from what each step does to cookie, answer, hint and
screen; `NeverEarly` needs that the ticks a logout timer has left and those the user has been idle
add up to at least `Timeout` in every phase of the observer.  `AwakeNeverSignedOut` proves the finding of
`idle_logout` for every warning and timeout: as long as the machine is awake, a logout timer has more ticks left than the
warning, and when the warning has fired it still has some until the effect restarts both (`AwakeOK`).

*FormPages.*  `Same(k)` says of a setting nobody edited that it has its first value
in the database and wherever it is about to be read or written: in an answer on its way, in the part of
a form that a save would send (the keys the object has: none after a failed load, some after a partial one), in
what a request has still to write.  A load copies the first to the second and third, a save the
third to the fourth, `WriteKey` the fourth to the first; hence `UntouchedKept`.  `Screen` ties
the list of numbers on the screen to the form (`NumbersShown`); `Stored` says that a calm request has stored
what it has written so far (`SuccessIsStored`).

`NothingReturns` (`NothingComesBack`) is proved in three layers, each inductive relative to those
before.  `PastInv`: no value anywhere holds a stamp that is still to be made, so an edit's
stamp is new to all of them; a free request has nothing left to write.  `TurnsInv`: as long as `careful` holds, at most one tab is on its page, at most one
request is on its way, the tab that is on waits for it, and a settings page does not load while it saves.  `CurrentInv`: what the
tab's form or answer could send holds nothing that was replaced, and what a request is about to take out of the database
the tab no longer has.  The first is needed for the edits, the second so that only one tab and one
request have to be followed, the third is the property with its causes.

*ListPages.*  Rows are created one behind the other (`Numbered`), and whatever names a row, the list,
an answer, the selection, a popup or a request, names one that was created (`TableKnown`, `ViewKnown`).
So a row that was reported deleted is never created again, and since the invalidation drops the
request under way, no later answer has it (`GoneInv`, `DeletedStaysAway`).  `ValuesStayOwn`
rests on `FormInv`: while an edit form is open the selection is the row it was filled from or, after
the answer to an older deletion, none, and an update of no row changes nothing.  `PagesCorrect` needs no
invariant but the types: a row's rank divided by the page size is the page it is on.

Only model-checked: the liveness properties (`RunningSettles`, `Termination`,
`ListenerReleased`, `RunsEnd`, `ClientsServed`, `GoneIsOffline`, `ListCatchesUp`, `Expelled`), which are out of
the prover's reach.  Every invariant and every other action property of the passing runs is a theorem, and so is
the safety part of five of the eight: `NeverStuck` and `OnlyForward` for `Termination`, `NeverLeftAlone` for `ListenerReleased`,
`NeverStuck` for `RunsEnd` and `ClientsServed`, `GoneAges` for `GoneIsOffline`.

## Where the program differs from what it says

Each has an entry in `PROJECT.json`.  Two have a run of their own:

* `IdleEndsSession` (`idle_logout`): showing the warning re-runs the effect, which clears
  and restarts all timers and hides the warning: an idle user is never signed out
  (`IdleSessionObserver.tsx:60-84`).
* `CompletedIsComplete` (`pipeline_cut`): a source that breaks off in a partial chunk, or a CSV file
  that cannot be read on, ends without an error.

These are stated in the modules; TLC finds each violated when it is added to the
configuration named:

* `LimitEnforced` (`JobLifecycle_safety`, with `Limits = {1}`, `MaxJobs = 1` and two networks): cron rows read `pending`
  while their goroutines start, so two of them pass a limit of one (`engine.go:70-77`, `180`).
* `RejectedOnlyAtLimit` (`JobLifecycle_safety`, with `Limits = {1}` and `MaxJobs = 1`, as a `PROPERTY`, without symmetry):
  a start from the dashboard counts its own row; with a limit of one it always fails.
* `OneEnginePerJob` (`JobLifecycle_safety`): a row that reads `pending` may have an engine (`jobs.go:205`).
* `AbortIsFinal` (`JobLifecycle_safety`, as a `PROPERTY`, without symmetry): an engine overwrites `aborted`
  with its verdict (`engine.go:460`).
* `RunsComeToAnEnd` (`JobLifecycle_live`, as a `PROPERTY`): a run that waits for a connection or for its agent does so
  without a timeout (`engine.go:167`, `326`), and its row reads `running` for ever.  "Query Timeout (Seconds)" of the settings page
  only bounds the handshakes (`engine.go:193-196`).
* `NextRunSkipsNothing` (`Pipeline_cut`): the mark is the largest value of what was handed over, in no order; after an extraction
  that broke off, or a dropped chunk, it passes rows that were never loaded, and the next run filters them out
  (`engine.go:290`, `393`, `454`).
* `ClosedMeansFinished` (`RemoteSync`): an agent closes its stream after a failed
  extraction as after a complete one (`cmd/agent/main.go:284`).
* `RoutedCorrectly` (`RemoteSync`): batches are routed by job id alone (`agent_grpc.go:121`).

The others were met while modelling:

* Pool: its size is pgxpool's default, `max(4, CPUs)`, while `cons_max_jobs` defaults to 10.  As many
  runs as connections hold them all with their cursors (`engine.go:167`) and wait for one more each.
* Incremental rules: one `last_sync_value` per network serves all rules of its schema, also within one run
  (`engine.go:455`), so the mark of one table filters another's rows.
* Target drivers: a chunk for which no table is named (`postgres.go:176`), or whose CSV buffer cannot be flushed (`csv.go:157`), is
  reported as loaded.
* Agents: the end of an old session removes the entry of its successor (`agent_manager.go:43`); a
  test that is never answered stays in the map (`network.go:536`).
* Editors: saving before the record has arrived overwrites it with blanks; reopening within
  `staleTime` shows, and saves, what was there before; a refetch replaces unsaved edits whenever the
  record changed by itself, a node with each heartbeat, a network with each incremental rule (`engine.go:454`).
* Settings pages save the whole table, so two tabs revert each other; a failing statement
  leaves half of a save; a reading that breaks off is answered with a part of the table and 200 (`system.go:99`); the list of sms-auth is not cleared by an empty load.
* Lists: a late answer to a deletion clears the selection under an open form (the update then
  goes to `/users/null` and is reported as done, `user.go:129-137`), a late save closes a newer
  form; toasts replace an open question (`jobs/page.tsx:48`); `currentPage` may end beyond the last
  page; the button for a new credential edits the selected one.
* Sessions: a failed logout keeps the cookie; a late 401 signs a new session's tab out; a login page
  reloaded between `Set-Cookie` and `onSuccess` keeps an older name.

## Not modelled

Generated protocol code, certificates, scripts, container and proxy
configuration; the SQL dialects; the reset and scratch tools; statistics, logs and metrics,
which only read or append; roles, a check per request without state; the tools and consoles of
the dashboard, which send one request or compute in the page; the presentation components, of
which the largest (`components/ui/sidebar.tsx`) no page uses; charts and layout; creating, cloning and viewing
in the record editors.  AES-GCM, pgx, gRPC, cron, react-query and SweetAlert are libraries: the
models use them as the code does.

Parts of the master that could be modelled and are not yet: the cron table (`RefreshJobs`), runs one after
another over keys and values, the CSV file under several workers, the foreign keys and
placeholder codes of the configuration, the password migration, the rate limiter.

## Plan

Done, checked and proved: `JobLifecycle`, `Transfer`, `Pipeline`, `RemoteSync`, `EnginePool`, `AgentSessions`,
`Session`, `FormPages`, `ListPages`.  Next, in this order:

1. `CronSchedule`: `RefreshJobs` against changed, removed and new networks, ticks, and the
   `UNIQUE(network_id)` that lets a network run from cron only until its first row exists.
2. `IncrementalSync`: runs one after another over keys and values, with ties,
   textual comparison and concurrent upserts; uses `Transfer`.
3. `CsvTarget` and `StreamExtract`: the header, the rewind, and interleaved flushes of
   the workers; pure operators against a reference definition.
4. `ConfigStore`, `CredentialMigration`, `RateLimit`: referential integrity and the
   placeholder code of a node, migrating twice, the counting window.
