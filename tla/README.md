# Viaduct in TLA+

A verification development for Viaduct (`src/`), the self-hosted operations
agent in Go. It models the parts whose correctness depends on the order of
things: the cron scheduler with its processes, database rows and shutdown; the
agent's task loop with its permissions, audit trail and accounting; the router
with its rate limiter; the clients that share an access token; the chat bridge
over Slack; and the configuration file with the commands that write it. TLC
checks the modules on small instances; TLAPS proves, for every value of
the constants, every safety property that TLC checks (section 5).

Line numbers below are those of the files under `src/`.

## 1. Inventory

| component | code | state it keeps | operations |
|---|---|---|---|
| Scheduler | `internal/scheduler/scheduler.go` | overlap flags, cron entry ids (memory); `jobs`, `job_runs` rows (database) | Start, Stop, RunNow, SetEnabled, execute, recordSkipped |
| CLI and `serve` | `cmd/viaduct/main.go` | none of its own; the order of its defers | newApp, jobs list/run/history/enable/disable, task run, models, setup, serve |
| Storage | `internal/storage` | the SQLite file | one statement per repository method; migrations |
| Agent loop | `internal/agent/agent.go` | the conversation, usage totals (one task) | Execute, executeToolCall |
| Permissions, audit | `internal/security/permissions.go`, `audit.go` | a read-only map; `audit_log` rows | Allowed; the wrapper of each connector operation |
| LLM router | `internal/agent/llm/router.go` | none between calls | resolveChain, Complete with fallback |
| Rate limiter | `internal/agent/llm/rate_limiter.go` | two token buckets per provider | Wait |
| Token sources | `openai_oauth_provider.go`, Azure and Microsoft 365 connectors | access token, expiry, refresh token | Token, refresh, invalidate after 401 |
| LLM providers | `openai_provider.go`, `anthropic_provider.go`, `openai_codex_provider.go` | none | one HTTP request each |
| Connectors | `internal/connectors/{slack,azure,microsoft365}` | tokens; Slack: known threads | list, read, search, create, update, delete, send, listen |
| Connector registry | `internal/connector` | map name to connector, filled once | Register, Get, List |
| Chat bridge | `cmd/viaduct/chat_bridge.go` | one goroutine per message | Listen, handle, reply |
| Configuration | `internal/config` | `viaduct.yaml` and environment, read once | Load, Validate |
| Onboarding | `internal/onboarding` | `viaduct.yaml`; a local callback server | dialogue, OAuth login, Slack setup |
| Encryption, credentials, memory | `internal/security/crypto.go`, `credentials_repo.go`, `memory_repo.go` | tables no other code uses | encrypt, upsert, get, delete |

**How they interact.** A process is created by `newApp`: configuration, store,
registry, router, permissions, agent, scheduler. `serve` starts the scheduler
and the chat bridges; cron goroutines and `RunNow` call `execute`, which calls
the agent; the agent calls the router, whose answer names tools, and calls
connectors through the permission check and the audit wrapper. All processes
share one SQLite file and nothing else. Every statement takes the caller's
context, so a write may fail because the context has ended; most of those
errors are logged or dropped.

**Where it is hard.** Concurrent triggers of one job; a command and a daemon on
one database; early returns while the overlap flag is held; a database that is
closed while goroutines run; a process that dies between two statements;
deadlines that pass in the middle of a completion, a tool call or an insertion;
three places that each hold a part of the truth about a run (`jobs`,
`job_runs`, `audit_log`); two tables of permission levels that must agree; two
judgements of one configuration; a token that one request renews while another
uses it or throws it away; events that come twice or not at all; a file that is
read, completed for minutes and written back.

**What makes each part correct.** Scheduler: exclusion, no leaked flag, no
forgotten row, history and audit agree, Stop outlives cron's runs, runs end.
Agent: no write without the level for it, a faithful trail, every completion
accounted for, every tool call answered, one answer, none bought late. Router:
the chain it tries is the configured one without repetition, and a later
provider is asked exactly after a recoverable failure. Limiter: never more than
the budget, nothing lost by a caller that gives up. Token sources: a caller
gets a token that was valid when it was handed out, and one refresh serves all.
Chat: a message is worked on once, the bot never answers itself, and what is not
answered has a cause. Configuration: what is saved is kept, what onboarding takes
for complete is what Load accepts, and a process that serves has built its
default provider and the one of every route that Validate checks; every command
and login ends.

## 2. Plan

| step | module | what | state |
|---|---|---|---|
| 1 | `Scheduler`, `JobLedger` | processes, scheduler, shared tables; abstract run ledger | done |
| 2 | `SchedulerProofs` | the scheduler's safety and its refinement | done |
| 3 | `AgentTask`, `TaskContract` | one task of the agent; abstract contract of a task | done |
| 4 | `AgentProofs` | the agent's safety | done |
| 5 | `LLMRouter`, `TokenBucket` | calls that share limiters and fall back along a chain; `resolveChain` against a reference definition | done |
| 6 | `TokenCache`, `CodexStream` | a token shared by concurrent requests: expiry, 401, refresh, rotation, retries; the event stream of the Codex service | done |
| 7 | `ChatBridge`, `ChatInbox` | delivery, acknowledgement, known threads, tasks and replies, shutdown and restart; abstract inbox | done |
| 8 | `Setup`, `OAuthLogin`, `LLMConfig` | commands over one configuration file; the end of a login; the llm section as onboarding, Load and newApp see it | done |
| 9 | `ChatProofs` | the bridge's safety and its refinement | done |
| 10 | `SetupProofs` | saves that are kept, providers that are built, onboarding and Load agree | done |
| 11 | `BucketProofs`, `RouterProofs` | the two buckets; order of fallback, budgets of requests and of tokens | done |
| 12 | `TokenProofs` | one token for many calls: fetches, expiry, refusals, rotation; streams of any length | done |
| 13 | `NaturalSets` | induction with a set in place of a predicate, for the recursive functions above | done |

The modules are written to be proved about: constants with named assumptions,
an action per operation, no RECURSIVE operator.

## 3. Modules

### Scheduler

A member of `Proc` is one process incarnation (a command from its start to its
end; a restart is another member). A member of `Exec` is one call of
`Scheduler.execute`; as a call opens at most one row of `job_runs`, the row is
named by the call.

| state | code |
|---|---|
| `phase`, `cmd`, `todo`, `seen` | where the command is; the argument line; the loop of `loadJobs` and the copy of the table `List` gave it |
| `entries` | `Scheduler.entryIDs` and the cron entries behind it |
| `running` | `Scheduler.running` |
| `pc`, `owner`, `job`, `trigger`, `outcome` | a call of `execute`: its position, process, arguments and status |
| `lost` | history: the calls whose `Complete` returned an error |
| `touched` | history: for a process that holds a copy of the table, the jobs whose last_run_at another process changed since |
| `table`, `lastRun`, `nextRun` | columns enabled, last_run_at, next_run_at of `jobs` |
| `row`, `audit` | status in `job_runs`; result in `audit_log` |

| actions | code |
|---|---|
| `Launch`, `LoadUpsert`, `LoadList`, `LoadRegister`, `CronStart`, `LoadFails` | newApp, Start, loadJobs: its two loops and its one read between them |
| `Fire`, `RunNow` | the cron loop and `jobs run`, each starting a goroutine |
| `SwitchWrite`, `SwitchEntry` | SetEnabled: the row, then the cron entry |
| `Stop`, `Close`, `Exit`, `Crash` | the defers of a command; a process that dies |
| `Enter` ... `Release` | execute: overlap check, Create, preflight, agent, deadline, Complete, UpdateRunTimes, audit, deferred delete of the flag |
| `SkipCreate`, `SkipComplete`, `SkipAudit` | recordSkipped |

Each write of a call may fail at any time, and fails for certain once the store
is closed. A panic in a job ends the process (the cron library is used without
a recovery wrapper), and so may the map `entryIDs`, which is read and written
without the mutex; both are causes of `Crash`.

`JobLedger` is the promise to a reader of the history: a run is opened once,
closed at most once, and audited at most once, after that, with a result that
agrees. `LedgerSpec` is the refinement: a run whose `Complete` failed is
`abandoned` there.

### AgentTask

One task, from its trigger to its answer. The configured permission lists are
part of the state (`configured`, chosen in `Init`, never changed) so that one
run covers several configurations. A completion may ask for any sequence of up
to `MaxCalls` calls on any connector and action, also for tools that were not
offered. Every completion costs 1.

| actions | code |
|---|---|
| `Preflight` / `Begin` | preFlightChecks of a job / a chat message or `task run` |
| `Complete`, `Charge` | Router.Complete; calculateCost and insertUsage |
| `Refuse` | every error of executeToolCall before the connector |
| `Perform`, `Log` | the operation behind auditedConnector, and its audit row |
| `Round`, `Answer` | the loop's end, the limit, insertAudit and return |
| `Expire` | the deadline of the job or message, or the shutdown |

`ops` and `denied` are history variables. An insertion under a context that has
ended fails; one before may fail.

`TaskContract` is what a caller of `Execute` relies on: one answer, a bounded
number of completions and none after the end of the context, a bill for a
success, an audit entry that agrees, and an answer once the context has ended.

### LLMRouter and TokenBucket

A member of `Task` is one call of `Router.Complete`. Calls share the two buckets
(`reqs`, `toks`) of a limited provider; each has its `chain`, its `hop` in it,
and a position `pc`. Routes are a provider and a model; "bare" stands for a
route written without a slash, which the router completes with one before it
compares. `routing` and `size` are chosen in `Init` and never change. `Model` is
the set of names a route may give a model, with the empty one and "bare".

| actions | code |
|---|---|
| `Begin` | resolveChain, default provider |
| `Missing`, `Call`, `Exhausted` | the loop of Complete: unknown provider, answer / final / retryable failure, end |
| `RequestTurn`, `Queued` | `requests.Wait` |
| `TokenTurn`, `Denied`, `Held` | `ReserveN`, its refusal, the select with the timer |
| `Expire`, `Tick` | the caller's context; a unit of time |

`TokenBucket` holds the operations of `rate.Limiter` that the code uses, with the
library's own rules: a level below zero, the moment a reservation may act, and a
cancelled reservation giving back only what was not reserved behind it. Time is
in ticks and tokens in what a tick refills; so both buckets hold `Burst`, the
ticks of a minute, and a request costs `Gap` ticks. Timers are prompt: `Tick`
waits for those that are due. The library's late timers only delay a caller.
A wait for a request that a deadline would cut short is refused at once; whether
there is a deadline that near is a choice. `trace`, `passed` and `sent` are
history variables.

A full bucket plus what a minute refills allows about twice
`requests_per_minute` in the first minute; the budgets are stated with that.
`RequestBudget` speaks of requests that pass the request bucket: the wait for
tokens comes after, and may let several of them out together.

`TokenBudget` is stated for as long as at most one call has given up its place
in the bucket of tokens. With two it is false, and the reason is the library's
`CancelAt`, which gives back what was taken less what was reserved behind it,
and measures the latter from the moment of the reservation to that of the last
one made. A first cancellation, of a large request, lets the next reservation
act earlier than one that is still held; so the last one made is before the held
one, the difference is negative, and when that is cancelled too it gives back
more than it took. It takes four calls, sizes that differ, and no time to pass.
With one call that gives up, however many others there are and whatever they
ask for, it holds. Requests all cost the same, so `RequestBudget` holds however
many give up. Both are proved (section 5).

### TokenCache and CodexStream

Four clients keep one access token for all their requests: the Azure and the
Microsoft 365 connector ("azure", "graph") and the two kinds of OAuth provider
("custom", "codex"). They are one module because they share a shape and differ
in a few lines that matter; `kind` is chosen in `Init`. A member of `Call` is
one operation of the client, which consists of requests (`Asks`, one definition
per operation).

| actions | code |
|---|---|
| `Begin`, `Sdk` | the operation's checks of its arguments; a listing by the Azure library |
| `Serve`, `Acquire`, `Fetched`, `FetchedAgain`, `FetchFails` | Token, getAccessToken, ensureToken: under the mutex, the cached token or a new one, with rotation for "codex" and the library's own cache for "azure" |
| `Peek`, `Send` | the request; "graph" reads the token without the mutex |
| `Accept`, `Reject`, `Trouble`, `Unauthorized` | the answer, a final error, one that is retried, a 401 |
| `Invalidate`, `Backoff` | invalidateToken, the wait before the next attempt |
| `Revoke`, `Tick`, `Expire`, `Restart` | the services, the clock, the caller's context, the process |

Time is in ticks. A fetch takes some: the server issues the token, whose
lifetime begins (`exp`), at any moment between the question and the answer, and
the client counts from when it reads the answer, time.Now() + expires_in. So a
client believes that a token lives longer than it does by the time it was on its
way (`late`), which the HTTP client's timeout bounds (`Patience`; the azure
library sets none). The two providers start with what the file holds (`file`):
no token, one with its expiry, which is as wrong as the answer it came with was
late, or one without, which counts as long expired. `ExpiryNeedsDelay` is what
the skew is worth then: time on the way from the server and time in the call's
hands count together against it. In the code the skew and the timeout are both
30 seconds, so that a token that is taken is good at that moment, and no more
than that is certain.

The read of "graph" is a data race on a string: `Torn` gives what it may see,
an old or a new token, a mixture (`Junk`), the empty string, or an address that
ends the process. `hist` is history. A body that is read once and sent again is
empty the second time (`Drain`): a search of Microsoft 365 that is retried.

`CodexStream` reads an event stream in which events come in any order, are
repeated, cut off or break off with a read error, and compares what the reader
makes of it, one event after the other, with a definition over the whole stream
(`FaithfullyRead`). An end that states no status does not settle the stop
reason: the last one that does, or else the end of the stream, settles it.
`StreamsRead` says it of every stream up to `MaxEvents`, which TLC enumerates;
the theorem `StreamsFaithful` says it of every stream.

### ChatBridge and ChatInbox

A workspace of messages (`msgs`), the events Slack has for them (`events`,
`resent`), the loop of Listen, which acknowledges an event (`Receive`) before it
looks at it (`Handle`), and a handler per message for the bot (`tasks`). `known`
is `threadContext`. The handler's task is the one of `TaskContract`: here it
uses tools that list or post (`ListMessages`, `Create`) and returns (`Finish`);
then comes the `Reply`. `Signal`, `Exit`, `Restart` are the process; nothing
waits for the handlers. What the bot posts is announced by Slack like anything
else, and so comes back to Listen.

`ChatInbox` is the promise to the workspace: a request is taken, and answered at
most once or given up, by a process that is there, and as long as it is, some
day. `InboxSpec` is the refinement, with its liveness.

### Setup, OAuthLogin and LLMConfig

`LLMConfig` has the llm section as data and five judgements of it by five
pieces of code: what onboarding takes for complete (`NeedsPrompt`), what it
agrees to repair (`Repairable`), what Load accepts (`Validate`, `Loads`), what
newApp builds (`Built`) and what onboarding writes (`Rendered`). Of the routing
section Validate checks the six named routes, and the router asks for more
(`Asked`, from resolveChain): the route of a task in `tasks`, and `chain`, which
may name a provider that is not configured. default_provider is asked only if
all of these are empty. `ServingIsBuilt` says what is left of "every task finds
a provider": a task that has a checked route, or no unchecked one, does.

`OAuthLogin` is one login per session: the callback server on the two local
addresses, which another session may hold; the browser, which is sent to
whichever server is there; the pasted code, three times at most; the exchange.

`Setup` composes them over one file: `serve` completes the file before it loads
it, `setup init` and `setup slack` write it, each in a terminal of its own.
Writing is two steps (`Save`, `Write`), because os.WriteFile truncates first and
nothing renames. `ideal` and `spoiled` are history variables: what the file
would hold if every save counted, and whether a save was cut or fell between
another's read and write.

## 4. Runs

| run | instance | shows |
|---|---|---|
| `sched_core` | 1 process, 3 calls, 1 exclusive job; serve, run, disable; a table left by an earlier process or none | types, exclusion, no leaked flag, no forgotten row, audit agrees, draining, refinement of JobLedger |
| `sched_pair` | 3 processes at once, 1 call, 1 job; serve, run; any table | a start that writes its copy of last_run_at back undoes only what another process wrote since the copy was read |
| `sched_live` | 1 process, 2 calls, an exclusive and an overlapping job; serve, enable | runs end, Stop returns |
| `agent_core` | 2 connectors (one registered), 2 iterations, up to 2 calls a reply | the agent's invariants, refinement of TaskContract with its liveness |
| `router_core` | 2 calls, providers a (limited), b, z (not built), 4 routings, 2 choices of sizes, 3 ticks | order of fallback, no route twice, both budgets, return once the context has ended |
| `tokens_core` | 2 calls of each client (azure, graph, custom, codex), 2 attempts, up to 3 tokens and 2 ticks, every saved token; streams of 3 events | each fetch has a cause, an empty token is sent only after another's 401, the Microsoft 365 connector does not send a token again that was refused to the call, a token expires under way only if it was slow to come or to go, refused refresh tokens explained, streams read right, calls end |
| `chat_core` | 6 budgets: up to 2 posts of users, 3 messages, 2 events again, 1 tool, 2 processes; 3 configurations | one task a message, no answer to itself but to a mention of itself, follow-ups explained, refinement of ChatInbox with its liveness |
| `setup_core` | 2 sessions, 1 address, 9 first files, up to 2 commands, 1 kill | no save is undone, checked routes have a provider that is built, onboarding agrees with Load, commands end |
| `find_disable`, `find_runnow`, `find_nextrun`, `find_levels` | the smallest that show it | the findings below |

**Bounds.** `Proc` and `Exec` bound how many commands and calls happen in a
behaviour, not when. Exclusion of one job needs three calls in one process: one
that holds the flag, one that is skipped, and one that would profit from a flag
wrongly released; `sched_core` has these. Overlap flags and goroutines of
different processes are separate, so more processes matter only where the shared
tables carry something from one to another. That is `last_run_at`, which
`sched_pair` is about: one process to end a run and two that hold different
copies of the table when they write it back, with one job, as each is written
back by itself. The proofs cover every number of all of these. Two iterations give the agent a
completion with tool calls before another; two calls a reply give a failed one
before another. Actions are `read` and `update`: one of each kind, the second
with an argument that may be malformed; `azure` is a connector that a reply may
name and nobody registered.

The router's bucket holds four ticks and a request costs two, so that of the two
calls, each of which may try provider a twice, the third request waits and the
second large one is held; three ticks let every such wait end or be cut short.
One choice of sizes has a call that is larger than the bucket. Chains repeat a
route in two spellings and name an empty and an unknown one.

`tokens_core` bounds each client by its own (`MCBound`): time
passes where expiry matters, contexts end where nothing else ends a request. The
skew and the timeout are one tick each, as they are equal in the code. The
connectors have one tick, in which no token that was good for the skew when it
was taken expires under way, so `ExpiryNeedsDelay` says something of the providers
only; the theorem covers all four clients. Two calls are
enough for one to throw away what the other has just fetched; the third token
is the one fetched because of that. `MCExplored` names one operation of each
form (a listing that takes anything for a list, a read, one by the library, one
with a body), as operations of one form differ in their path only.

In `chat_core` the bounds go together (`MCBudgets`), since each kind of trouble
takes few messages and their product is large: one message with events sent
again, in one process or in two, or with a tool and a restart; two messages with
a tool; two with a restart; three messages, so that a reply is followed up.
`MaxTasks` is what every budget leaves room for (`ChatAssumption`), as a message
is announced at most twice. It is no guard of the model, so it cuts nothing off;
six is the least it may be here.

`setup_core` starts from nine files: none, one with half of llm, half of
Slack, both, a missing default provider, a named route to a provider that is not
there, such routes of a task and of the chain beside a named one and without
any, and a provider newApp does not know. `PromptAgreesWithLoad` does not
depend on the files: it goes through every provider that can be written with
each scalar missing or present. One address stands for the two, of which a
session may get either, both or none.

**Symmetry** is used for the interchangeable processes and calls of
`sched_core` and `sched_pair`, which check no liveness. **CHECK_DEADLOCK
FALSE** everywhere: commands exit, tasks end, and an instance has finitely many
of them.

**Fairness.** In `Scheduler`, a goroutine of a live process takes its next step
(the Go scheduler), except the ones that wait for the outside world: the health
check of the preflight has a context without deadline, so nothing makes it
return; the agent is only assumed to return once its context has expired, and
the timer to expire. `Close` and `Exit` are taken when they can be. Nothing is
assumed of the user, of cron, or of signals. In `AgentTask`, local steps are
taken, and a provider or connector returns once the context has ended: all of
them pass the context to their HTTP requests.

In `LLMRouter` a call is only assumed to go on once its context has ended: its
waits are in a select with it, and providers take it.

In `TokenCache` a call takes its own steps, and a request is answered or given up
by the timeout of the HTTP client; the Codex client has none, so there an answer
is only due once the caller's context has ended. The identity requests of the
Azure library are taken to end by its own timeouts. In `ChatBridge` a task
returns by its deadline (the promise of `TaskContract`), and Slack answers a
post; nothing is assumed of delivery. In `Setup` users answer what they are
asked, even with nothing, and a login waits no longer than its deadlines.

`StopReturns` has an exception written into it: a cron run that sits
in a health check for ever holds up the shutdown.

## 5. Proofs

`SchedulerProofs` proves, for all values of the constants that satisfy
`ConfigAssumption`:

| theorem | inductive argument |
|---|---|
| `TypeCorrect` | `TypeOK`, in three parts (processes, calls, tables), one lemma per kind of step |
| `Exclusion`, `SkipsAreJustified` | `FlagInv`: the flag of a job is set in a process exactly when one call of that job holds it there. Exclusion alone is not inductive: without the flag side a second call could pass the check. |
| `Drained` | `DrainInv`: after Stop no entry fires, and once the store is closed every cron call of the process is done |
| `NoForgottenRow`, `HistoryMatchesAudit` | `RowInv`: what the row and the audit entry of a call may be at each of its positions, with `lost` for the failed updates |
| `TimesAreKept` | `CopyInv`: while a process writes back its copy of the table, the copy is what the table holds, but for the jobs in `touched`. From `DrainInv` a process that still writes back has no call of its own, so whoever ends a run meanwhile is another one. For any number of processes at once. |
| `ImplementsLedger` | from `RowInv`: every step of a call maps to a ledger step or to a stutter, every step of a process to a stutter |

`ProcKinds` and `ExecFrame` say once which variables a process's step and a
call's step leave alone; the step lemmas build on them.

`AgentProofs` proves, for any connectors, configurations, requests, number of
iterations and length of replies, under `AgentAssumption`:

| theorem | inductive argument |
|---|---|
| `TypeCorrect` | `IndInv`: types, with `LoopInv`, which ties the completions paid for to the loop counter at each position; without it nothing bounds `paid` |
| `EveryCompletionAccounted` | `SpendingAccounted` is inductive on top of `IndInv`: the iteration charged is the one just paid for |
| `EveryCallAnswered` | `AnswerInv`: while a reply is worked on, answered calls and calls that are left add up to the calls asked for |
| `NoUnpermittedWrite` | inductive on top of `IndInv`; an operation is added only behind `Permitted` (`WriteNeedsLevel`) |
| `PreflightIsEnough` | `PermitInv`: a job at work passed its preflight, and each denied call failed the agent's check; then `RanksAgree`, that the scheduler's ranking is no more generous than the agent's table |
| `TrailIsFaithful` | `TrailInv`: trail and operations compared element by element |
| `ImplementsContract` | `OnceInv`: entry and result come with the last step; each step maps to a step of `TaskContract` or to a stutter |

`ChatProofs` proves, for any configurations and budgets, so for any number of
messages, handlers, repeated events, tools and restarts, under `ChatAssumption`:

| theorem | inductive argument |
|---|---|
| `OwnMessagesIgnored`, `FollowUpsHaveReasons` | `ChatInv`: the types of messages, events and handlers; a thread the bot knows (`KnownInv`) has a handler of this process that was mentioned in it, or met a tool. The properties speak of handlers, which outlive what `threadContext` said when they were started; so the invariant says it of `known` and of each handler. |
| `MessagesHandledOnce` | `CountInv`: each event is handled, held by Listen or still to come, once in all and once more if it was repeated (`ShareInv`); a follow-up is inside a thread (`ThreadInv`), so of the two events of a mention outside threads only one starts a handler |
| `ChatTypes` | `TypeInv`: events to come, the one at hand and the handlers are together at most two for each message and one for each event sent again (`WorkInv`). The bound on handlers alone is not inductive: it says nothing of the events that will become handlers. |
| `ImplementsInbox` | from `ChatInv`: starting a handler takes a request, a reply answers or abandons one, the end of the process closes; every other step is a stutter |

`SetupProofs` proves, for any number of sessions and commands and any first
files, under `SetupAssumption`:

| theorem | inductive argument |
|---|---|
| `TypeCorrect` | `TypeOK`, inductive as it stands: the listeners of a login go with every way out of it |
| `ProvidersAreBuilt` | `ServeInv`: what a session serves from was accepted by Validate and built, and stays as it was read; `AcceptedIsBuilt`: then every name that a checked route gives is built, and with it what a task asks, but for its unchecked routes |
| `SavesAreKept` | `SavedInv`: what a session is about to write is what it read with its own section replaced (`AimInv`), of two that write at once one is in `mixed` (`OnlyWriter`), and file and `ideal` agree unless spoiled (`KeepInv`). The property alone says nothing of the contents a session carries for minutes. |
| `PromptAndLoadAgree` | not of a state: `Agreement` goes through the names and ways of access of a provider, `OwnSections` through what onboarding writes |

`RouterProofs` proves, for any calls, providers, routings, sizes and bounds,
under `RouterAssumption`; `BucketProofs` has the part about one bucket, from
which everyone takes the same, or each its own, whoever they are:

| theorem | inductive argument |
|---|---|
| `RouterTypes` | `TypeOK` with `Walks`, by which a call at a limiter is at a route whose provider has one; a bucket refills up to its size and a cancellation restores no more (`SaneCancel`) |
| `Fallback` | `Walks`: at each position of a call its trace is the routes before the one it is at, each of which failed in passing. That a chain repeats no route is a fact about the loop of resolveChain (`AddsProper`). |
| `Requests` | `Budgets`: the bucket is `Sound` for the calls that wait and those it let pass. The bound on spans that are over is not inductive: it needs that calls wait for moments `Gap` apart, the last of them the bucket's own (`Waiting`), that what is reserved and what is left are within what the bucket held and was given since any moment, and the same for the moments to come (`Kept`). |
| `TokensInductive` | `TokenInv`: what is sent and what is still held is one plan of bookings (`Plan`), and the bucket of tokens is `Booked` for it until a second call gives up, `Orderly` until the first one does. |
| `TokensKept` | from it. That spans hold little is not inductive: a reservation is made long before it is sent. So `Covered` counts, from any moment on, what is booked and what the bucket has left. A cancellation gives back no more than it took, if those behind it fit in between (`Orderly`); it leaves gaps behind which a second one may not fit, which is where the budget ends. |

Sums are written as cardinalities for these proofs: the tokens of requests are
the pairs of a request and a number up to its size (`Tokens`).

`TokenProofs` proves, for any clients, calls, lifetimes and bounds, under
`TokenAssumption` and `StreamAssumption`:

| theorem | inductive argument |
|---|---|
| `TokenInductive` | `TokenInv`, of which the others are consequences |
| `TokenTypes` | `Shape` and `CallInv`: the mutex belongs to the call that fetches, and a token at hand is one that was handed out |
| `Fetches` | `CountInv`: fetches whose token is still good and calls about to throw one away are together no more than the refusals and the fresh token in the cache. The property alone does not know who is about to throw a token away, and two calls might do it for one refusal. |
| `EmptyTokens` | `CallInv`: a call of "graph" between the cache and its request finds a token in the cache, or there was a refusal |
| `Expiries` | `CacheInv`: what the cache says of a token is at most its expiry and the time it was on its way, which `LateInv` bounds by the HTTP client's patience; so a call has a token (`CallInv`, `Armed`) that had more than the skew left by the client's count when it was taken. The property alone does not say what the cache believes. |
| `RefreshRefusals` | `RefreshInv`: client and server have the same refresh token unless an answer was lost or the file's was read again |
| `RefusedTokens` | `CallInv`: once a call has thrown its refused token away the cache holds another, and no step but `Send` takes a call to a request (`OwnReaches`, `AnswerReaches`) |
| `StreamsFaithful` | not of a state: after n events what was read `Agrees` with those n (`AgreesNext`), so the calls that the stop reason counts are those before the last end that states a status, or all of them if none does |
| `StreamsAreRead` | from it |

A recursive function is where a proof needs induction. The library states it
for a predicate, which the provers here cannot instantiate, so `NaturalSets`
states it with a set (`Upward`): a set with zero, and with n + 1 for each n in
it, has every number. It rests on `Least`, a set of numbers has a least one,
from the well-foundedness of finite sets. `AddsProper` (the loop of
resolveChain) and `ReadsAgree` (the loop over a stream) use it, once for the
function to exist and once for what it computes.

Only model-checked:

- the liveness properties `RunEnds`, `StopReturns`, `CompleteReturns`,
  `CallEnds` and `SetupEnds`, with `Contract!Prompt` in `ContractSpec` and the
  promise to settle in `InboxSpec`: they rest on fairness, and so on ENABLED,
  which is out of the prover's reach. The safety of both refinements is proved
  (`ImplementsContract`, `ImplementsInbox`).

## 6. Findings

Each is a run that TLC finds violated.

- **find_disable** — `jobs disable` lasts until the next process starts: every
  Start upserts `enabled` from `viaduct.yaml` (scheduler.go 87-118), and every
  `jobs` command is a process that starts.
- **find_runnow** — `jobs run` returns before the run: it is a goroutine that
  neither Stop nor the command waits for, and the process exits under it.
- **find_nextrun** — `next_run_at` is the zero time after Start: `Entry(id).Next`
  is read before `cron.Start` has computed it.
- **find_levels** — of `permissions: [read, write]` only the first entry counts
  (main.go 415-417, scheduler.go 43-46), so the example configuration denies
  every write and its own job is always refused.

One more is modelled and left without a run: a job's own `permissions`
(viaduct.example.yaml 101-103) are compared with the connectors' before the run
(scheduler.go 305) and limit nothing in it, as the checker knows the
connectors' levels only (agent.go 338, 342).

## 7. Not modelled

- Overlap across processes: the flags are in memory, so a daemon and `jobs run`
  may run one exclusive job at once. `NoOverlap` speaks of one process.
- `cost_limit_usd`, `on_failure`, `run_on_startup_if_missed`, a job's own
  `timezone` and the escalation settings are parsed and used nowhere.
- LLM providers beyond their outcomes, but for the Codex stream; what connectors
  find, its texts and its paging.
- Encryption, credentials and memory tables: nothing calls them.
- Migrations: numbered files applied once at Open. Two processes that open one
  new database at once are a hazard that no run covers: the second one fails.
- Of onboarding: prompts, the discovery of models, the browser's launch. Of the
  configuration: defaults, cron, timezones and the checks of jobs and connectors.
- HTTP handlers and output, which only read.

**What the models allow because the code does.** The repair of the llm section
reads the file before a login of minutes and writes it back whole; what another
session saved in between is lost, and a kill inside os.WriteFile leaves a
truncated file (`SavedIsKept` excludes exactly these). A default provider that is
missing prints as "<nil>" and is refused by the repair that was offered for it
(`Repairable`); a Slack app token that is missing is likewise not taken for a
blank one, so the bridge starts and Listen refuses (`Enabled`). `Documented`
leaves out the spellings of a provider on which onboarding and Load disagree: an
openai provider with an oauth block and no auth_type (oauth to onboarding, an
API key to Load), with oauth and an API key, or with a mode that is neither of
the two (complete to onboarding, refused by Load); a custom provider that is not
oauth, has an API key, no base_url or another mode than client_credentials
(which onboarding does not look at), or has a refresh or access token (then
onboarding asks for a refresh token and Load for the secret); and another
provider with auth_type oauth (Load wants its API key nevertheless). The route of
a task, and the chain, may name a provider that is not configured, and if no
other route is given nobody can be asked (`ServingIsBuilt` excludes that). Of two
processes, one that starts may undo the last_run_at of a run that the other
ended after the table was read (`LastRunKept` allows exactly that). The azure
library may hand out a token again that a service has refused (`FetchedAgain`),
so `RefusedTokenDropped` speaks of the Microsoft 365 connector only. A mention inside a
thread the bot knows is worked on twice (`OneTaskPerMessage`). Listen does not
look at who wrote an app mention: if Slack announces a mention of the bot in the
bot's own text, the bot answers itself (`NeverAnswersItself` excludes that). A search of
Microsoft 365 that is retried sends an empty body (`Drain`). A refresh token that
was rotated is kept in memory only, so a restart may find it refused
(`RefreshRefusalExplained`). Two calls that give up while the limiter holds them
may leave more tokens in the bucket than there should be (`TokenBudget`).
