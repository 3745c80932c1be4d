# Verification of the Antikythera MCP framework

TLA+ modules of the framework's core logic, TLC configurations that check them on
small instances, and TLAPS proofs of what matters most for every instance.
Paths are relative to the repository; line numbers are those of the commit the
project was written against. `PROJECT.json` maps every definition to the lines it
stands for and lists runs, mutants, hazards, findings and theorems.

## 1. The system

An *agent* is a session of turns with a language model. The SDK is compiled to a
WASM component whose *runner* keeps the sessions; a *host* drives it: prepare a turn,
call the model, commit the reply, execute the tool that was asked for, feed the result.
The server runtime is one such host (wasmtime, one core per thread); its peer, a client
in JavaScript or Python, holds tools and hooks of its own and is reached over an SSE
stream and POST-backs. Beside it stand the multi-agent orchestrator, storage, and the
libraries a host links: an agent of its own with a session store, the rate limiter, the secret
manager, the logger.

```
        client (JS, Python) <--SSE / POST-back--> ControlChannel
                                                       |
  host-imports, HTTP, CLI --> run_tool_loop --> ToolRouter --> MCP stdio child
                                   | \          (local | remote | mcp)
                                   |  `--> LlmProxy (quota, provider, token pump)
                                   v
                            WASM AgentRunner --FSM--> sessions, events, snapshots

  Orchestrator: scheduler --> dispatch --> router, guardrails, permits --> agent
  StorageEngine: cache --> file --> backup file <-- sync
  ServerManager: one McpStdio per tool server
  HostAgent --> RateLimiter, SessionStore --> SessionManager      SecretManager, LogStream
```

### Inventory

| Component | State | Operations | Talks to | Hard part |
|---|---|---|---|---|
| WASM agent runner (`antikythera-sdk/src/wasm_agent`) | sessions (FSM, history, steps, stream buffer, telemetry), archived snapshots, pending events, clock stamps | init, append chunk, prepare, commit (reply or stream), process result, sweep, reset, drain, telemetry | host, hooks | call orders the host chooses; archival in the middle of a turn; failures half-way |
| Tool loop (`server-runtime/src/loop_owner.rs`) | remaining rounds, drained events | run_tool_loop | runner, provider, router | tells in-band executions by events; errors leave the session as it is |
| Control channel (`control.rs`, `wit.rs`, `routing.rs`) | clients, pending map with deadlines, broadcast buffers | register client, push, register, complete, cancel, sweep | core threads, HTTP workers, peer | answer, deadline and waiter's timeout race; reconnects |
| Tool router and gate (`routing.rs`, `registry.rs`, `config.rs`) | registry, handlers, tool-to-server map, transports | register by three sides, resolve, execute | control channel, MCP | four maps with a lock each |
| MCP transports and manager (`mcp.rs`, `antikythera-tooling`) | child process, handles, ids, tools cache; a transport per server | connect, send_request, notify, disconnect; ensure_instance, call | child process | handles taken out across awaits, dropped futures; two first calls of a server |
| LLM proxy, quota, state store (`llm.rs`, `wit.rs`, `host.rs`, `http.rs`) | calls per session, contexts, token task | call, stream, save, load | providers, control channel | slots of failed calls, wholesale reset, late tokens |
| Multi-agent orchestrator (`antikythera-core/.../multi_agent`) | counters, semaphores, cancel flag, registry, sessions | register, dispatch, dispatch_many, pipeline, cancel | agents, guardrails | permits, retries, cancellation, counting by many tasks |
| Storage (`antikythera-storage`) | cache, files, backups | save, load, delete, list, sync | file system | crashes, failed writes, sync beside requests |
| Rate limiter (`antikythera-security/src/rate_limit.rs`) | windows per session, cleanup thread | check, usage, reset, update_config, cleanup | core, ports | three windows charged in turn, cleanup |
| Session managers (`antikythera-session`, `domain`, `session_store`, `multi_agent/session.rs`) | sessions, access order | get or create, touch, evict, replace history | core client | two structures that must agree |
| Secret manager (`antikythera-security/src/secrets`) | versions per secret, configuration, rotation thread | store, get, rotate, delete, update_config, thread | ports | version numbers that repeat; rotation beside stores |
| Resilience (`antikythera-resilience`) | policies, health | prune, retry | core | holes in pruned histories |
| Host-side agent runner, client (`antikythera-core/.../agent/runner.rs`, `client_chat.rs`) | turns, corrections, histories | run, chat, prune_session | provider, limiter, tools, session store | who pays for which call; what a prune loses |
| Logging (`antikythera-log`) | buffer, sequence number, subscribers | log, clear, subscribe, receive | everything | two mutexes per entry; bounded channels that block |
| Streaming buffer | bounded queue | push, drain | nothing in the repository | |
| Hooks, discovery, stdio, observability, configuration, providers, ports, facade, macros, plugins, SDK rest, JS and Python peers, contracts, examples | little or none of their own | | | |

What makes each correct: the runner loses no message but where it cuts a history, and books a turn once; the
loop executes a call once and ends if its answers come; the channel gives each request one verdict, its own,
and never hangs; the router sends a tool only to its owner and only if allowed;
a transport gives each request its own answer and keeps its handles, and the manager has one
transport per server; the proxy admits what the quota allows and delivers the tokens it read in order;
the orchestrator keeps its permits and budgets and answers each task; storage keeps a whole copy through
one fault and never serves a stale one; the limiter admits no more than its limits; a host's agent
bounds the calls of a run and its store forgets only what it evicts; the secret manager serves the newest value
that is valid; the logger loses no entry between its two mutexes.
The hazards behind these are in `PROJECT.json`, each at its line.

## 2. Modules

| Module | Models |
|---|---|
| `AgentFsm` | `domain/fsm.rs`: states and allowed transitions |
| `AgentRunner` | the exported functions of the runner, one action each; every function locks the runtime for its whole body |
| `ToolLoop` | `run_tool_loop` as a host of `AgentRunner` (EXTENDS it): each of its steps is an action of the runner or leaves the runner alone |
| `RemoteRequest` | abstract: a request to the peer is settled once, granted only by an answer to it, never left hanging |
| `ControlChannel` | hook decisions and remote tool calls over the channel; implements `RemoteRequest` |
| `ToolRouter` | registry, gate and routing, one action per locked section |
| `McpStdio` | the stdio transport and its child |
| `ServerManager` | the map from tool servers to transports, and the calls that fill it |
| `LlmProxy` | quota, choice of the provider, whole and streamed calls, the task that sends tokens |
| `BoundedPool` | abstract: a pool of places that each member enters at most once |
| `TaskDispatch` | the orchestrator's budgets, permits, scheduling and attempts; implements `BoundedPool` |
| `TaskGuards` | the chain of the built-in guardrails, asked before a task, before an attempt and after a result |
| `AgentRouting` | the orchestrator's registry, its routers and its list of sessions |
| `SessionStorage` | engine, cache, files, backups and their synchronisation |
| `RateLimiter` | windows, cleanup thread, configuration changes, time |
| `SessionStore` | the bounded LRU store over the session manager, and `prune_messages` |
| `HostAgent` | runs of the host-side agent that share a client (EXTENDS `SessionStore`) |
| `SecretManager` | versions of secrets and the rotation thread |
| `LogStream` | the logger: numbers, buffer, subscribers |
| `Subsequences` | what a filter (`retain`) leaves of a sequence; used by cache, limiter, prune and proxy |
| `MC*` | small sets, symmetry and sequences for TLC; `MCServerRuntime`, `MCOutsideCalls` and `MCHostLibraries` put several components side by side |
| `*_proofs` | theorems about the module they are named after; `ServerRuntime_proofs` is about `ControlChannel` and `ToolRouter`, `OutsideCalls_proofs` about `McpStdio`, `ServerManager` and `LlmProxy`, `HostLibraries_proofs` about `HostAgent` with its `SessionStore`, `SecretManager`, `LogStream` and `RateLimiter`, `TaskDispatch_proofs` also about `TaskGuards` and `AgentRouting` |

### How state and actions correspond to the code

**AgentRunner.** `rt` holds a `SessionRuntime` per session in memory (`live`), with its FSM state,
history length, step counter, stream chunks, telemetry counters and time stamp, and the configuration it was
created with (`config`: step limit and idle timeout). `init` may change the defaults for sessions created
later (`defaults`) and the capacity (`maxInMemory`); a session in memory keeps what it has. A reply of the model
is what the parser and validation make of it (final text, tool call,
rejected call, garbage). Events waiting to be drained are counted by kind. Message
texts are gone; what remains is how many messages were written under an
identifier and where each is now: in the history, told by the rolling summary alone (`covered`), in a snapshot
that is queued or was drained, or forgotten.

A history is cut by `maybe_update_summary` under the policy of the request or the default one
(`Policies`: thresholds, and `KeepNewest` or `KeepBalanced`). The new summary is made of the messages before the
last `max_history_messages` and *replaces* the one before it, so what that one told is forgotten, and so is what
`KeepBalanced` leaves between the end of the summary and its tail (`Forgets`). The text of a summary is cut to
`summary_max_chars`, so that "told" says which messages it was made from. That cut is made at a byte and panics
inside a character (`context_manager.rs:32`), which is not modelled. A host may sweep at a time of its own (`HostTimes`).
`register_tools` is part of what a reply is.

**ToolLoop.** The program counter of one core thread. A run starts with a `max_steps` of its own
(`limit`), which its init also makes the default of sessions created later. The provider and the router
answer, fail, or never come back: only tools in `Timed` (the peer's, by the TTL of `routing.rs:252`) are sure to
return, and no call of a provider is. A hook that overrides a tool
result keeps the tool's name, and a peer's result names the tool it was asked for.

**ControlChannel.** A request is a core thread: gate, register the pending entry, check
the connection, push, wait. Time is the time left of each entry and each waiter, which start
at different moments. A stream is a broadcast channel with a bounded buffer. The peer
answers what it received, any number of times and at any time, and owes nothing. The policy
may deny a remote tool call (`check_tool`) or a hook (`check_hook`) before it is registered.

**ToolRouter.** A call passes its lookups one by one, so registrations come between
any two. Registering a list is one action where the code holds one lock over the loop.
The remote call is one step (its detail is `ControlChannel`). Arguments that cannot be parsed fail a call
of a local handler and of a server.

**McpStdio.** A request holds the fair lock from write to answer; each handle is in
its `Option` or not; the queue of the lock is explicit; a future may be dropped at
each await. The child (external) answers in any order, says lines that answer nothing
or are no JSON, ends, or stays silent. `disconnect` is modelled although nothing in
the repository calls it yet.

**TaskDispatch.** `Batches` are the calls of `dispatch_many` and `pipeline` under way at the same
time, each with its mode and workers; the scheduler decides which tasks of a batch may start. Each task goes through the counters, the guard, the permit, the guardrail
and its attempts; other tasks run between any two steps. `WithinSteps` takes guard and
queueing together. A limit that is `None` in the code is a number that is never reached.

**SessionStorage.** A file holds a version, nothing, or a torn write; a save writes the file,
the backup and the cache in turn and may fail or crash after each, and each write truncates before it fills. The
synchronisation runs beside the requests, as in the code, which has no lock over files: two writes
of one file may mix, and a file may vanish under a write (`Filled`). History variables
tell what the properties depend on: which sessions the synchronisation wrote since they were last saved
(`synced`), and at which it met a save or a delete (`met`, until a request that it did not meet is reported; `clash`
is that fact for the request at hand). Not
modelled: requests dropped in the middle, the dirty flags (nothing cleans them), and
the sync mode (`save` never consults it). `MaxSessions > 0` is assumed: with 0 the
eviction loop does not end.

**RateLimiter.** Instants are ages in ticks; integers have width `Width` where the code adds in u32.

**ServerManager.** `ensure_instance` is two actions, the look under the read lock and the insertion
under the write lock; connecting, between them, takes as long as it likes and may fail. Transports are
numbered as they are made. A call keeps the transport it was given, also when a rival replaces
it in the map.

**LlmProxy.** A call passes the quota, looks up its provider, and runs as one request or as a
stream. A stream is a sequence of lines that arrives in chunks of any size, of which a line may be
torn; the lines a chunk completes alone are parsed. The tokens go through an unbounded channel to a task of
their own. The stream may break off, and its caller may be answered before its tokens are out.

**SessionStore, HostAgent.** The store is the access order and, under its own lock, the
sessions; every operation holds the lock throughout except `prune_session`, which releases it
between reading and replacing the history and is two actions. A run passes the rate
limit, asks, decides what it got (final text, tool call, no JSON), corrects, calls its tool, goes on, or is dropped
at any of these; the provider answers with the session it was asked with. A history is a sequence of
messages of which only cost and owner matter. `prune_messages` walks from the newest message to the oldest and takes what
fits; `Selected` is that walk as a recursive function from the set chosen so far, and what is left of the history is the subsequence at its indexes.

**SecretManager.** Every operation holds the mutex. A limit of 0 versions removes each value as it is stored and leaves
an entry without any (`known`). A value is the number of the call that
stored it; `valid` is a history variable. The thread works with the age it was started with.

**LogStream.** Taking a number and keeping the entry are two actions, since each has a mutex of its own.
Delivery is a round over the senders under the mutex of the subscribers; a send into a full channel waits.
After the round the senders that failed are removed from the last to the first, one removal a step (`RemoveFailed`).

**TaskGuards.** The chain is what the host built, in its order; a task asks its guardrails up to the first that
refuses. Time and token are read before, so tasks come to the queue of the rate limit out of order. The part of
the budget guardrail that reads the budget all tasks share is in `TaskDispatch`.

**AgentRouting.** `profiles` is the order in which the hash map of the registry is iterated: any order, and another one
when an agent is added. A single task is routed when it has its permit, a batch task by task before any of it begins, both
over one atomic counter. `managed` is the list of sessions; its operations hold one mutex. Agents are registered
while no task is under way, since `register_agent` takes the orchestrator by value.

**Side by side.** `MCServerRuntime`, `MCOutsideCalls` and `MCHostLibraries` each configure
components that share no state. The initial state chooses a `part`, and only that component takes steps, so the states
explored are the sum of those of the components, and a property about one of them is decided in its part;
fairness is stated for the steps of the part that runs.

## 3. Runs

A passing run explores its instance to the end. A run with *violation* checks one
sentence of a doc or a comment that the code does not keep; the finding in
`PROJECT.json` quotes it.

| Run | Instance | States | Shows |
|---|---|---|---|
| `runner_turns` | 1 session, limits of 0 and 1 step, 3 context policies that cut histories, 2 turns, every reply and hook verdict in every order | 452k | one reply is booked for a turn; the step limit a session was created with bounds its tool rounds; archival and re-creation lose no message, and cuts of the history only those that the replaced summary told or that `KeepBalanced` drops |
| `runner_capacity` | 3 sessions created with and without an idle timeout, room for 1 or 2, sweeps at the host's time | 348k | no step takes a session with a buffered stream out of memory; the oldest are archived first, each by its own timeout |
| `loop_runs` | 2 runs on 1 session with limits of 2 and 3 rounds, a builtin, a timed host tool, an untimed tool unknown to the runner, hooks that swap actions, idle timeout | 280k | a call is executed once at most; loop and FSM agree; a call is skipped only after a call of the same tool; every run ends that is not left without an answer that nothing times |
| `loop_skipped` (violation) | 1 run | | the second call in a row of a host tool is skipped |
| `runtime_calls` | channel: a remote tool call and a hook, 2 streams with a buffer of 1, tokens; router: 2 tools, 2 MCP servers, a call, overlapping lists | 321k | an answer that was accepted is taken; no entry leaks; `ControlChannel` implements `RemoteRequest`, its liveness included; a call goes to the owner of its tool and passes the gate; an owner can serve, with two named exceptions |
| `outside_calls` | stdio: 2 calls, 1 line of noise; manager: 3 calls on 3 servers, one without configuration; proxy: a stream of 2 or 4 lines and 2 calls that compete for a quota of 1 | 57k | own answers, handles put back, calls end if the child answers or ends; a transport is replaced by a rival only; the quota; tokens are delivered in order and in full |
| `mcp_connected` (violation) | 1 call | | a dropped call leaves a transport that is connected and useless |
| `dispatch_tasks` | a parallel batch on 1 worker beside a pipeline, 2 permits, 1 retry, a deadline, an unroutable task, budget guardrail | 236k | permits are conserved; cancel stops; task budget; the step budget is exceeded by one result per permit but one; implements `BoundedPool`; every task is answered |
| `storage_files` | 2 sessions, cache of 1, 1 fault, synchronisation beside requests | 2.7M | cache order and coherence; one whole copy of every acknowledged session that the synchronisation did not meet in a save or delete |
| `storage_synced` (violation) | 1 session, synchronisation beside requests | | a backup that was never synced is deleted |
| `llm_split` (violation) | the proxy of `outside_calls` | | a line that two chunks share is missing from the reply |
| `host_libraries` | limiter: 2 sessions, 3 configurations, 1 change; agent: 2 runs, 3 sessions for 1 place, a correction, a prune; secrets: 4 values, 4 configurations (one keeps none), 2 changes; logger: 2 threads, 3 subscribers, a clear; guards: 3 tasks, 2 chains; routing: 2 agents, 2 roles, 2 tasks and a batch of 2, 4 routers, a counter of 3 values, room for 1 session | 245k | the limit of the minute, the charges of the day, idle sessions leave; access order and sessions agree, calls of a run are bounded, a prune and an eviction take what they must and nothing else; the newest valid secret is served; the buffer has no gaps, a live subscriber stays, a logger whose subscribers read returns; the latest window of the rate guardrail holds; the round robin is even up to one turn per overflow |

**Bounds.** Each bound is a guard and is named where it is declared. They were chosen so
that the case a property is about occurs: two of what competes (permits, streams,
servers, sessions over capacity), one more than fits, a retry, a fault where one is
tolerated, one line of noise before an answer. Histories long enough to be summarised and to pass the
step limit fit in a few messages; a cut that forgets, twice in a row, too. One call is enough in the router, because calls never change the registry: two
of them can only meet in the channel, which is checked with two. Each property also has a mutant in
`PROJECT.json`, a plausible bug in one definition that makes TLC find it violated under the
same bounds, so the case does occur. Clocks are bounded by `MaxTime`, `Ttl` or the sizes of windows;
ages beyond a window are one value. Symmetry is used in runs without liveness only.

**Fairness.** `ControlChannel`: time passes and each request's thread is scheduled; nothing is
assumed of the peer. `LlmProxy`: the task that pumps the tokens is scheduled. `LogStream`: a thread that logs
is scheduled, and the subscribers that exist read; without the second `LogReturns` is
false, since a send into a full channel waits. `TaskDispatch`: each task is scheduled, and a run of an agent ends (by
itself, or by the task's timeout). `RateLimiter`: time passes and the cleanup thread is
scheduled. `ToolLoop`: the core thread is scheduled, except while it waits for a provider, or for a tool that is not
`Timed`: nothing in the code ends those waits, and `RunsEnd` says that they are the only thing a run can hang on. `McpStdio`: each
request's task is scheduled; that the child answers or ends is a premise of `CallsEnd`,
since nothing in the code enforces it.

**Deadlock** is not checked where a system really stops: requests, batches, runs and
registrations are finite in number and end (dispatch, loop, and the parts of the three
configurations that put components side by side).

## 4. Proofs

Each proof module holds for any value of the constants that satisfies the named
assumption of its component.

`AgentRunner_proofs`. The inductive invariant is the conjunction of `TableOK` (each runtime in
memory is sound, `RuntimeOK`: its types, and how its turn, commit and result counters agree with
each other and with its FSM state), `OthersOK` (the rest of the state has its types and names known
sessions only) and `MessagesConserved`, whose account includes what cuts forget (`CutBounds` and `CutRuntime` say what a cut
makes of a history under any policy). It is stronger than the properties:
`EachTurnCommittedOnce` alone is not inductive, because whether a commit is booked depends on the FSM
state that an earlier call left; nor is `ToolRoundsWithinLimit`, which needs `Rounds`, how rounds and
recorded steps relate in each FSM state, under the limit the runtime was created with. Every action is taken apart into what it does to one runtime (a lemma for each
helper: `DecidedRuntime`, `BookedRuntime`, `RecordedRuntime`...) and what it does to the table (`StoredTable`,
`SweptTable`, `StoredMessages`). From it follow `TypeCorrect`, `CommittedOnce`,
`CountersConsistent`, `StepLimit` and `NoMessageLost`. For the two action properties every action is reduced to what it does to the table of
sessions (`TableStep`: a call for one session, a call that only archives, a reset, or time). `StreamsKept` then needs that a runtime which is
changed and kept either has its chunks still or has booked a commit (`Onward`); `ArchivedByAge` needs that nobody was
touched later than now (`TouchedByNow`, in `OrderInv`): the session for which others are archived is stamped with the present, so it is none of those
that are older and stay untouched. Whoever a sweep spares though older has a timeout of its own that has not passed (`Spared`).

`ToolLoop_proofs`. `HostStep`: every step of the loop is a step of `AgentRunner` or leaves it alone
(`ImplementsRunner`; its init is one that leaves timeout and capacity as they are), so the loop inherits the runner's theorems, `LoopLosesNoMessage` among
them. `TurnsAreBounded` and `NeverExecutedTwice` have invariants of their own, over the counter of the
loop, which stays below the limit of the run, and over what it drained. `EventsInv` says for each stage which events can be among the drained ones, and
gives `OnlyRepeatsAreSkipped`; on top of it, with the runner's `TableOK`, `LoopFsmInv` gives
`LoopFollowsFsm`: what a prepare and a commit leave in the FSM (`PreparedStreams`, `CommittedCallRequests`) is what the stage expects.

`SessionStorage_proofs`. Nothing is assumed about the synchronisation: it runs beside any request. `OneCopySurvives` assumes
that backups are on. The number of faults is free. `Meetings` says that a request and the synchronisation are at the same
session only if both marks are set, so that elsewhere each file has one writer. `CoherentInv` adds to coherence that the
synchronisation leaves the marks behind that the exceptions name; `CopiesInv` says step by step which of the two files is
whole while the other is written, at every session that is not marked as met. The run `storage_synced` shows what is lost at one that is.
For `QueueMatchesMap`, `OrderedInv` says that the queue names the cached sessions, each once, and that there
is room for them; its length is then their number (`QueueLength`), which is why the loop that evicts finds someone to evict.

`TaskDispatch_proofs`. Permits: free ones and holders add up, proved with the cardinality of the set of
holders (a lemma for entering, one for leaving). `CountInv` relates the counter to the
tasks that passed it, so that counting before comparing keeps the admitted ones below the limit
(`TasksAreCapped`); `CancelInv` gives each task at most one run after cancel. `ImplementsPool` maps
holders to the places of `BoundedPool`. For the step budget, `UsedInv` says what a run that is not recorded yet may
have used, and `OverrunInv` that all results still waiting fit on top of the consumed steps, or all but one; no more
results wait than permits are held. For the rate limit, `WindowInv` gives each task of the latest window a place of its
own in the queue: a queue that is full when it was trimmed was not trimmed (`WindowStep`), and a time that is
trimmed is outside the latest window too. For the round robin, `DealtFrom` splits the shares into those of the time
before the counter last started over and equal rounds since; positions with their turn in the present
round are a cyclic interval (`HadTurn`), which a turn extends or completes (`TurnAdvances`, and
`NextRemainder` for the counter's remainder). `GuardsTyped` and `RoutingTyped` are the type invariants of guardrails and routing; the second one
has in it that the list of sessions never exceeds `max_sessions` (`CreatedFits`).

`ServerRuntime_proofs`. For the router, `RouterInv` adds to the properties that a server which a tool is mapped to has
offered it (`ServersOffered`) and that a call has no destination before it was resolved
(`CallsResolved`). `RoutedToOwner` is about a decision used after the lock of the registry
was released; it survives registrations because of `OwnerKept`, the fact behind
`OwnershipIsFinal`, and because offers only grow (`RegistrationKeepsCalls`). The steps of a call are
instances of one lemma about a changed record (`CallStepKeeps`).

For the channel, the invariant says for each request what its map entry, its stage and its verdict have to
do with each other, that an entry expires before the waiter gives up (the entry's deadline starts
earlier), and that what the peer knows was sent (`KnownIsSent`), without which an answer could be accepted
for a request that was not asked. From it follow `CompletedReachesWaiter`, `NoEntryLeaks` and
`ChannelRefines`, the safety part of the refinement: initial states map to initial states of `RemoteRequest`, steps to steps
or stutters.

`OutsideCalls_proofs`. For the transport, `OwnAnswer` needs that ids are given once and for good (`IdsDistinct`), that every
answer in the pipe and every answer owed carries the id of its request (`LinesOwned`), and that connect
sends its two requests once (`ConnectOrder`). That one request works at a time (in `TypeOK`) rests on three
lemmas about the queue of the lock, the one about a dropped future (`QueueWithout`) among them.
For the manager, every transport in the map or in a call was made (`MadeSince`), and the
transport a rival made is newer than what a call saw; so a replacement is one by a rival. For the quota,
`Accounted` relates the counter, the calls that passed since it was last cleared, and the number
of clearings: the quota holds per clearing, and no more than that is true (section 6). For the tokens, `TokenInv` says that what is out, followed
by what is on its way, is the reply (`TokensFollowReply`), and that the tokens of a stream are places of lines that were read,
growing: a chunk adds the same tokens to both (`ChunkKeepsTokens`) and they lie behind those before (`MoreInOrder`). This is the safety part of
`EveryTokenDelivered`: nothing lost between handler and pump, nothing twice, nothing out of order.

`HostLibraries_proofs`. The store: both structures name the same sessions, each once, through touch, creation and eviction,
with lemmas about sequences that name nothing twice (`AppendNew`, `RemovedOnce`, `TailOnce`). The agent:
`Paid` accounts for the calls a run made by its turns and corrections, from which the bound follows. The histories (`OnlyChosenVanish`): `HistoryInv` says that a message that was pushed is still held, or was evicted, or chosen by
the prune, or came between its two sections; while a prune is between them its replacement is a subsequence of what the session held at
the first. Every push and replacement is reduced to what it makes of the store (`Becomes`). The logger: the buffer is a run of
numbers up to the one that was taken last and kept (`RunUpTo`), while at most one thread is between the two mutexes. The subscribers (`LivingStayListed`): `StreamInv` says that
one round is under way at a time (`Rounds`), that the indexes it found to fail grow and are those of dropped receivers (`FoundGone`), and that
whoever is live is in the list, once (`Listed`); a removal at the greatest of them moves nobody that a smaller one names. The
secrets: `Versions` says that values grow along the list, that version numbers do not fall, that active means valid, and that a valid
value which was removed is older than all that are left, if any. Version numbers repeat, so the newest is found only
because equal numbers are resolved by position (`LatestIsLast`, proved from the well-foundedness of the order on numbers). The limiter: a window is a sequence of ages, of
which a check keeps the young ones; what matters of it is how many ages of a set it has (`Num`), and that number is known of a filtered, aged or extended
sequence. `SessionOK` relates the windows of a session to the requests it was let through: the minute has all that it must count, the day none
that was refused. From it `MinuteLimitHolds`, although the cleanup forgets sessions, since it forgets only whose minute is empty, and `DayOnlyForServed`.

`Subsequences_proofs`. A filter with a predicate is recursion over a sequence, and what it returns for every sequence would be proved by
induction over data. `Subsequence` finds an element by its rank among the indexes that stay instead: ranks are cardinalities, they
grow with the index (`RankGrows`) and each is taken (`RankOnto`: an injection between finite sets of the same size is onto). So a subsequence lists its indexes in order
(`NthLists`), and its type, range, injectivity and how often it has what follow (`SubsequenceReads`, `SubsequenceRange`, `SubsequenceInjective`, `SubsequenceCounts`).

Every invariant and every safety action property of a passing run is stated by a theorem. Only model-checked: liveness (`IdleSessionsLeave`, `LogReturns`, `EveryTaskAnswered`, `RunsEnd`,
`CallsEnd`, and that `EveryTokenDelivered` arrives), which needs fairness and ENABLED; the liveness half of `RemoteRequest` in `SettledOnceByThePeer`; and
what a definition computes by recursion over data, which here is only which messages `Selected` takes: the proofs need that it
takes indexes of the history and nothing more. The four violations are counterexamples of TLC.

The type invariants that no run lists (`TypeOK` of each component) are documentation of the state; all of them are proved.

## 5. Plan

Written in this order: runner, channel, storage, dispatch, limiter, loop, router,
transport; then the manager, the proxy, the host's agent and its store, secrets, logger, guardrails, routing, and the
proofs about them and about the channel. What is left, should the project go on:

1. `Selected` as a selection with the properties the caller relies on (the newest first, within the budget), once the prover can do induction over data.
2. The state store of the server runtime, once it does more than check a size under a lock.
3. The loop of the JavaScript runtime as a second refinement of `AgentRunner`'s host, and the Python
   server's channel against `RemoteRequest`.

## 6. Divergences met and not run

While the modules were written, the code was found to differ from its docs in these places
too. The modules model the code; no run is kept for these.

- Runner. A rolling summary does not roll: it is made of the messages cut now and replaces the one before it
  (`context_manager.rs:20`, 70), and `KeepBalanced` drops messages that no summary tells (57-67); `MessagesConserved` counts both
  as forgotten. An `init` changes step limit and idle timeout for sessions created later only (`mod.rs:181-204`), so sessions of
  one runtime may be swept by different timeouts. A call other than `init` revives an archived session blank under the same
  identifier (`session_lifecycle.rs:165`). `process_llm_response`, a dry run, uses up the FSM step of
  the turn (`llm_stream.rs:678`). A tool result in the wrong state is recorded and counted before it
  is refused (`processor.rs:169`).
- Loop. The loop hands its `max_steps` to the runner, which counts calls and results and never
  resets, so the runner refuses after half as many host rounds (`loop_owner.rs:77`, against
  line 6). A reply slower than `session_timeout_secs` meets the sweep at the head of its own
  call, which archives the session of the turn (`llm_stream.rs:317`).
- Timeouts. Only remote tool calls and hooks have one: a call of an MCP server (`routing.rs:306`, `mcp.rs:266`) and of a provider
  (`llm.rs:159`, 281) may hang its core thread for good, which `RunsEnd` and `CallsEnd` name as the exceptions.
- Channel. A request pushed before a reconnect, or pushed out of the buffer by tokens, is not
  sent again (`control.rs:59`, against lines 90-91 and `documentation/WIRE_PROTOCOL.md:269`). A dropped receiver
  counts as connected until the client registers anew (`control.rs:68`, against line 90).
- Storage. `verify_sync` checks only that the file exists (`backend/filesystem.rs:142`). `delete` leaves
  the backup file, so the next synchronisation brings the session back (`lib.rs:155`). The
  synchronisation writes files behind the cache; `CacheCoherent` names the exception.
- Orchestrator. `Concurrent` yields results as they end (`scheduler.rs:90`, against
  `orchestrator/mod.rs:452`). A limit of N tasks lets N-1 through (`orchestrator/mod.rs:92`, against
  `budget.rs:60`), which is what `TaskCap` says. Steps of failed and rejected attempts are not counted
  (`orchestrator/mod.rs:441`). The budget guardrail can be overrun by concurrent results
  (`StepOverrunBounded`). With `max_retries` 255 the saturating attempt counter never exceeds the limit
  (`runtime.rs:176`). `RoleRouter` refuses a task whose role is missing or unmatched (`router.rs:210-214`),
  where its comment promises the first agent (184-185); "the first agent in the registry" (145) is the first in hash
  order. `dispatch_many` tracks no session (`orchestrator/mod.rs:465`, against 199). A session keeps the agent it was
  first used with (`session.rs:84`), an error for want of room is dropped (`orchestrator/mod.rs:412`), and a session may be
  evicted while its task runs, whose message is then counted nowhere (`session.rs:172`).
- Limiter. The cleanup forgets the hour and the day of a session idle for 300 s
  (`rate_limit.rs:302`). A request that a later window refuses stays charged to the earlier ones
  (`rate_limit.rs:198`, against 143-144). `get_usage` counts expired instants (216). The sum of limit
  and burst is a plain u32 addition (55), which `EffectiveLimit` models with `Width`.

- Proxy. A line of a stream that the network splits between two chunks is lost from tokens and reply
  (`llm.rs:217-225` and 361, against lines 49-50; run `llm_split`). The quota is cleared for everyone once more
  than 1024 sessions have a counter (`wit.rs:78`), so `QuotaHolds` counts per clearing; calls without a session share
  one counter.
- Manager. Two first calls of a server both connect, and the later one replaces the earlier in the map, whose child
  stays with the call that has it (`manager.rs:113`).
- Agent. Corrections of answers that are no JSON are not rate-limited (`json_retry.rs:77`, against `runner.rs:40-41`), and
  the first call of a run is charged twice, once under "default". `prune_session` releases the
  lock between reading and replacing, so exchanges pushed in between are lost, and an evicted session may come back
  (`client_chat.rs:223`, 229-231). `prune_messages` keeps older small messages behind newer large
  ones (`context_window.rs:82-86`, against 112-118). The system prompt goes with the first call only and is not stored
  (`runner.rs:151-155`). The parser never makes a `CallTools`.
- Secrets. `update_config` says it restarts the rotation task if needed (`secrets/mod.rs:232`) but leaves a running thread
  with its old age and does not stop it. The thread deactivates the latest version only, so a value that was superseded
  may be served again (265). `rotation_interval_hours * 3600` is a u32 product (33).
- Logger. The number is one per logger, and subscribers see 0 (`documentation/LOGGING.md:58` and 246 merge by a
  global number). A dropped subscriber leaves the list at the next log only (`subscriber.rs:22-23`), and one that
  stops reading blocks every thread that logs (`logger.rs:258`).
- Guardrails. A task that was late to the queue finds times dropped that its own window covers, so an
  earlier window may hold more than the limit (`builtin.rs:253`, against 261); `LatestWindowHolds` is what remains true. A slot of the window stays
  charged when a later guardrail rejects the task.

## 7. Not modelled

Validation, formatting, configuration parsing, providers' wire formats, observability,
discovery, the terminal front end, macros and generated bindings keep no state that others depend on,
or are pure functions on text. SQL backends and the SSE backup service of storage are thin
over external services. The JavaScript and Python runtimes implement the same protocol again; the
peer is the environment of `ControlChannel`. Code that nothing calls is left out too: the retry helper and the
health tracker of resilience, the event stream and its buffer, `AgentRegistry::remove`. The state
store of `host.rs` and the HTTP transport of MCP are straight lines under one lock, or without state. The guest's ABI glue
(`wasm_runtime`) and the tool plugin have one owner and no order of steps to choose. Attachments, statistics, exports
and domain events of sessions are data. Examples, generated bindings and the build script, a good part of the repository's lines, have
no behaviour of their own, which is why the map covers a small share of all lines and most of the lines that keep
state others rely on. `PROJECT.json` gives the reason for each component.
