# A verification of qiufeng-agent-os in TLA+

TLA+ modules that model the parts of qiufeng-agent-os that carry its logic, TLC
configurations that check them on small instances, and theorems that TLAPS proves
for every instance. The code is at `src/` of this repository (its Python packages
under `src/src/`); every path below is relative to `src/src/`. `PROJECT.json` maps each
definition to the lines it models.

1. [The system](#1-the-system)
2. [The modules](#2-the-modules)
3. [The runs](#3-the-runs)
4. [Fairness](#4-fairness)
5. [The proofs](#5-the-proofs)
6. [What the checks found](#6-what-the-checks-found)
7. [What is abstracted, and what is not modelled](#7-what-is-abstracted-and-what-is-not-modelled)
8. [The plan](#8-the-plan)

## 1. The system

An agent operating system for chat agents. A user sends a message on a channel
(Feishu); a child process receives it, removes duplicates, gives the user a logical id
and puts an event into a `multiprocessing` queue. The parent's consumer loop takes one
event at a time, loads the session's context from storage, lets the user's handler work
on it (answer, call models, call tools, remember), and writes the state back.

```
 platform --> long connection (child) --> mp.Queue --> consumer loop (parent)
               dedup, identity map        feeder,        initialize_context
                                          pipe           custom_execute  --> session facade
                                                         persist_context       |  |  |
                     storage manager: hot store (memory | JSONL | Redis) <-----+  |  |
                                      cold archive (SQLite)                       |  |
                     capability hub: tools, secure primitives, tickets <----------+  |
                     model router: adapters, output parser, repair <-----------------+
 every layer --> structured log (JSONL, rotation) --> tailer
```

| Component | State it keeps | Operations | Hard behaviour | What makes it correct |
|---|---|---|---|---|
| In-memory hot store `storage_memory/backends/in_memory.py` | queue of blocks, system parts, runtime state per session | append, upsert part, read snapshot, delete history, persist, load | two limits that interact; trims of trims | the window is the longest run of newest blocks within the limits |
| Redis hot store `backends/redis_store.py` | a LIST, a HASH, a STRING per session | the same, as sequences of commands | interleaved clients, lost connections, stale `LTRIM` indices | the list is always a run of the newest blocks, and within its limits at rest |
| JSONL hot store `backends/jsonl_store.py` | three files per session | the same, as whole-file rewrites in worker threads | a write that fails or dies after the file was truncated; a value that is not JSON | old and new blocks are never mixed; a failing write harms only the file it writes |
| Storage manager, cold archive `internal/manager.py`, `backends/sqlite_cold.py` | the stores; rows of archived blocks | append (hot, then cold), archive, delete, search | one store fails and the other does not | hot blocks are archived; deletion deletes |
| Session context `qfaos/runtime/context_facade.py`, `orchestration_engine/context/` | a snapshot of the session per turn | initialize, append, set prompt, clear, persist | the snapshot is patched, not reloaded | the handler sees what a reload would show |
| Event pipeline `qfaos/qfaos.py`, `channel_gateway/` | dedup records, identity map, queue, the loop's position | receive, deduplicate, identify, queue, consume | redelivery, clock jumps, death of the child, raising handlers, restarts | each accepted event is handled once, in order, in its user's session |
| Approval of tool calls `skill_hub/primitives/security.py`, `core/capability_hub.py`, `qfaos/internal/` | ticket store, context variable of the ticket | call a tool, ask, admit, spend | expiry, two calls with one ticket, four layers of exception handling | an approval the user gave is honoured, and at most until it is spent |
| Model router, adapter, client `model_provider/routing/router.py`, `providers/`, `validators/` | the current request of a completion; the window litellm knows | complete, cut, call, validate, repair, retry | answers that do not parse; a conversation that grows with each retry; failures that no retry can heal | the provider gets whole tool interactions within the budget; success is usable; at most `max_retries` retries |
| Context budget `model_provider/input_normalizer.py` | none | trim blocks to a token budget | blocks with wrong or unknown token counts; a budget already exceeded | the newest blocks that fit, in order |
| Feishu sender `channel_gateway/channels/feishu/sender.py` | tenant token and its expiry, shared by all coroutines | `send_text_reply` in chunks, `send_feishu_card_reply`, `download_image`; each first makes sure of a token | refreshes that race across awaits; grants and requests that travel late; a call that times out while its request arrives; a chunk that fails in the middle; a download cut off | a token is valid when its request arrives; what arrives is a prefix and the result says how long it is |
| Webhook, parsing `channel_gateway/channels/feishu/webhook.py`, `text_event_parser.py` | the session controller | parse, deduplicate, hand over | the same controller from other threads | as the event pipeline |
| Structured log `observability_hub/jsonl/storage.py`, `cli/tailer.py` | log file and its numbered backups, a lock per process; the inode and position of the tailer | `write_record`, `_rotate_if_needed`; `tail` | the worker and the parent rotate one directory, each under a lock of its own; a kill or a failing rename in the middle; the tailer follows a name that moves | lines stay in order; only the oldest are dropped; files are bounded; the tailer shows nothing twice |
| Trace ids `observability_hub/trace/id_generator.py` | last millisecond, sequence | generate | a thread that is overtaken between reading the clock and taking the lock | ids differ |
| Agent registry `orchestration_engine/registry/agent_registry.py` | specifications by id and version | register, look up the newest | version order | the newest version is found |
| SDK configuration and registries `qfaos/config.py`, `qfaos/registry/` | dictionaries filled before the start | validate, register | none | |
| Schema translation, domain models `domain/` | none | convert | none | |
| LangGraph runtime, base orchestrator `orchestration_engine/runtime/` | compiled graphs | compile, run | none of its own | |
| Browser tool `skill_hub/builtin_tools/browser_use.py` | an external browser | open, close | outside the program | |
| Bill agent `agents/bill_management_agent.py` (example application, in `src/agents`) | SQLite tables of categories and bills; markers of the system prompt in the process; history and prompt in the session | `BillManager`: add, change and delete bills and categories, query, statistics; the handler: prompt, commands, images, rounds of model and tools | lookups and statements in separate connections; tools that raise between others; rounds used up; midnight, restart and `/clear` against the markers | a bill has a category that exists, an id is never used twice; the history is complete; the prompt is of today; one reply per turn |

The components meet in few places. The pipeline hands one event at a time to the
session context, so **turns never overlap**, and calls to storage interleave only within
one handler, or between processes that share a Redis or a directory. The facade is the only
caller of the storage manager; the manager writes hot first, then cold. Tools reach
secure primitives through the hub, and the hub, the primitive accessor, the tool wrapper
and the facade each translate exceptions of the layer below. The state of `SessionMemory`
(one session, all storage steps) and of `EventPipeline` (all sessions, storage as one step)
overlap in the load and the persist of a turn, which both contain. The bill agent is a
handler inside the loop: its turns never overlap, but its database file is open to anybody.
The sender is one object of the parent; every handler's answer passes through it. Both
processes, the parent and the worker that `QFAOS.run` starts, write one log directory.

## 2. The modules

| Module | Models | State and its counterpart in the code |
|---|---|---|
| `ContextBlocks` | pure operators of trimming and reading, used by all stores; the reference definition `LongestFitting` | a block is its arrival number and `token_count`; `MaxBlocks`, `MaxTokens` are the constructor's limits |
| `RecentHistory` | what `HotMemoryProtocol` promises, without an algorithm | `recent`: the window of each session |
| `HotMemory` | `InMemoryHotMemoryStore` | `hot`, `sys`, `runtime` are its three dictionaries; `hotLog` is a history of appended blocks |
| `RedisHotMemory` | `RedisHotMemoryStore`, a step per Redis command | `blocks`, `fields` are the LIST and the HASH; `command`, `keep` are the command each client sends next and its local `keep_start`; `pushed`, `raced` are histories |
| `JsonlHotMemory` | `JSONLHotMemoryStore` under the turns of a session, truncating and writing as separate steps | `lines`, `partsFile`, `stateFile` are the three files; `before`, `writing` are the locals of an operation; `turn`, `turnState` are where the turn is and `ctx.state`; `begun`, `whole` are histories |
| `SessionMemory` | a session's turns through facade, manager, hot store and archive | `hotBlocks`, `cold`, `hotPrompt`, `stored` are storage; `history`, `prompt`, `state` are the `RuntimeContext`; `pc` is the await at which the turn is |
| `EventPipeline` | child, queue and consumer loop | `seen`, `uid` are `_processed_messages` and `_id_mapping`; `buffer`, `pipe` are the two halves of `multiprocessing.Queue`; `pc`, `cur`, `state` are `_consume`'s position, event and context; `unwritten` (the places in `handled` whose state was not written) is a history |
| `Approval` | ticket store, secure actions, hub, tools, facade | `store` is `TicketStore._tickets`; `issued` and `spent` are histories; `pc`, `tool`, `ticket`, `result` belong to a call of the handler |
| `MessageTrim` | pure operators: the budget, the cut by blocks (`trim_context_blocks`), the cut by messages (`trim_messages`); the reference definition `LongestComplete` | a message is its role and tokens; litellm's counter is additive |
| `ModelCompletion` | `model_ask`, the router's loop, the MiniMax client, the outcome of `build_model_response` | `request` is `current_request` with the schema; `attempts` is the router's local; `window` is what litellm's cost table says; `sent` are the messages of the last call |
| `LogRotation` | `JSONLStorageEngine` and `CLILogTailer`, a step per look at the directory, `os.replace`, open, write and read | a file is an inode: `files` is the directory (names to inodes), `lines` the content of every inode ever made, so that a handle outlives a rename; `lock` is one per process, `home` says which threads share one; `pc`, `index`, `handle` are a thread's place in `write_record`; `size` is the bytes of every inode; `warned` counts the warnings that a rotation failed; `tailer` is the place, `current_inode`, file and position of `tail` |
| `FeishuSender` | `FeishuAsyncSender` under interleaved coroutines, with the server of Feishu as environment | `cache` is `_tenant_access_token` and `_token_expire_time`; `job` is the call a coroutine is in, with its chunk and the awaited answer; `wire`, `granted`, `inbox` belong to the server; `file` is the image file of each `file_key`, which all downloads of the key share; `opener` (who emptied it last) is a history |
| `BillBook` | what the bill database promises | categories, bills, the ids ever used |
| `BillLedger` | `BillManager`, lookup and statement as separate steps of any number of clients, with what SQLite adds (foreign keys, unique names, `AUTOINCREMENT`) | `categories`, `bills` are the tables, `lastId` the sequence; `call` is the operation of each client, its arguments and result |
| `BillAgent` | the handler of the bill agent; extends `BillLedger`, where it is one of the clients | `markers` are the two dictionaries of the prompt; `stored` is the session's prompt and history; `turn` is the event being handled; `told` counts answers that arrived |
| `MC...` | values of constants for TLC that a `.cfg` cannot write | |
| `MemoryProofs`, ... | theorems, see [section 5](#5-the-proofs) | the three stores and the session memory share `MemoryProofs`, which is why their variables, invariants and specifications have names of their own (`HotSpec`, `RedisSpec`, `JsonlSpec`, `SessionSpec`) |

`HotMemory`, `RedisHotMemory`, `JsonlHotMemory` and `SessionMemory` share the trimming of
`ContextBlocks`; `ModelCompletion` is built on `MessageTrim`.
`HotMemory` is shown to implement `RecentHistory`; `RedisHotMemory` does so too with the
refinement mapping `recent <- Trim(blocks)`: the block that is in the list between `RPUSH`
and `LTRIM` is one the next trim removes. It does so until operations of two clients
overlap; from then on only `ListIsNewest` and `ListFitsAtRest` remain. `JsonlHotMemory` does
so, with the old lines while a rewrite is under way, until an append is cut short.
`BillLedger` implements `BillBook` with `used <- 1 .. lastId`, and so does `BillAgent`: each of
its steps is a step of one client of the ledger or leaves the ledger alone.

A failing write of the runtime state leaves the older state in the in-memory and the Redis
store, and `SessionMemory` and `EventPipeline` say so; in the JSONL store it leaves a broken
file, which is what `JsonlHotMemory` is about.

Some modules hold operators whose comment begins with *Variant*. They are no part of
the model: each is a deliberately wrong form of the definition after it, of the kind an
edit of the code could introduce, and replacing the definition by it makes the property
that `PROJECT.json` names beside it fail. They show that the properties can tell right code
from wrong code.

## 3. The runs

Bounds are the constants of the `.cfg` files.

| Run | What is checked | Bounds, and why they are enough |
|---|---|---|
| `in_memory` | `WindowIsLongestFitting`: after every append the window is, without a gap and of its own session, what trimming the whole history once would leave. `ImplementsRecentHistory`: each operation is a step of the protocol's promise | one session (sessions are separate keys of the dictionaries), 6 appends over limits of 3 blocks and 4 tokens: every combination of overflow by count, by tokens and by both occurs, after up to three earlier trims; counts 0, 1, 2 and 5 give free blocks, exact fits and a block larger than the limit |
| `redis` | `ListIsNewest` and the first part of `ListFitsAtRest` for overlapping clients; until they overlap, also that the list at rest is the longest that fits, and `ImplementsUnlessRaced` | two clients are what one stale index needs; 4 appends over limits of 2 blocks and 4 tokens; one abandoned operation |
| `session_memory` | `ReloadShowsNothingNew`: the patched snapshot agrees with the store, and what was cleared does not come back by itself. `HotIsArchived`. `BlocksInOrder`: whatever fails, the handler is shown nothing out of order or twice except a block it appended again after a failure, which the hot store then may hold twice; the archive holds it once, because archiving is the last storage call of an append and an append that raised never archived. `StateCarriedOver`: a turn starts from what the last one left | any number of turns, 4 blocks, limits of 3 blocks and 4 tokens, a read limit of 2 that is smaller than the store's; two failures, so that a second one can meet the traces of the first; any block whose append raised may be appended again, in any later turn |
| `jsonl` | `LinesInOrder`: whatever dies or fails, appended blocks in order, none twice, at most a torn last line, and the promised window as long as no append was cut short. `ImplementsUnlessCutShort`: the same as a refinement, however often other operations are cut short. `UnreadableEndsLoop`: a turn that begins with a file that cannot be read ends the loop of the process before the handler is reached | 4 appends over limits of 3 blocks and 4 tokens; two deaths or failing writes; a restart gives the user a new session, so that the old files are left behind; states with one that is no JSON |
| `event_pipeline` | `NothingLostInBetween`: what was accepted is handled, waiting or lost with its process, in order. `DeduplicatedWithinWindow`, `StateReflectsHandling`, `SessionsNotShared`. Under fairness `EventsAreHandled`: what reached the pipe is handled even after the child died, and everything accepted while it lives | 3 messages of 2 users (two to see order in a session, one to see sessions apart), 4 deliveries so that a message may come twice, a window of 1 on a clock of 0..2 so that records are younger than, as old as and older than the window, 2 starts with a durable store |
| `model_completion` | `SentIsLongestComplete`: each call carries the longest end of the conversation that is whole and fits, against the reference definition; within the budget, no tool result without its call. `KeptBlocksAreSent`: facade and client do not both cut. `RetryOnlyForgets`: a retry shows the repair message last and brings back nothing that was left out. `ResultIsDeserved`, `CompletionEnds` | histories of up to 3 blocks of six shapes, counted rightly, too low or not at all; conversations of up to 3 messages with orphans anywhere; budgets of 6, 9 and 0, system messages of none, some and too many tokens; up to 2 retries with short and long repairs |
| `approval` | `AskIsAnswerable`: an action asks for approval only when the ticket it is shown is spent, expired or missing, also while other calls collect garbage, fail or are denied. A secured function or instance is never shown the ticket (`TicketSeen`) and asks every time. `SpentNeverAdmits`: no guarded action starts on a spent ticket | 2 calls with up to 2 tickets, a time to live of 1 on a clock of 0..3; all kinds of tool the SDK can register |
| `approval_reaches_handler` | a disagreement, see section 6 | one call |
| `log_rotation` | `LinesInOrder`: read from the oldest backup to the main file, a thread's lines are in its order, through every interleaving of two rotations. `OldestIsDroppedWhenAlone`: with one process, what is dropped is older than all that stays. `FilesAreBounded`: the size is checked before a line is written, so a file of one process ends less than a line above `max_bytes`, and by one line more per other process and per warning that a rotation failed. `ShownInOrder`: the tailer shows nothing twice. `TailerCatchesUp`: it ends up at the end of the main file | 2 threads, in one process and in two: a rotation is delayed by one other only; 2 backups and 2 bytes with lines of 1 and 2, so that both renames of a full rotation occur and a line may end below, at and above the limit; 2 records each; 1 kill, failing rename or failing write, at any step |
| `only_oldest_is_dropped` | a disagreement | 3 backups and 3 records each, without faults: the shortest history has two rotations that overlap |
| `feishu_sender` | `TokenValidWhenUsed`: a request never arrives with a token that has ended. `ArrivedIsPrefix`: of a text arrive its first chunks, in order and once. `ReportIsTrue`: success means everything has arrived, or the image is whole unless a later download of its key has emptied the file; failure at chunk *i* means the *i* before it have and at most one more. `CallEnds` | 2 coroutines with 2 calls in all, so that both refresh at once or one uses what the other refreshed; up to 2 chunks; one image of 2 pieces, which both may download at once; tokens live for 4 of 4 instants with a margin of 2 and a delay of 1, the smallest numbers in the order of the code's (a margin of 300 s, timeouts of 10 s) in which a token can expire during the run |
| `bill_agent` | `StatisticsAgreeWithQuery`: the two spellings of the filter agree. `AskedWithTodaysPrompt`: over `/clear`, restarts and midnights the model has a prompt of the day. `SeenIsRemembered`: an answer the user saw was appended to the session it was given in first. `NothingHalfDone`: no call without result, no change nobody hears of, one reply per turn. `ImplementsBook`: the database keeps its promise. `TurnEnds` | the agent and one other client of the file; 2 categories, one of them not a default, 2 ids, 6 requests that meet on them; 1 round with up to 2 tool calls (a second call can raise after the first changed something); 2 turns, 2 days, 1 death, after which the user has a new session, 1 foreign operation: what one turn leaves, the next one meets |

A state machine that stops by design says so: `Stopped` of `SessionMemory` (the consumer loop has ended),
`Finished` and `Quiet` (everything the bounds allow was done) are steps that repeat themselves, and no run switches deadlock checking off.

## 4. Fairness

Five runs assume any.

- `event_pipeline`: weak fairness of `Feed` (the feeder thread of `multiprocessing.Queue` runs
  as long as its process does) and of `Consume` (the parent's event loop goes on, and a handler
  comes to an end: it returns or raises). Deliveries, deaths, clock jumps and restarts are the
  environment's and never assumed. That the handler ends is an assumption on the user's code:
  the program sets no timeout on it.
- `model_completion`: weak fairness of `Completion`, the steps of one completion after it was
  asked for; they run in one thread, and litellm ends a provider's call by its request timeout.
- `log_rotation`: weak fairness of each thread's `Record` (threads are scheduled; taking the lock is
  part of it, and who holds it never waits) and of `Follow` (the tailer polls for ever). Kills and
  failing calls are never assumed, and bounded, so that in the end the writers come to rest.
- `feishu_sender`: weak fairness of each coroutine's own steps, among which is the timeout of
  `httpx`. The server's steps have none: it may never answer. An answer that trickles in
  without an end would not time out, and is left out.
- `bill_agent`: weak fairness of `Handle`, the steps of a turn. It contains answers of the model, the
  database and the sender, which all have timeouts, and not `RecognizeText`: the OCR
  request has none, which is why `TurnEnds` excepts a turn that waits for it.

## 5. The proofs

`tlapm` proves the following for every value of the constants, from the `ASSUME`s of the
modules alone (limits are naturals or absent and not both absent; token counts are naturals;
bounds are naturals; the users of the pipeline and the processes that write a log are finitely many; twice the timeout of
the sender lies within the margin and the life of a token). Six theorems
have the hypothesis `MaxBlocks # 0`, and say so: with a limit of 0 the in-memory and the JSONL store keep every block, since the
code slices from `-0`, and so the longest window within the limit is not what they keep. They are
`WindowIsAlwaysLongest`, `StoreImplementsRecentHistory`, `ListAlwaysFitsAtRest`, `StoreImplementsUnlessRaced`,
`LinesAlwaysInOrder` and `StoreImplementsUnlessCutShort`.

| Theorem | Statement |
|---|---|
| `MemoryProofs!HotTypeCorrect` | `HotSpec => []HotTypeOK` |
| `MemoryProofs!WindowIsAlwaysNewest` | `HotSpec => []WindowIsNewest`: a gapless run of the newest blocks, also for a block limit of 0, of which no run and no other theorem about the window speaks |
| `MemoryProofs!WindowIsAlwaysBounded` | `HotSpec => []WindowBounded` |
| `MemoryProofs!WindowIsAlwaysLongest` | `MaxBlocks # 0`: `HotSpec => []WindowIsLongestFitting` |
| `MemoryProofs!StoreImplementsRecentHistory` | `MaxBlocks # 0`: `HotSpec => ImplementsRecentHistory`, the refinement of `RecentHistory` |
| `MemoryProofs!RedisTypeCorrect`, `!ListIsAlwaysNewest` | `RedisSpec => []RedisTypeOK`, `RedisSpec => []ListIsNewest`, any number of clients |
| `MemoryProofs!NothingOverflowsAtRest` | `RedisSpec => [](AtRest /\ abandoned = 0 => Fits(blocks))`, any limits |
| `MemoryProofs!ListAlwaysFitsAtRest` | `MaxBlocks # 0`: `RedisSpec => []ListFitsAtRest` |
| `MemoryProofs!StoreImplementsUnlessRaced` | `MaxBlocks # 0`: `RedisSpec => ImplementsUnlessRaced`, the same refinement until a race |
| `MemoryProofs!LinesAlwaysInOrder` | `MaxBlocks # 0`: `JsonlSpec => []LinesInOrder`; the order of the lines alone for any limits, in `JsonlInvariant` |
| `MemoryProofs!StoreImplementsUnlessCutShort` | `MaxBlocks # 0`: `JsonlSpec => ImplementsUnlessCutShort`, the same refinement until an append is cut short |
| `MemoryProofs!UnreadableAlwaysEndsLoop` | the action property `UnreadableEndsLoop`, any limits |
| `MemoryProofs!BlocksAlwaysInOrder` | `SessionSpec => []BlocksInOrder`, any number of failures |
| `MemoryProofs!HotIsAlwaysArchived` | `SessionSpec => []HotIsArchived` |
| `MemoryProofs!ReloadNeverShowsNew` | `SessionSpec => []ReloadShowsNothingNew` |
| `MemoryProofs!StateAlwaysCarriedOver` | the action property `StateCarriedOver` |
| `ApprovalProofs!TypeCorrect` | `Spec => []TypeOK` |
| `ApprovalProofs!AskedIsAnswerable` | the action property `AskIsAnswerable`, any number of calls |
| `ApprovalProofs!SpentIsSpent` | the action property `SpentNeverAdmits` |
| `EventPipelineProofs!PipelineTypeCorrect` | `Spec => []TypeOK` |
| `EventPipelineProofs!NothingIsLostInBetween` | `Spec => []NothingLostInBetween` |
| `EventPipelineProofs!NothingTwiceWithinWindow` | `Spec => []DeduplicatedWithinWindow` |
| `EventPipelineProofs!SessionsAreNeverShared` | `Spec => []SessionsNotShared`, any number of users and starts |
| `EventPipelineProofs!StateAlwaysReflectsHandling` | `Spec => []StateReflectsHandling` |
| `ModelCompletionProofs!ResultIsAlwaysDeserved` | `Spec => []ResultIsDeserved` |
| `ModelCompletionProofs!SentIsAlwaysLongestComplete` | `Spec => []SentIsLongestComplete`, any conversations, histories and windows |
| `ModelCompletionProofs!KeptBlocksAreAlwaysSent` | `Spec => []KeptBlocksAreSent` |
| `ModelCompletionProofs!RetriesOnlyForget` | the action property `RetryOnlyForgets` |
| `LogRotationProofs!LogTypeCorrect` | `Spec => []TypeOK` |
| `LogRotationProofs!LogLinesStayInOrder` | `Spec => []LinesInOrder`, any number of processes and threads |
| `LogRotationProofs!TailerShowsInOrder` | `Spec => []ShownInOrder` |
| `LogRotationProofs!OldestDroppedFirst` | `Spec => []OldestIsDroppedWhenAlone`, any number of threads |
| `LogRotationProofs!FilesStayBounded` | `Spec => []FilesAreBounded`, any number of processes and lengths of lines |
| `FeishuSenderProofs!TokenAlwaysValid` | `Spec => []TokenValidWhenUsed`, any number of coroutines |
| `FeishuSenderProofs!ArrivedIsAlwaysPrefix` | `Spec => []ArrivedIsPrefix`, texts of any length |
| `FeishuSenderProofs!ReportIsAlwaysTrue` | `Spec => []ReportIsTrue`, any texts and images |
| `BillAgentProofs!EveryBillAlwaysHasCategory`, `!LedgerImplementsBook` | `LedgerSpec => []EveryBillHasCategory`, `LedgerSpec => Book!Spec` |
| `BillAgentProofs!LedgerStatisticsAgree`, `!AgentStatisticsAgree` | `LedgerSpec => []StatisticsAgreeWithQuery`, and `Spec` too |
| `BillAgentProofs!AgentUsesLedger`, `!AgentImplementsBook` | `Spec => LedgerSpec`, `Spec => ImplementsBook` |
| `BillAgentProofs!AgentTypeCorrect` | `Spec => []TypeOK` |
| `BillAgentProofs!AgentAsksWithTodaysPrompt` | `Spec => []AskedWithTodaysPrompt` |
| `BillAgentProofs!AgentLeavesNothingHalfDone` | `Spec => []NothingHalfDone` |
| `BillAgentProofs!AgentRemembersWhatWasSeen` | `Spec => []SeenIsRemembered` |

*The window.* `ContextBlocksProofs` has the lemmas: what `CountKept` and `TokensKept` return
lies within the list (`CountKeptRange`, `TokensKeptRange`), so a trim keeps a run of newest
blocks (`TrimKeepsNewest`); the newest of the newest are the newest (`NewestOfNewest`); an
append extends the run (`AppendToNewest`). `WindowIsNewest` is inductive with the types and
with "the log is no longer than the number of appends", which keeps block numbers within
their type. The Redis invariant is the same with one step per command; its point is that
`LTRIM` with *any* index (`LtrimKeepsNewest`), so also a stale one, leaves a run of newest
blocks, and that a computed index lies within the list read (`KeepStartRange`).

*The longest window.* `TokensKept` counts the newest runs all of whose shorter runs fit; they are the
runs up to a length (`RunFromOne`), and since token counts are not negative a longer run costs no less
(`TokensGrow`). So one trim keeps the longest run that fits (`TrimIsLongest`), which is what
`LongestFitting` chooses (`LongestFittingIs`). The step is `AppendKeepsLongest`: the longest window of
a history and one more block is the longest of the *window* and the block, because a run that did not fit
without the block does not fit with it. With it `WindowIsLongestFitting` is inductive by itself, and an append is a step of
`RecentHistory` (`StepImplements`). For Redis, `SomeoneTrims` says that an overflowing list
will still be cut: some client reads it yet, or has an index that suffices; a client that trims for
itself trims for every index computed earlier, which is why no interleaving leaves the list too long
(`LimitsInv`). As long as no operations have overlapped, there is at most one busy client and its
index belongs to the list as it is (`Serial`, `IndexFresh`), so that the list trims to the longest window at
every point between the three commands (`SerialInv`, `TrimOnce`).

*The JSONL store.* An append reads, truncates and writes; between the last two the file says nothing, so the
invariant speaks of the locals: what an append has read is in order and older than its block (`AppendUnderWay`), so
the lines it writes are in order again, and what a write leaves of them when it is cut short is an initial
part of them with at most a torn last line (`JsonlInv`). As long as no append was cut short, the file, or what the append
has read, is the longest window (`WindowInFile`); a step is then the promise's append when `WriteLines`
completes, and leaves the window before (`JsonlStepImplements`). A turn that begins with an unreadable file
ends the loop (`UnreadableStep`) because each of the two reads raises on the file it opens, a torn line being the last one, which
every read limit includes (`SnapshotSeesTear`), and because a turn that comes to the second read has read the
state (`StateWasRead`). This is about one process: the next gives the user a new session.

*The session.* Storage, archive and snapshot change in different steps, so that they agree only up to what the call
under way has still to do. `CallUnderWay` says what that is: its block is newer than the snapshot or one that is offered again, and, before the
archive's step, not in the archive. From this, from `RisingTo` (in order of arrival but for the repeated blocks, none newer than the last
issued) and from `ArchivedOnce` (a block whose append raised is not archived, as archiving ends an append's storage calls) `BlocksInOrder` follows whatever fails. `InStep` is the rest, which holds until the first failure: the hot window is the end
of the archive, with the pending block while that is on its way, and what a reload would show is the end of
the snapshot. It is kept because trimming a list and the list with more in front gives the same end
as long as both hold what the limit keeps, whichever of the store's limits or the read limit is the smaller. TLC
checked `SessionInv` on the run before it was proved.

*The tickets.* `AskIsAnswerable` is a fact of the step that asks. It needs to know that a ticket a
handler was given is in the store until it has expired or is spent, which relates the store, the clock and two histories. That is
inductive together with the types and with the fact that the store holds no ticket which is
already spent; each of the layers' steps keeps it because garbage collection removes only
what has expired, and consuming only what becomes spent.

*The repair loop.* `ResultIsDeserved` speaks of the end of a completion; it becomes inductive
with `attempts` at most `maxRetries`, with "a successful response is usable under the schema of
the request", and with "no response is successful before it was answered", which is what keeps
a new request, and its schema, from meeting an old success. What the cuts keep of a
conversation plays no part in it.

*What is sent.* `TrimMessages` is a pass over groups: a message, or an assistant's message with the tool
results after it. `TrimIsLongestEnd` shows by induction over the places where groups end that what the pass keeps of
a conversation up to such a place is the longest end of the *complete* conversation up to there that
starts with no tool result and fits. Each step adds one group: if it is orphaned, the complete conversation does not have
it (`WholeGrowsByGroups`); if it fits, the longest end within what the rest of the budget allows goes before it
(`GroupFits`); if it does not, every end that holds more than nothing of it would begin inside the
group, with a tool result, or exceed the budget (`GroupDoesNotFit`). `LongestComplete` is that end, as there is only one
(`LongestEndIs`). `RetryOnlyForgets` compares two passes: one message more at the end leaves an
end of what was kept before (`AppendForgets`), and without the repair messages still one. To bring this to the
states takes `SentInv`: what is at the provider is what the pass makes of the request, it stays so until the request
grows, a request about to be retried is the one that was sent and one repair message, and a request the facade
counted rightly is within the budget of the client's window, which needs that the cut by blocks, with right counts, leaves no more
than its budget (`KeptBlocksFit`) and no tool result without its call. TLC checked `SentInv` on the run
before it was proved.

*The pipeline.* `Conserved` is inductive with the types and with "from `load` on the loop has an
event": each step moves one event from one of the four places to the next, where they meet, and
the concatenation stays the same. The types need a count: an id of this start belongs to one
known user, so `uids` is at most the users times the earlier starts plus the known users
(`Numbered`), which is what keeps ids within `Sessions`; it takes the assumption that the users are
finitely many. `DeduplicatedWithinWindow` becomes inductive with `OnRecord`: an accepted event is
recorded with its time or a later one, or older than the window already. `SessionsNotShared` needs
that ids are distinct, that nothing is stored under an id not handed out yet, that every event on
its way carries the id its sender has now (`Addressed`), and that the state of a turn is its
user's (`Private`). `StateReflectsHandling` takes these and what the loop knows of its turn (`Turn`): the
state it works on is what its session has stored, and the event whose state is being written is the last handled. Events that could not
be written are remembered by their place in `handled`, not as events: after the clock has stepped back a message can be
accepted twice with equal records, and only one of the two may have been lost.

*The log.* That lines stay in order is not inductive: two rotations that interleave shift files
over each other in ways none of them planned. The invariant is `RotateInv`: inodes are numbered
in the order of their creation, and the names hold them **sorted** - a greater backup number
never holds a newer inode, whoever renames (`Shifting`, `Sorted`: a thread that is about to move
file *i* still may, since anything another process moved in the meantime kept the order).
The main file is the newest inode or absent (`NewestIsMain`). With that, it is enough that each
thread's lines are ordered along the inodes (`Ordered`), that it has written no more than it
counted (`Counted`), and that a handle taken for appending points at or after every inode that
holds lines of its thread (`OpenedLast`). The tailer adds that it has shown nothing from beyond its
position (`TailerPlace`, `TailedSoFar`).
What is dropped and how long files get is in `DirectoryInv`. Only one thread of a process rotates (`LockHeld`), so with one process the name above
the file a rotation has come to is free (`ShiftedAbove`), and a rename overwrites the oldest backup or nothing. The bound
on a file counts processes, not threads: each process with a writer on its way to a file was let in when the file was not full, or
was warned, and the longest line is counted for it as soon as it is on its way (`Crowd`, with `RoomLeft` for the arithmetic).

*The sender.* A request outlives the call that sent it: a caller that gave up can be in its next call while the chunk of the
last one still travels. So the wire and the inbox are described by calls, not by callers: no call has two
requests on the wire, the chunks before the one a request brings have arrived (`WireInv`), and what arrived of
any call is a prefix (`PrefixInv`); only the current call of a caller is related to its job (`CallInv`).
`TimesInv` is about the token: a request leaves with it so early that it arrives before the end, since the cache gives it up
`Margin` before a life that counts from the answer, which is at most `Delay` later than the grant. That a token
fetched for the call itself is valid needs `LifeAssumption`: grant and request travel for less than its life.
Of a file that two downloads share `ImageInv` says that who emptied it last finds in it all it has saved since, whatever the other writes.

*The ledger and the agent.* A bill has its category because the statement checks it again under
the foreign key, and a category is deleted only when no bill has it; so the invariant is inductive
with the types alone, although the lookup is a step of its own. The agent is brought to the
ledger by one fact per action (`AgentUsesLedger`), after which everything proved of the
ledger holds of it. `AskedWithTodaysPrompt` becomes inductive with what each stage of a turn knows
of markers and prompt: a marker for a day means that the session holds a prompt of that day or
that the marker slipped past midnight. `NothingHalfDone` needs that changes are open only
while calls of a round are being made, and that no reply is given before the last step.

`SeenIsRemembered` counts: answers of the session that arrived, and the one about to be sent, are not more than the answers in
its history (`AnswersKept`), since an answer is recorded before it is sent. `StatisticsAgreeWithQuery` holds in every state of the right types and needs no
other invariant: the sum over the first bills of the groups grows by an amount exactly when the sum over the bills does
(`GroupsRaised`), so the two are equal for all amounts by induction over the ids (`GroupsAddUp`), and a number of bills is a sum of ones.

*Induction over data.* A recursive function is only what `CHOOSE` makes of its definition, so each of them first gets a lemma that there
is such a function (`SumExists` and the like). The induction theorems of the prover's library take a predicate as a parameter and cannot be used. In their place stands
`Induction`, about a *set* of numbers that contains 0 and the successor of each of its members, which follows from the least element of a
set, and that from the library's well-foundedness of `<`. Sequences are treated through their lengths.

*Types.* `TypeOK` of the in-memory store, Redis, tickets, log and agent is proved and therefore
not part of a run; the pipeline's, the session's, the JSONL store's, the completion's and the sender's is
a conjunct of an invariant of their run (`NothingLostInBetween`, `BlocksInOrder`, `LinesInOrder`,
`SentIsLongestComplete`, `TokenValidWhenUsed`), and proved with it. `WindowBounded`
and `EveryBillHasCategory` are proved only; the second also follows from `ImplementsBook`.

*Model-checked only.* Liveness, since fairness and `ENABLED` are out of the prover's reach: `EventsAreHandled`,
`CompletionEnds`, `TailerCatchesUp`, `CallEnds`, `TurnEnds`. Every invariant and action property that a passing run
checks is proved, as are the refinements of `HotMemory`, `RedisHotMemory`, `JsonlHotMemory`, `BillLedger` and `BillAgent`.
For a block limit of 0, which no run has, the six theorems above say nothing.

## 6. What the checks found

Two disagreements between the code and its documents have a run that shows them.

- **A tool's request for approval is swallowed** (`approval_reaches_handler`).
  `FunctionPyTool.invoke` catches every `Exception`, so a secure primitive's request for a
  ticket becomes `tool_execution_error`: the ticket has been generated and nobody is told. The
  T7 design says it must not be swallowed.
- **Not the oldest backup is dropped** (`only_oldest_is_dropped`). The lock of the storage engine
  is an object of one process, and the worker and the parent write the same directory. When
  both find the file full, the second rotation renames what the first has just made room for, and
  an `os.replace` overwrites a backup that is younger than one that stays. The docstring says the
  oldest file is the one dropped. What stays is in order all the same (`LinesInOrder`).

Noted, and not a run, because a step or two show it and a model could only restate it:

- `delete_context_history` (`internal/manager.py:232`) gathers the deletions with
  `return_exceptions=True` and drops the results: when the hot store fails, `clear_history` succeeds and
  the next turn loads the old blocks. The SQLite archive has no `delete_history` at all, although the
  docstring names hot, warm and cold memory.
- `custom_orchestrator.py:62` records a handler's exception and raises it again, `_consume` does not
  catch it, `run` ends and terminates the child. `EventPipeline` contains it (`TurnRaises`).
- The JSONL store opens the state file for writing before `json.dump` looks at the values. When the
  write fails then, the file is truncated, and the user's next message ends the loop for every user
  (`UnreadableEndsLoop`). Nothing repairs the file; after a restart the user has another logical id
  (`core/session/context.py:28`), and so a new session, and the old one is left behind.
- The stores do not compare block ids. A handler that appends a block again after the manager raised
  (`internal/manager.py:94-102`) has it twice in the
  hot store and so in the next snapshot. The archive inserts rows without comparing ids either
  (`backends/sqlite_cold.py:73-78`); it holds the block once only because the append that raised never got to archiving it.
- A tool registered as a function or as an instance (`core/capability_hub.py:90-115`) is not handed the
  request's ticket: when its body uses a secured action, that action asks for approval every time.
- `storage.py:92` compares the size before the write: a file ends up to a line above `max_bytes`, which the docstring
  calls the largest size of a file.
- `generate` (`observability_hub/trace/id_generator.py:20-26`) reads the clock before it takes the lock and starts the
  number of a millisecond again whenever the time differs from the last one. A thread that was overtaken in
  between gives an id that sorts before an earlier one of its own; the docstring promises ids that sort by time.
- `get` (`orchestration_engine/registry/agent_registry.py:105`) sorts versions as strings: of 1.9 and 1.10 it returns 1.9,
  where its docstring promises the newest version. No part of the running program asks it.
- `download_image` (`sender.py:240`) names the file by its `file_key` alone: a second download of the key empties
  the file that the first has reported.
- A client without a key, or a system message above the token limit, answers with a
  `repair_reason`, and the router (`router.py:163`) repairs and retries until `max_retries` is used up. A
  response that fails without a repair error leaves the router by an unbound variable, which is still
  an error of the completion.
- The first turn of a process is cut to litellm's default window, since the client registers the
  real one when it is first called. A block limit of 0 keeps all blocks in two of the stores
  (`queue[-0:]`) and none in Redis.
- The tailer ends with `FileNotFoundError` when the file is renamed between `exists` and
  `open` (`tailer.py:47`; the model's `"dead"`), and skips the lines written between a rotation and its
  reopening, since it opens the new file at its end (`:48`).
- `recording.py:52` calls `format_user_facing_error` without importing it.
- The bill agent (`src/agents/bill_management_agent.py`): the prompt text, the comparison and the marker
  each read the date (`:618`), so a midnight in between leaves yesterday's prompt for a day (`slipped` in
  the model); default categories that were deleted come back at the next start (`:76`); `delete_bill`
  reads the bill for its card before it deletes it (`:422`).
- The OCR tool (`src/pytools/baidu_ocr_tool.py`) keeps its token for ever (`:29`) and its request has no
  timeout (`:82`): a server that never answers stops the consumer loop.

## 7. What is abstracted, and what is not modelled

- Blocks are reduced to their order and token count, prompts to the one `base_prompt` part
  the facade writes, states to a few values (in `EventPipeline`, to the messages whose handling
  they record). A block limit of 0 is in the definitions (`CountKept`, `BlocksKept`) and the
  proofs, and not in the runs.
- `SessionMemory` has one session: keys of different sessions are disjoint. Failures are
  exceptions of an awaited call, with the effects each backend may leave behind.
- `DeduplicatedWithinWindow` is stated for a clock that never steps back. `time.time()` may;
  then a record purged at the later time lets a message in again. No document promises
  otherwise, so this is a limit and not a finding.
- `Approval`: patterns and command parsing decide between allow, deny and ask, and are an
  input (`Allow`, `Deny`, `Ask` are all possible); the guarded action itself either succeeds or
  fails. A call to a capability that does not exist, and observability records, are left out.
- `JsonlHotMemory`: the operations of a session do not overlap, since turns are sequential and a
  handler awaits each call. A handler that gathers two appends can lose one of them or tear a
  line; nothing in the repository promises otherwise.
- `ModelCompletion`: parsing of content and of tool calls is its outcome; a litellm answer is one
  of eight kinds. A request for a model without a client raises before anything happens and is
  left out, as are clients other than MiniMax.
- `LogRotation`: a file system in which inodes are not used again and a line is written whole; a
  line is its number and its length in bytes. `OldestIsDroppedWhenAlone` is about one process, since two
  drop others, and says nothing of a line whose write failed, which is lost and logged.
- `FeishuSender`: what a message says is left out. The server accepts or refuses; a token it grants
  lives from the moment of the grant. That a caller waits for no more than the timeout needs
  `MarginAssumption`, twice the delay within the margin, which 10 s and 300 s satisfy, and `LifeAssumption`, twice the delay
  within the life of a token, which is 7200 s unless the answer says otherwise. Feishu is taken
  to grant a fresh token each time; if it repeats a token that still lives, its end only comes earlier than
  the cache says by what is within the margin. A clock that steps back is not modelled here.
- `BillLedger`: the remark of a bill is treated by the code as its amount is, and is left out, and so are
  the wording of cards and lists. `get_statistics` has a filter of its own (`Counted`), as in the code; its groups are counted at their first bill, since nothing depends on their order. Statements are SQLite's: atomic, and refused under a lock that
  does not come free (`DatabaseFails`). `BillAgent`: one session at a time, a new one after a restart, whose memory works or ends the
  turn with the process, and keeps what was appended (that a death inside a rewrite of the JSONL store can lose it is `JsonlHotMemory`'s
  subject); events of other channels and types are ignored by the agent without a
  reply, and left out; what the model says is its number of tool calls.
- Not modelled, with the reason in `PROJECT.json`: the webhook and trace ids, which section 8
  plans; the agent registry; SDK registries, schema translation and LangGraph wrappers, which convert data and
  keep no state of their own; and the browser tool, which drives an external program.

## 8. The plan

The core, the stores, the session, the pipeline, approval, completion, log, sender and the example agent
stand. What would come next:

1. The trace ids: the sequence under threads that read the clock before they take the lock.
2. The webhook as a second producer of `EventPipeline`, with the controller shared by its threads.
3. Theorems: of what stands, the case of a block limit of 0, where the stores
   that slice from `-0` keep everything: a reference definition of its own for it, and the six theorems without their hypothesis.
