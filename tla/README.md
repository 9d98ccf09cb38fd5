# A TLA+ verification project for ds4

DwarfStar (`ds4`) is an LLM inference engine in C. This directory holds TLA+
models of the parts of it where threads, processes, disconnecting clients,
failures, shutdown and limits meet, the TLC configurations that check them, and TLAPS proofs of their
main properties. `PROJECT.json` maps every definition to the lines it models.

## 1. Inventory

| part | state it keeps | operations | hard behaviour |
|---|---|---|---|
| request queue (`ds4_server.c`) | list `head/tail`, `slot->assigned`, `busy`, `running`, `stopping`, `clients`, one `job` per client on the client thread's stack | accept, enqueue, dispatch, take, complete, release, cancel on disconnect, stop, join | job lifetime against worker and cancel; shutdown with sleeping workers; who wakes whom |
| model executor (`ds4_server.c`) | `model_busy`, `inference_mu`, `decode_pending` (per slot and total), `decode_in_flight`, `decode_done`, `active_generations`, `prefill_waiting`, `last_prefill_slot`, `model_stopping` | prefill quantum enter and leave, token submit, withdraw, batch collect, evaluate, publish, decode thread stop | one model shared by N slot threads and a decode thread; cancelled tokens; a stop signal that broadcasts nothing |
| request processing (`generate_job_inner`) | live bindings of a slot (Responses, Anthropic, thinking), effective prompt, cache source | choose cached prefix, sync, decode, recover from an invalid tool call, remember or clear bindings, answer | a binding validated by the client thread and used later by the worker |
| tool memory (`ds4_server.c`) | list of ids, most recently used first, counted blocks shared by ids of one text, entry and byte limits; trailers of checkpoint files | remember, put, look up, prune, write, rewrite and restore trailers | limits, shared references; files read without the lock they are written under; kill and restart |
| image cache (`ds4_server.c`, `ds4_image.c`) | list of image features with a byte limit | look up, insert, evict | limits |
| disk KV store (`ds4_kvstore.c`) | a directory of checkpoint files, budget, continued-store frontier | store, evict, find, load, touch, rewrite trailer | crash between steps, several processes on one directory, budget |
| engine and sessions (`ds4.c`) | token timeline, KV rows, checkpoint tags | sync, eval, batch eval, rewind, invalidate, save and load payload | numeric; the session's frontier is what the server relies on |
| SSD streaming (`ds4_ssd.c`, `ds4.c`) | expert cache, budget | plan, load, evict | limits |
| distributed (`ds4_distributed.c`) | coordinator: registry of workers and its generation, route plan, request ids, session checkpoint; worker: sessions with a token hash, forwarders with open requests | register, plan, sync, eval, pipelined prefill, replay, forward, relay, reconnect, snapshot | KV state of one history spread over processes that fail one by one; three threads per prefill; late work |
| tensor parallel (`ds4_tp.c`) | ranks, command sequence | send, step, acknowledge | lost peers, ordering |
| agent (`ds4_agent.c`, `ds4_web.c`) | worker thread, tool state, transcript | prompt, tool calls, interrupt | user interrupts against the worker |
| pure helpers (`ds4_layer_pack.c`, `ds4_gpu_args.c`, `ds4_prompt_prefix.c`) | none | packing, parsing, prefix search | boundaries |
| GPU backends, tokenizer, CLI, eval, bench, vendored `rax.c` and `linenoise.c` | | | not modelled: numeric kernels, text formatting, terminal I/O, third-party code |

How the parts meet: a client thread parses a request (reading the live bindings
under `tool_mu`), puts a job on the list under `server.mu`, and waits on the
job's own condition variable, polling its socket every 100 ms. A slot's worker
takes the job and runs `generate_job`, which uses the model executor under
`model_mu` and the session under `inference_mu`, and saves checkpoints under
`inference_mu` and `kv_mu`. A client that hangs up cancels its job by going
through `server.mu` and then `model_mu`. `main` joins the workers, then the
decode thread, then waits for the detached client threads, and frees everything.

What makes each part correct is stated by the properties of its module (section
3); `PROJECT.json` lists the hazards behind them, line by line.

## 2. Modules

### JobQueue

The `server.mu` domain, in batched mode (one worker per resident slot, a
dispatcher) and in single mode (one worker takes jobs from the list); `Modes`
says which of the two a run has. One action is one critical section of `server.mu`, `job.mu` or `model_mu`
or one step between two of them.

* The list is the set `queued` with `ahead[j]`, the jobs in front of `j`; enqueue
  appends, `Unlink` removes from the middle.
* `Dispatch` is the whole `dispatch_jobs_locked` loop. `DispatchOutcomes` says
  which assignments it can produce: in list order, each job gets an eligible free
  slot if the jobs in front of it left one. The ranking between eligible slots
  (common token prefix) is left open: any of them may win.
* A live binding is identified with the job whose tool calls it holds: `live[s]`;
  `needs[j]` is the binding a tool-result-only request was validated against.
  The binding may vanish between `Parse` and the run (then the code answers 409).
* `generate_job_inner` is one step (`GenerateInner`): it may leave the binding
  as it was, clear it or replace it, and may find the client gone.
* `pthread_cond_wait(&s->cv)` puts a worker in `asleep`; only a broadcast (or the
  signal in single mode, where there is one sleeper) takes it out. A missing
  wake-up is a liveness failure.
* `DestroyJob` is the end of the job on the client's stack.

### ModelExecutor

The `model_mu` domain in batched mode: `N` slot threads inside `generate_job`,
the decode thread, the client threads that cancel. Again one action is one
critical section or one hold of `inference_mu`.

* `GenerateJob .. GenerateEnd` follow a request: a sync in quanta (`todo`), the
  decode loop (`budget`), at most one tool-call recovery (another sync and
  another loop), the answer. What ends a loop early (stop token, stop sequence,
  complete tool call, failed write) is a free choice in `DecodeLoopEnds`.
* `PrefillAnnounce/Sleep/Abort/Grant/Lock/Eval/Leave` are `server_prefill_enter`,
  the evaluation and `server_prefill_leave`. `Distance` is the position of a slot
  in the round-robin scan.
* `EvalSubmit/Sleep/Withdraw/Return` are `server_eval_token`; `decode_done` holds
  `"no"` or the return code, because the code reads `decode_rc` only when
  `decode_done` is set.
* `Decoder...` is `decode_worker_main`: wait, coalesce (ends by timeout at any
  moment), wait for the model, collect, evaluate, publish. A failed batch may
  have advanced any of its sessions.
* `unkept[s]` records that the session of slot `s` holds a token that the decode
  loop has not yet been told about; `passed[s]` records who was served while `s`
  waited. Both are history: no action reads them.
* Other short holds of `inference_mu` by a slot thread (saving a checkpoint,
  rewinding) behave like `SyncPeek` and change nothing this module has.

### The proof modules

`ModelExecutorProofs`, `JobQueueProofs`, `KVStoreProofs`, `ToolMemoryProofs`,
`LiveContinuationProofs` and `DistSessionProofs` each extend the module they are
about and hold its inductive invariant, lemmas and theorems; `SumTheorems` holds
what KVStore and ToolMemory need to know about sums of sizes. See section 5.

### MCJobQueue

Symmetry for TLC. The configurations give the constants; ModelExecutor is run as
it is.

### KVStore

The directory of checkpoint files and the processes that use it. Within a process
`kv_mu` serialises the calls of `ds4_kvstore.c`, so a process is at one point of
one call; between processes there is no lock, and one action is one access to the
directory.

* `files[t]` is the file named by the hash of text `t`: the configuration in its
  header (model, quantization, context size), the number of tokens it holds, the
  size of its tool map trailer, and whether it is whole. Checkpoints of one text
  may differ in tokens, because a visible transcript does not show the reasoning. A text is an abstract value with its set of prefixes
  and the size of its checkpoint.
* `Open` and the store evict: `EvictStart` scans the directory, each `Evict`
  unlinks one victim, and a failed unlink ends the loop as if there were room. The
  score that ranks the candidates is left open: any entry may be the victim.
* `StoreBegin/Check/Match/Replace/Trailer/Stage/Create/Finish/Return` are
  `ds4_kvstore_store_live_prefix_text` in the order of its accesses: the header of
  an existing file, its text, the unlink of an unusable one or the rewrite of its
  trailer; staging, the size test, eviction; the temporary file; its contents and
  the rename. Each step that can fail may.
* `Compatible` is the test of `kv_cache_existing_compatible` for a file that is
  there already; `Usable` is the test of `ds4_kvstore_find_text_prefix`, which also
  skips what is shorter than the process's `min_tokens`. A store refuses to write
  anything shorter (`StoreBegin`).
* `LoadFind`, `LoadOpen`, `LoadReturn` are the lookup, the second opening of the
  file by name with its own tests (the context is tested by
  `ds4_session_load_payload`), and the hit. `PrefillEnd` is the end of the prefill
  that started from it: a failed one unlinks whatever has that name by then.
* `Stop` ends a process anywhere; `Open` starts it with any configuration and any
  `min_tokens`. `Init`
  allows any directory of whole files. A crash of the machine (lost writes; the
  code does not call `fsync`) is not modelled, nor is a damaged payload.
* A temporary file of a killed process stays on disk: no scan counts or removes
  it, so the model forgets it.
* The size of a checkpoint is the same in every configuration; hits, times and
  header flags are left out.

### MCKVStore

The texts, sizes and configurations of the KVStore runs.

### ToolMemory, ReplayMap, MCToolMemory

`ToolMemory` is the memory of sampled tool-call texts: the `tool_mu` domain, and
the copies of it at the end of checkpoint files.

* `mem` holds what the C structs hold: the list, the entry of each id, the block
  of each text with its count and its own list of entries, and the two counters.
  `Touch`, `RemoveEntry`, `GetBlock`, `AddEntry`, `PutEntry` and `ReleaseBlock`
  are functions from one memory to the next, in the order of the code (a
  replaced entry releases its block before it takes the new one).
* A loop under `tool_mu` (put and prune, look up) is one step per iteration with
  `mu` held. `Remember` is a worker that has sampled calls under new ids (random
  in the code, new by assumption).
* `StoreStart .. StoreReturn` write the trailer of a new checkpoint, or replace
  one in place: cut off, write, set the flag in the header, three accesses that
  a kill may separate. `TouchRead`, `TouchWrite` are another process that reads and
  writes back the same header.
* `Parse`, `ReadFile`, `ReadRest`, `AttachLock`, `Lookup`, `AttachDone` are a
  client thread that renders a history: it scans the files without `kv_mu`, puts
  what it finds, and looks up all ids of a message under one hold of `tool_mu`.
* A text has two halves, so that a trailer read in two reads (`tears`) can mix two.

`ReplayMap` is the promise without any of this: an id stands for the text it was
issued with or for nothing, and a message is answered with a text only if all
its ids stand for it. `PromiseKept` says that `ToolMemory` implements it, with
`known` the texts the entries have now.

### LiveContinuation, MCLiveContinuation

What `generate_job_inner` continues a request from, one slot, one request after
the other, any number of them.

* The session is a token sequence and its `checkpoint_valid`. A binding holds a
  position, the ids it was made for and the visible text, and no tokens: it is
  trusted if the session stands at that position.
* `ChooseResponsesVisible .. ChooseDisk` are the candidates in the order in which
  the code tries them, each with its guard; `Prefill` is what every one of them
  sets up. `SyncSlice/SyncOk/SyncFailed` are the prefill: it may fail or be
  cancelled after any slice, with or without what was done so far (`KeepsSlices`
  is the backends that fall back to the last completed slice).
* `Stop` is the signal, from the moment the slot's thread sees `g_stop_requested`.
  A batched server (`Batched`: `--batched` with at least one session) then does no
  more quanta: `Cut` stops the slices, and `Interrupted` ends the prefill with the
  slices that were done as a valid session. A server that is not batched finishes
  the prefill. Either way nothing more is sampled.
* `Shutdown` is the end of `main`: the session of the slot is stored under the key
  that `kv_cache_store_current` chooses, and the next process starts (`Restart`)
  with that store, no session and no bindings. `Killed` is a second signal, or any
  other sudden end: nothing is stored.
* `Decode`, then one of `Publish`, `PublishStopped`, `PublishFailed`,
  `PublishCanonical`, `Cancelled`: what the turn leaves in the three bindings.
* With exact replay disabled, `PublishCanonical` makes the bindings and starts the
  rewrite of the session to what the next request will render (`Canonical`): it is
  extended, or rebuilt from nothing or from a checkpoint of the store. The rewrite
  is a prefill of its own, slice by slice; `Rewritten` ends it, or `RewriteFailed`
  when it fails, is refused or is interrupted.
* `leftover` is an auxiliary variable: no action reads it. It becomes true when a
  prefill that continues no binding ends early and leaves a part of its prompt as
  a valid session, next to bindings of another history (`LeavesPart`).
* `Hidden` are the tokens that the text a client sees lacks: reasoning, and what
  differs between a sampled call and the same call as the server renders it
  (`Rendered`).
* `StoreContinued`, `Stored`, `Evict`, `Discard` are the checkpoints of the slot:
  tokens under the visible text that finds them again.

### DistSession, MCDistSession

A session of a distributed coordinator, the route of one or two workers it uses,
and the workers.

* `tl`, `valid` are the coordinator's checkpoint; `sess[w]` is a worker's timeline,
  whether it is valid, and the hash it keeps (here the sequence hashed). A hidden
  state carries the history it was computed from and `None` once two stages
  disagree, so `LogitsOfTimeline` sees through the hashes.
* `Register`, `Unregister`, `Planned`, `EnsureRoute` are the registry and the plan,
  kept while the generation is the same. `plan.alive` says whether the route's
  descriptor is the connection its head has now; what an old connection still
  holds can be read (`box`).
* `SpanSend`, `SpanRecv`, `SpanEnd` evaluate a span; `PipeAdmit .. PipeJoin` are the
  producer, the sender and the reader of the pipelined prefill, `Window` and
  `Depth` its limits. `ReplayOnRoute`, `ForgetRoute`, `Reroute`, `ReplayFailed` are
  the recovery.
* `CallLoad`, `LoadLocal`, `LoadShard` load a saved session: the coordinator's
  layers, then each worker's on a connection of its own, any of which may fail or
  lose its answer; `LoadFailed` includes what both callers do then, invalidate the
  session.
* `HeadWork`, `TailWork`, `Relay`, `RelayEnd`, `Disconnect` are the workers: session
  reset and hash check, evaluation, forwarding, results in the order of requests,
  the end of a connection. `LateWork` is work that a data connection had read
  before it ended.
* `BreakControl`, `BreakData`, `Die` and the failing choices of `Local` and `Remote`
  are the faults, `MaxFaults` of them anywhere.
* A span is one token. Chunk sizes, activation encodings, the output head, the
  payload format, saving (which changes no session) and the standalone generation
  loop are left out.

### Fault operators

Next to an action there may be an operator introduced by "Fault:". It is the same
operation with one plausible mistake (a dropped guard, a missing broadcast, a
counter not updated). No specification uses it; it shows for each property that a
mistake in the code it is about would be found.

## 3. Runs

| run | configuration | bounds | checks |
|---|---|---|---|
| `queue_batched` | `JobQueueBatched.cfg` | 4 jobs, 2 slots, one client may hang up, stop at any time | `TypeOK`; `JobOutlivesUse`: nothing points at a destroyed stack job; `OneOwner`: exactly one party will complete a waiting job; `IdleSlotUntouched`: the dispatcher reads only sessions no worker uses; `NoIdleSlotWhileWaiting`; `ContinuationOnItsSlot`; `WorkersOutliveWork`; `CloseIsLast`; `OvertakenOnlyWhenBound`: FIFO except for a job whose slot is taken |
| `queue_live` | `JobQueueLive.cfg` | 2 jobs, both may hang up; 2 slots, and single mode | `EveryJobAnswered`, `ShutdownCompletes` |
| `executor` | `ModelExecutor.cfg` | 2 slots, endless requests of 1 quantum and at most 1 token per loop, slot 0's client may disconnect | `TypeOK`, `ModelExclusive`, `CountersCorrect`, `InFlightHeld`, `SessionMatchesLoop`, `DecoderOutlivesRequests`, `DecodersFirst`, `PrefillBypassedOnce`, `EveryRequestEnds`, `DecoderStops` |
| `kv_alone` | `KVStoreAlone.cfg` | 1 process, 3 texts (one extends another), checkpoints of 1 or 2 tokens, 4 configurations, `min_tokens` 1 or 2, 2 trailer sizes, budget of any two texts | `TypeOK`; `CheckpointsWithinBudget`; `StoredIsUsable`: a store that returns true leaves something the lookup finds, but for a file kept from a process with a smaller `min_tokens` |
| `kv_shared` | `KVStoreShared.cfg` | 2 processes, 2 texts that do not both fit, 3 configurations, unlink may fail | `LoadedMatches`: model and context are right although the file may change between lookup and load; `NoPartialFiles` |
| `tool_memory` | `ToolMemory.cfg` | a worker and a client, 2 ids, 3 texts of which two are in one checkpoint, 2 entries, two large blocks do not fit; trailers read in one piece or two | `AccountingExact`: list, index and counters agree after every iteration; `BlocksCounted`: a block lives as long as its entries; `WithinLimits`; `PromiseKept`: implements `ReplayMap` |
| `tool_memory_torn` | `ToolMemoryTorn.cfg` | the same, trailers read in two pieces | `ReplayExact`, which TLC finds violated (below) |
| `live_continuation` | `LiveContinuation.cfg` | a batched server; 4 histories, an answer and 2 calls the model may sample, one rendered longer and one shorter than sampled, context of 5, 1 checkpoint, exact replay on and off, any number of stops, kills and restarts | `TypeOK`; while nothing is left over, `PromptFaithful`: what is evaluated is the history the client asked for; `DiskFaithful`: a checkpoint holds what its key says; `TrustedBindingIsCurrent` |
| `live_stop` | `LiveContinuationStop.cfg` | the same without rewinds, exact replay on | `CheckpointAsNamed`, which TLC finds violated (below) |
| `live_refused` | `LiveContinuationRefused.cfg` | not batched, exact replay off, context of 7, an answer with 3 tokens of reasoning | `BindingAsTrusted`, which TLC finds violated (below) |
| `dist_session` | `DistSession.cfg` | head and tail, 2 contradicting prompts of 2 spans, a saved session, 2 calls and any rewinds, 1 fault, window 2, depth 1, span by span and pipelined | `TypeOK`; `HashIsTimeline`; `QuietBetweenCalls`; `SyncDelivers`; `LogitsOfTimeline`; `CallReturns` |
| `dist_replay` | `DistSessionReplay.cfg` | one worker | `EvalDelivers`, which TLC finds violated (below) |

Why the bounds are enough to be interesting. Four jobs on two slots let a job
wait while both slots are taken, be bound to a taken slot while the other is
free, and let a queue of two see a slot become free, where the order matters. A
connection carries one request, so `Jobs` bounds the number of requests in the
queue runs; the executor serves requests for ever, so one quantum and one token
per loop still give every order of grants, batches and withdrawals between two
slots. What the executor run cannot show, round robin among three slots and
syncs of several quanta, is proved for all of them (section 5).

Two ids and three texts of different size let an entry be replaced by a text
that shares a block, that does not, or that forces the other entry out. A
context of 5 holds a history, a turn and a continuation, with room for a
different history of the same length, which is what a position cannot tell
apart. In `dist_session` a fault can meet the first call, its replay, or what the
first call left for the second; the prompts contradict each other at the first
token, so a state that is kept by mistake shows in the logits.

In the KVStore runs the trailers are large enough for a checkpoint that fits
without its tool map and not with it (the 1% headroom counts), and the budget is
small enough for every store to compete with the other texts. `CheckpointsWithinBudget`
and `StoredIsUsable` are about one process: with two, each may store after the
other has counted, and each may evict what the other has just stored.
`CheckpointsWithinBudget` sums checkpoints without their tool maps, because
`kv_cache_rewrite_trailer` enlarges a file in place and evicts nothing; the next
store or start brings the directory back under the budget.

What `StoredIsUsable` excepts. `kv_cache_existing_compatible`
(`ds4_kvstore.c:843-865`) does not look at the number of tokens, and the lookup does
(`ds4_kvstore.c:1199`). After a restart with a larger `min_tokens` a store can
therefore keep a file that is too short for this process and return true, although
the session it was asked to store is long enough: the newer checkpoint is not
written, and no lookup finds the old one. `ds4_help.c:369` says of the option "Do not
save/load checkpoints shorter than N". The exception in the property is exactly
this case, and `StoresAreFound` (section 5) proves that there is no other: where
`min_tokens` never changes, every store that returns true is found.

What `tool_memory_torn` shows. A client thread restores ids from the trailers of
all checkpoint files without `kv_mu` (`ds4_server.c:10253`); a worker that stores
an existing checkpoint rewrites its trailer in place. A trailer that crosses the
end of the stream's buffer is read in two reads, and between them it can change:
an id gets the first part of one text and the rest of another, and
`ds4_server.c:9416` promises to "replay the sampled DSML verbatim". Everything
else of `ReplayMap` holds even then, and `PromiseKept` shows that with one read
the promise is kept through eviction, kill, restart and a header written by
two processes.

What `live_continuation` leaves out, and why. A binding is recognised by a position
alone. When a prefill that continues no binding ends early and its part of the
prompt stays in the session as a valid checkpoint, the bindings of the older turn
stay too, and nothing but the length tells them apart. From then on (`leftover`)
the three properties are not claimed: `live_stop` and `live_refused` check the
unconditional ones and show two ways in which they fail, and the theorems of
LiveContinuationProofs say that there is no way without a leftover, and that in the
default server none is left.

What `live_stop` shows. In a batched server `server_session_sync` returns between
two quanta when a stop is requested (`ds4_server.c:11475`, `ds4_server.c:11496`), the
session being valid with the part that was done. `generate_job_inner` returns
before it clears the bindings, since the client is still there
(`ds4_server.c:12606-12621`). `main` then stores the session of every slot
(`ds4_server.c:14873-14881`), and if its length is the one that the binding of an
older turn remembers, under the visible text of that turn
(`ds4_server.c:10438-10455`). The next process finds it by that text and continues
the old conversation from another one. `ds4_server.c:10457-10461` says of such a key
"On load, DS4 restores the hidden KV payload and tokenizes only the visible suffix
that follows this key." The same return without a stop: on a backend where
`ds4_session_sync` falls back to the last completed slice and stays valid
(`ds4.c:67763`, `ds4.c:67837`) a failed prefill leaves the same state, and with
`KeepsSlices = TRUE` TLC finds a request that is continued from it in the same
process.

What `live_refused` shows. With exact replay disabled, `canonicalize_tool_checkpoint`
runs after the Anthropic binding was made and may load a checkpoint in place of the
session (`ds4_server.c:11972`). The checkpoint may hold reasoning that the rendered
history lacks, so its continuation can be too long for the context although the
rendered history is not; the prefill is then refused (`ds4.c:67059`), the code only
logs it (`ds4_server.c:12058`), and the checkpoint stays in the session, valid, with
the binding of another history. If it has the length that the binding remembers,
the outputs of the tool calls are continued from it. `ds4_server.c:9599` calls it
"only an in-memory binding from protocol tool-call IDs to the current sampled KV
frontier". It takes a context of 7 and an answer with three tokens of reasoning for
the lengths to agree; `live_continuation` reaches the refusal at its own bounds,
where `leftover` records it.

What `dist_replay` shows. `ds4_dist_session_eval` gets the session's own checkpoint
(`ds4.c:68927`). The coordinator's layers add the token to it when they succeed
(`ds4.c:66267`); if a worker then refuses or fails, the recovery copies the
checkpoint and pushes the token once more (`ds4_distributed.c:5677`). The replay
succeeds, and the session has the token twice. It needs no fault: a GLM session
that is rewound and then given a token is refused by its workers' hash check.
`docs/DISTRIBUTED.md:154` describes the recovery as a replay of "the saved token
prefix". The standalone generation loop keeps a transcript of its own and is not
affected.

Met while modelling, without a run of their own:

* After such a replay has failed behind the coordinator's layers, the checkpoint
  is as long as the prompt, and a retry of the same sync returns success at once
  (`ds4_distributed.c:5537`) with the logits that were there before.
* A worker's error in a pipelined prefill makes the reader shut the connection
  (`ds4_distributed.c:3373`); the recovery for a worker's error keeps the route, so
  it runs on the dead connection and the call fails.
* `dist_coordinator_forget_route_workers` closes a descriptor
  (`ds4_distributed.c:2116`) that its monitor thread still polls and closes again
  when it ends; the number may have been given to another connection.
* After a turn whose request sent only tool outputs, the visible text remembered
  for Responses is that of those outputs (`ds4_server.c:13388`), so a client that
  replays the whole transcript is not recognised; it is served from scratch.
* `--kv-cache-reject-different-quant` is documented as "Reject checkpoints written
  with different routed-expert quantization." (`ds4_help.c:374`). The lookup does so
  by the header it read while scanning the directory (`ds4_kvstore.c:1202`), but
  `ds4_kvstore_try_load_text` opens the file by name later and does not test the
  quantization again. When a second process with the other quantization replaces
  the file in between, its checkpoint is loaded. `LoadedMatches` is therefore about
  the model and the context only.

Deadlock is checked in every run but those of DistSession, where calls are
bounded and the system stops after the last one: `CallReturns` says that a call
does not. In JobQueue and ModelExecutor the only final states are those after
`main` has returned (JobQueue) or the decode thread has (ModelExecutor), where
`Terminated` stutters.

## 4. Fairness

* Threads: weak fairness of every client thread, worker, slot thread, the decode
  thread and `main`. The scheduler runs every runnable thread, and what they call
  returns: `recv` and `send` have timeouts, a generation is bounded by
  `max_tokens` and the context, the coalescing wait has a deadline.
* `inference_mu`: strong fairness of `SyncPeek` only. That thread wants the
  mutex for a moment while other threads take and release it again and again. The
  owner of `model_busy` needs only weak fairness: nobody else holds the mutex for
  longer than a moment.
* DistSession: weak fairness of the caller's thread, the pipeline's threads, and
  each worker's and monitor's thread. A worker reconnects for ever
  (`dist_run_worker`), and a connection that is lost is seen by both ends.
  A connection that stays open and silent for ever is not a fault of this model:
  without a receive timeout the code would wait for it.
* Nothing is assumed of clients (they need not connect or hang up), nor of the
  stop signal.
* `EveryRequestEnds` also assumes `FinitelyManyDisconnects`. Without it TLC finds
  a starvation: `last_prefill_slot` moves only when a quantum is granted, so a
  slot that is first in the scan and whose clients all disconnect while they wait
  can be preferred to another waiting slot again and again. It takes an endless
  stream of disconnecting clients, each arriving before the other slot's thread
  wakes up.

## 5. Proofs

`ModelExecutorProofs` proves, for every number of slots and every bound on quanta
and tokens (assumptions: `N` is a positive natural, `MaxQuanta` positive,
`MaxTokens` a natural), from `Spec` alone:

* `TypeCorrect`: `[]TypeOK`;
* `ExclusiveModel`: `[]ModelExclusive`;
* `CountersExact`: `[]CountersCorrect`;
* `BatchOwnsSession`: `[]InFlightHeld`;
* `LoopInStep`: `[]SessionMatchesLoop`;
* `DecoderLast`: `[]DecoderOutlivesRequests`;
* `FairPrefill`: `PrefillBypassedOnce`, an action property;
* `DecodeBeforePrefill`: `DecodersFirst`, an action property.

The argument. `IInv` is the inductive invariant. `ModelExclusive` is inductive by
itself, and so are the two counters, given `TypeOK`: each action that moves a
counter moves the set it counts by the same slot (lemma `OneMore`). `InFlightHeld`
needs `BatchHeld` (no old batch is left when a new one is collected).
`SessionMatchesLoop` is not inductive: `UnkeptInv` says where an uncounted token
can be (in a batch about to be published, in an answer not yet read, in a request
that is ending), and none of these is the top of the loop.
`DecoderOutlivesRequests` follows from `StopInv`. For the round robin, `RobinInv`
says that every slot served while `s` waits lies behind `s` in the current scan:
a grant serves the first waiting slot, which becomes the last of the next scan,
and shifts the others by the same amount, so it cannot be first again before `s`
is. Each conjunct has a lemma (`TypeStep`, `TodoStep`, `StopStep`, ...) with a step
for each action that can disturb it and one for the actions that cannot; `StepInv`
puts them together. TLC checked `IInv` on the instances of `executor` (and three
slots) before it was proved.

`JobQueueProofs` proves, for any finite sets of jobs and slots (at least one slot)
and for both modes: `TypesCorrect`, `NoDanglingJob` (`JobOutlivesUse`),
`ExactlyOneOwner` (`OneOwner`), `ScoresReadIdleSessions` (`IdleSlotUntouched`),
`NobodyWaitsBesideIdleSlot`, `ContinuationsBound`, `WorkersStay`, `ClosedLast`, and
the action property `FifoAmongRunnable` (`OvertakenOnlyWhenBound`). `PlaceInv` says
that a job is in at most one place (the list, a slot's `assigned`, a worker's
hands), `ClientInv` that it is in one while its client waits and in none
otherwise; together they give the ownership properties, and neither is inductive
without `SlotInv`, which ties `busy`, `assigned` and `running` to the worker's
control point. `OrderInv` says that the list is an order, without which a
dispatch could leave two jobs each behind the other. `BindingInv` says that a job
that has not run yet is nobody's binding, which `ContinuationOnItsSlot` needs when
a request is handed over. The dispatch loop is digested once: `DispatchDoes` says
what it may do to the list and the slots, and every action that dispatches uses
that. TLC checked `IInv` with 3 jobs and 2 slots in both modes (996,657 states).

`KVStoreProofs` proves, for any number of processes on one directory, any texts,
sizes and configurations, an unlink that may fail, and kills anywhere:
`TypesCorrect`, `LoadsMatch` (`LoadedMatches`) and `FilesAreWhole`
(`NoPartialFiles`). The invariant ties each process's locals to its control
point; a temporary file carries the configuration of its process (`TempInv`) and the
tokens of the store under way, at least `min_tokens` of them (`LengthInv`), which is
what a rename publishes. `BudgetKept` (`CheckpointsWithinBudget`) and
`StoresAreUsable` (`StoredIsUsable`) have two hypotheses, because without them
they are false: `Alone` (one process) and `~UnlinkMayFail`. `EvictInv` says that
while the eviction loop runs its entries are the files on disk, its total is
their sum and its target leaves room for the new file; `KeptInv` that a file
which was found compatible stays until the store returns. `StoresAreFound` proves
`StoredIsFound`, which has no exception, where all processes have one `min_tokens`
and the directory holds nothing shorter at first (`LongFiles`, which every step
keeps). TLC checked the invariants on the instances of `kv_alone` (426,537 states)
and `kv_shared` (1,592,605).

`SumTheorems` represents a sum over a finite set as the number of units in it, so
that what is needed of sums (type, empty, one element more or less, monotony)
follows from the library's facts on cardinality instead of an induction.

`ToolMemoryProofs` proves, for any threads, texts, files and limits and any finite
set of ids: `Accounting` (`AccountingExact`), `BlocksLive` (`BlocksCounted`),
`Limits` (`WithinLimits`), and `Refinement`, that ToolMemory implements `ReplayMap`
(`PromiseKept`) step by step. `Sound(mem)` is what the list, the entries, the
blocks and the counters say about each other; each function on the memory
(`Touch`, `RemoveEntry`, `GetBlock`, `AddEntry`, `PutEntry`) has a lemma that it
keeps that, and a lemma on what it does to the text of each id. `TextInv`
says that wherever a text travels with an id (memory, a put, a trailer, a read
buffer) the id was issued with it or, where reads may tear, with one that begins
like it; `FileInv` that readers and writers refer to files that are there;
`LockInv` that the limits are exceeded only by a holder of `tool_mu` that is
pruning; `LookInv` that a lookup has so far seen one text.
`ReplaysAreVerbatim` proves `ReplayExact` where no trailer is read across a
rewrite (`~tears`); without that hypothesis `tool_memory_torn` refutes it. TLC
checked `IInv` on the instance of `tool_memory` (1,493,952 states).

`LiveContinuationProofs` proves `TypesCorrect`, `PromptsAreFaithful`
(`PromptFaithful`), `CheckpointsAreFaithful` (`DiskFaithful`) and
`BindingsAreCurrent` (`TrustedBindingIsCurrent`) for any texts, answers, calls,
context and number of checkpoints, any backend and mode, from `Spec` alone. The
invariant is `Faithful`: as long as nothing is left over, `IInv`. Every step of
`Next` is shown to keep `IInv` or to set `leftover`; `Shutdown` is safe because what
`IInv` says of bindings makes `StoreKey` the key of the session's own history, and
`Restart` because the store is all that it keeps. `DefaultsAreSound` shows that
`leftover` is never set in a server that is not batched, on a backend that
invalidates what fails (`~KeepsSlices`), that replays calls verbatim, which is the
default, or keeps no checkpoints (`NoLongRewrite`): there the prompts, checkpoints
and bindings are faithful without any condition. `TypesCorrect` does not need
`Faithful`: `SlotOK` are the types and the bound on the session, and is inductive by
itself. `TextAssumption` is
what is assumed of the rendering: a history starts with a token that neither
reasoning nor a tool's output starts with, and a call is rendered as the call
that was sampled. The invariant: a valid session starts like a rendered history
(`SessionTypes`); all bindings of a slot were made at the same position
(`LiveInv`); a binding that stands where the session stands is about it, not only
between requests but also while a prefill continues from it, which a refused
prefill needs (`TrustInv`, `SyncInv`); a turn keeps no binding of another protocol
(`TurnInv`), so none is left that a rewrite would not follow (`RewriteInv`). The
visible text is a fold over the history; that it distributes over concatenation
is proved by a least counterexample, not by induction. TLC checked `Faithful` on the
instance of `live_continuation` (4,558,162 states).

`DistSessionProofs` proves, for any number of heads and tails, prompts, window,
depth, calls and faults: `TypesCorrect`, `HashesFollowTimelines`
(`HashIsTimeline`), `SyncsDeliver` (`SyncDelivers`), `CallsStartQuiet`
(`QuietBetweenCalls`), the action property `LogitsBelongToTimeline`
(`LogitsOfTimeline`), and `AnswersAccounted`: the connection of a route owes a call
exactly the answers it still expects. Every message is well formed in the sense
that matters: work carries the hidden state of the history it extends, and a
result the state of the history it names (`GoodWorks`, `GoodResults`); a worker
keeps this because it evaluates only work whose prefix hash is its own. `SpanInv`
and `PipeInv` say how much of its goal a call has evaluated and what the session
then holds, `ForwarderInv` what a forwarder owes; `FlowInv` counts the answers on
the way. TLC checked the invariants with one head and one tail (653,802 states),
two heads and no tail (498,390), two heads and one tail (156,630) and one head
and two tails (141,482).

Only model-checked: the liveness properties (`EveryJobAnswered`,
`ShutdownCompletes`, `EveryRequestEnds`, `DecoderStops`, `CallReturns`), which with
fairness and ENABLED are outside the prover's reach. Refuted by TLC and therefore
not provable: `ReplayExact` with torn reads, `EvalDelivers`, and `CheckpointAsNamed`
and `BindingAsTrusted` where a part of another history is left over.

## 6. What is not modelled

* HTTP and JSON parsing, streaming formats, logging and tracing; the score that
  ranks slots; sampling.
* Failures of `pthread_create` at start-up (main exits), of memory allocation
  (the program aborts), and in JobQueue and ModelExecutor a second stop signal
  (`_exit`), which LiveContinuation, KVStore and ToolMemory have as a kill.
* Single mode inside the executor: there a request holds `inference_mu` for the
  whole sync and each token; JobQueue covers its queueing.
* Images: the feature cache and the images of a message.
* Distributed: two workers with the same layers on one host, of which the
  coordinator's registry keeps the last (`ds4_distributed.c:1892`): here each worker
  has a host of its own; saving a session and the payload format, the standalone coordinator, the
  HELLO checks, queue limits of the workers, collisions of the token hash.
* Most of the repository by lines: GPU backends (`ds4_cuda.cu`, `ds4_metal.m`, the
  ROCm headers) and the transformer graphs of `ds4.c` are numeric kernels whose
  correctness is a matter of floating point, memory layout and device
  synchronisation; the tokenizer, the command line, evaluation and benchmark
  tools are sequential text processing; `rax.c` and `linenoise.c` are third-party.
  They have no state machine to check, and the share of the lines that the map
  covers is small because of them.

## 7. Plan

1. JobQueue, ModelExecutor and its proofs, KVStore: done.
2. ToolMemory with its refinement of ReplayMap, LiveContinuation, DistSession: done.
3. JobQueueProofs, KVStoreProofs, ToolMemoryProofs, LiveContinuationProofs,
   DistSessionProofs: done.
4. Server: JobQueue and ModelExecutor composed, with the joint actions
   (`generate_job`, cancellation, shutdown), and shown to implement an abstract
   request service in which each request is answered at most once.
5. Tensor parallelism: the command protocol of leader and followers.
6. The agent's worker thread and interrupts; the image cache.
7. Pure algorithms against reference definitions: layer packing, GPU argument
   parsing, checkpoint length rounding, prompt prefix.
