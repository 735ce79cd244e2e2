# A verification project for the Length Value Model repository

The repository trains a Length Value Model (LenVM), a model that predicts how
much longer a generation will be, and uses it to steer a language model's
sampling. Its pipeline is: generate answers (`data_generation/`), train a LenVM
on their lengths (`LlamaFactory-LenVM/`), serve the language model with LenVM
guidance (`sglang-LenVM/`, the `srt/lvm` package and hooks in the scheduler and
sampler), and evaluate and plot (`inference/`). Most of the repository is two
vendored frameworks. This project models the code that is the repository's own
and keeps state: guided decoding, the LenVM's KV cache, the value server with the
radix cache its requests share, hard length control and the data generator; and the
part of the serving engine every request passes, the tokenizer manager with its
readers-writer lock.

Paths below are relative to `src/`; `srt/` is
`sglang-LenVM/python/sglang/srt/`.

## 1. The system

| Component | State | Operations | What is hard | What makes it correct |
|---|---|---|---|---|
| LenVM KV manager and runner (`srt/lvm/lvm_inproc_runner.py`, two allocators in `srt/mem_cache`) | rid → row, rid → cached length, `req_to_token`, two free lists, the KV itself | `get_or_alloc`, `extend_prefix_batch`, `retract`, `eval_candidates_batch_gpu`, `release`, `cleanup_stale_rids` | long sequences of calls; temporary slots; out of memory between two steps | no slot has two owners, none is lost, what is cached is the KV of the request's prefix |
| Guided sampler (`srt/lvm/lvm_guided_sampling.py`) | the prefix kept with a request (`_lvm_prefix_cache`); which rows are sent | `clean_stale_requests`, `_build_pending`, `tree_value_extend`, evaluation, guidance | rows join, leave, are retracted, are skipped; cached state is recognised by rid and length alone | candidates are valued in the context in which the token is sampled |
| `Sampler.forward` (`srt/layers/sampler.py`) | none | guided, filtered or direct sampling | guided and unguided rows in a batch | each row is sampled within its own filters |
| Scheduler (`srt/managers/scheduler.py`, `schedule_batch.py`, `scheduler_output_processor_mixin.py`, `tp_worker.py`) | waiting queue, running batch, chunked request, batches in flight | the normal and the overlap loop, prefill in chunks, decode, retraction, abort, result processing | with overlap, results are applied one batch late | no request lost or scheduled twice, one token per pass, every request ends |
| LenVM value server (`srt/managers/scheduler.py`, `schedule_policy.py`, `srt/lvm/tree_value_spec.py`) | waiting queue, chunked request, batches in flight, `batch_is_full`, KV slots, rows | arrival, prefix match, admission, chunking, allocation with eviction, tree mask, result processing, abort, in both loops | embedding and tree_value requests share a cache; results one batch late; a full pool | no slot lost or used twice; candidates never cached as text; each request answered for its own text, and served |
| Radix cache (`srt/mem_cache/radix_cache.py`) | tree of segments, lock counts, two size counters | match, insert, split, lock, unlock, evict | splits under locks; duplicates of what is cached already | locks and counters exact, nothing in use is evicted |
| Tokenizer manager (`srt/managers/tokenizer_manager.py`) | `rid_to_state`, pause flag, coroutines, delayed cleanups and aborts | `generate_request`, `abort_request`, `handle_loop`, `update_weights_from_disk`, `pause_generation`, `continue_generation` | one event loop, a scheduler process, two ways back from it that overtake each other; clients that leave | every message finds its state, every request, update and pause ends, no answer mixes weights |
| Readers-writer lock (`srt/aio_rwlock.py`) | readers, waiting writers, active writer | acquire and release | lost wake-ups, starvation, cancellation while waiting | exclusion, and no one waits for ever |
| Length control (`lvm_guided_sampling.py` l.79-643) | none; over a request, the tokens in `output_ids` and those sampled but not yet in it | hard constraints, expectation tilting, entropy threshold | boundaries: target reached or passed, ties, nothing but EOS, the largest value; with overlap the count is one token behind | the documented candidate is chosen, minimum and budget are kept |
| Data generator (`data_generation/data_generator`) | jsonl file, tasks, semaphore, unsaved batch | fill and refill, request with retries, save, restart, group | asyncio tasks interleave; kills and failed writes; restarts append to what is there | not more than n answers a question, none lost silently, each run ends |
| LenVM training (`LlamaFactory-LenVM/src/llamafactory/train/lenvm`, `data/processor/value_regression.py`) | model and optimiser | labels, loss, training | numerical | labels are the discounted remaining lengths |
| Evaluation, visualization (`inference/`) | files | scripts | – | – |

How they interact. The scheduler's one thread forms a batch and calls the main
model; the sampler, in the same call, asks the guided sampler, which drives the
in-process LenVM (a second model with its own memory pools) or an HTTP server.
The guided sampler reads `Req.output_ids`, which the scheduler appends to when it
processes the batch's result: after sampling in the normal loop, one iteration
later in the overlap loop. A value server is the same engine launched for
embeddings; its tree_value requests carry a prefix and candidates. In front of every
engine the tokenizer manager keeps one coroutine per client; requests, aborts and
weight updates go to the scheduler process in one queue, outputs come back through
the detokenizer, reports of dropped requests and results of updates directly.
The data generator is a client of any OpenAI-compatible
server; its grouped file is the input of the downsampler and of training.

## 2. The modules

**`LvmKvPool`** models `LvmKvManager`, `LvmInprocRunner` and the `_Inproc` adapter
with the two allocators, page size 1. One action per call:
`CleanStale` (`clean_stale_requests` → `cleanup_stale_rids` → `release`),
`TreeValueExtend` (`tree_value_extend` with `retract` and `extend_prefix_batch`),
`EvalCandidates` (`eval_candidates_batch_gpu`), `NothingToSend`, and the error
paths `ExtendFails` and `EvalOom`. `pool_indices`, `kv_lens`, `req_to_token`,
`free_slots` and `free_pages` are the code's tables; `phase` is which call of the
decode step comes next. `EvalCandidates` takes its slots from the free list (`Taken`) and
gives them back as the `finally` does (`Returned`); the two are one step, as the
scheduler's thread runs nothing else between them. Free lists are bags, so that a double free can be seen,
and allocation takes any free slot. The content of a KV slot is the token sequence
it was computed from: a forward pass appends the new tokens to whatever the cache
encodes, right or wrong. The caller is unconstrained: any batches, any rows, any
prefixes.

**`LvmPrefixStore`** is the abstract specification: one prefix per request, no
rows, slots or lists. `LvmKvPool` implements it (`ImplementsStore`, with
`cached` mapped to what the KV of each request encodes), including that evaluation
fails exactly when the pool is too small. `Resume` shows what the sampler has to
live with: only lengths are compared.

**`GuidedDecode`** extends `LvmPrefixStore` with the scheduler and the sampler.
`Submit` and `Abort` are the messages; `Prefill`, `Decode` and `NoNextBatch` are
the outcomes of `get_next_batch_to_run` (with chunks and retraction);
`ApplyClean`, `ApplyExtend`, `SampleGuided`, `SampleUnguided`, `SampleGreedy` and
`Crash` are `run_batch`; `Process` is `process_batch_result`. `overlap`, chosen from
`Overlaps` at the start, is the loop; each rid is submitted once. The main
model's memory is not modelled: which requests are admitted, cut into chunks or
retracted is any choice the code could make (never all of the running ones
retracted). Sampled tokens are any tokens. Mixed chunks, speculation, grammars,
priorities, disaggregation, and `SGLANG_DISABLE_CONSECUTIVE_PREFILL_OVERLAP` (off by
default) are off.

**`GuidedSampler`** is one call of `Sampler.forward` for a batch that is not all
greedy. Probabilities are abstracted to their support, filters to the set of
tokens they leave, guidance to any non-empty part of it. That guided rows keep to their
filters (`GuidedRowsFiltered`) is proved; TLC shows what happens to the other rows.

**`DataGen`** is the data generator for one split. `Load`, `Wait`, `Handle`,
`Save`, `SaveFails`, `Group` are `main` and `process_dataset` between their
awaits; `Acquire`, `Answer`, `Fail`, `Retry` are the `process_sample` tasks;
`Crash` ends the process anywhere (also after a finished run) and starts it again.
The file is a sequence of lines, of which the last may lack its newline; what a
write that ends early leaves (`Torn`) and what a later append or scan makes of it
(`Written`, `LinesSeen`) are modelled, including bytes that are not UTF-8, which
hide the other lines of their block from the scan. `lost` is a history variable
for `NothingLost`.

**`RWLock`** is `aio_rwlock.py`: each method is one step up to `_cond.wait()` and one
after it; `sleeping` holds the coroutines that wait and were not notified.

**`TokenizerManager`** extends `RWLock` with the life of a request. `Enter`,
`RetryReader`, `Send`, `TokenizeFails`, `TakeChunk` and `Answer` are `generate_request`
between its awaits; `Disconnect`, `CancelStream` and `BackgroundAbort` are what happens
when the client leaves; `HandleBatchOutput`, `HandleAbortReq` and `HandleUpdateResult` are
`handle_loop`, `Cleanup` the delayed cleanup task; `CallUpdate`, `BeginUpdate`,
`RetryWriter` and `EndUpdate` are `update_weights_from_disk`; `PauseGeneration` is one
round of `pause_generation` in mode "abort", `ContinueGeneration` its end. The scheduler
is there as far as it decides what comes back: `Receive` takes one message, `QueueTimeout`
drops a request that waited too long, `RunBatch` is an iteration, with retraction and any
output. An exception that ends a process is `crashed`.

**`RadixCache`** has the operations of `radix_cache.py` as operators on a value: tokens
are named by the path that leads to them, nodes by the path at which they end, and
eviction takes any leaves the policy could choose.

**`TreeServe`** extends `RadixCache` with the value server. `Arrive` and `Abort` are the
messages; `BeginNone`, `BeginNew`, `BeginChunked`, `AddOne` and `StopAdding` are
`get_new_batch_prefill` with the `PrefillAdder`'s accounting; `Launch` and `LaunchNone`
allocate (evicting) and run the forward pass, which writes to every slot what its token
attends to, under the causal or the tree mask; `Process` answers, frees duplicates and
caches. `overlap` is the loop.

**`LengthControl`** is one request under `lvm_hard_value_constraint_guidance`, pass after
pass, in either event loop (`overlap`). `Offer` brings candidates with any values and
probabilities, `Choose` is the scan of the code and the sampling of its result, `Skip` a
pass below the entropy threshold, which is not guided, and `Process` appends the oldest
result to `output_ids` and checks whether the request has finished (`ignore_eos`
included). A pass may be launched when no result is outstanding, in the overlap loop also
when one is (`Launch`, `Lag`): the guidance counts `output_ids` (`TargetLength`), so there it
may count one token too few. A result that comes after the request finished is dropped.
Values are compared as the lengths they stand for. Length 0 of a token other than EOS is
a value below 1e-9, which "eq" clamps to the same length as the 0 of EOS, while the other
constraints tell the two apart (`Rank`). In an honest behaviour the LenVM's promise is kept
(after a token of value n some candidate has value n - 1), in any other it is not; only
the normal loop has honest behaviours, since with overlap the LenVM values candidates
without having seen the newest token (`decode_overlap_context`).

`MCLvmKvPool`, `MCGuidedDecode` and `MCTreeServe` name constant values and symmetries for
TLC; the other modules are run as they are. The proofs are in
`LvmKvPoolProofs`, `LvmStoreProofs`, `GuidedDecodeProofs`, `GuidedSamplerProofs`,
`LengthControlProofs`, `DataGenProofs`, `TokenizerManagerProofs` and `TreeServeProofs`.
Definitions whose comment begins with "Mutant of" are variants with a
plausible bug; replacing the definition they are mutants of makes TLC violate the
property listed with them in `PROJECT.json`.

## 3. The runs

| Run | Shows |
|---|---|
| `kvpool` | `TypeOK`, `NoSlotShared`, `NoRowShared`, `NoLeak`, `CachedKvValid` (the docstring of `LvmKvManager`), `EvalSeesAskedLength` (the assumption of `eval_candidates_batch`), `ExtendReachesPrefix`, `EvalLeavesCacheAlone`, and the refinement `ImplementsStore` |
| `decode` | in both loops: what the LenVM has cached when candidates are valued is the request's own text, complete in the normal loop and lacking at most the newest token in the overlap loop (`LagsOneToken`); `ScheduledOnce`, `OneTokenPerPass`, `EveryRequestEnds` |
| `decode_overlap_context` | (violation) with overlap the newest token is indeed missing: `ValuedInContext` fails |
| `sampler_mixed` | (violation) rows that share a batch with a guided one are sampled without their filters |
| `datagen` | `NeverTooMany`, `NothingLost`, `Saturated`, `RunEnds` through retries, failed saves, kills and restarts |
| `datagen_split` | (violation) the scan after a restart miscounts |
| `tokenizer` | `UpdateExcludesAnswers`, `AbortFindsState` (no KeyError in `_handle_abort_req`), `OwnedByState`, and that requests, weight updates and pauses end (`EveryRequestEnds`, `UpdateEnds`, `PauseEnds`) |
| `tokenizer_flush` | (violation) a weight update can kill the scheduler: the assertion that the cache was flushed fails while a request of a departed client is in a batch |
| `serve` | `SlotsAccounted`, `LocksExact`, `CacheHonest`, `AnswersRight`, `AdmittedFits` in both loops, `EveryRequestServed` in the normal one |
| `serve_full` | (violation) in the overlap loop `batch_is_full` stays set and waiting requests are not scheduled |
| `length` | in both loops: `ScanFindsBest` (the loops against the documented order), `AtLeastKept`, `StopsAtBudget` (the answer ends with the first EOS on offer after `target_length` tokens, with overlap after one more); in the normal loop `NeverFarther`: "eq" does not drift from `target_length` tokens and an EOS after them |
| `length_budget` | (violation) "eq" drifts from `target_length` tokens that include EOS: the budget is not the total that the docstring and LIFEBench take it for |

The six violations are the findings in `PROJECT.json`, each with the line of the
code and the comment or assertion it contradicts. With `--disable-overlap-schedule`
neither the missing token nor the flag that stays set can occur. `docs/server.md` and the
scripts for guided decoding (`scripts/inference/demo_tradeoff.sh`, `demo_lifebench.sh`) pass
it. The scripts that launch the model as a value server do not
(`scripts/visualization/demo_visual.sh`, `scripts/inference/demo_length_prediction.sh`,
`demo_length_token.sh`): their servers run the overlap loop, the one in which
`serve_full` finds the flag stuck.

**Bounds.** `kvpool`: two requests, two rows, three KV slots, two tokens, prefixes
up to two tokens, one candidate. Two requests compete for rows and slots, prefixes
grow, shrink and differ, a full pool makes evaluation fail; requests, rows and
slots are symmetric (no liveness is checked there). The theorems drop these bounds.
`decode`: two requests with prompts of one token, at most three prefill passes and two
generated tokens a request, one stop token, both loops: long enough for a request to be
prefilled in chunks, decoded, retracted and prefilled again while the other arrives or
finishes. `MaxLen` is the longest prefix that is sent; the KV pool has room for both
requests' prefixes but not always for their candidates, so evaluation also fails.
`sampler_mixed`: two rows, three tokens; all pairs of rows. `datagen`: two questions, two
answers each, two requests at a time, one retry, batches of two, two runs; there
are more tasks than slots, batches fill in mid-run and a last one is flushed, and
each kill is followed by a full run. `datagen_split` has three runs, since the
miscount takes two restarts.
`tokenizer`: one plain and one streaming request, at most two forward passes
(`MaxSteps`) and one retraction (`MaxRetracts`) each, one weight update, one pause and
continue, which aborts again only when fewer than `MaxInbox` = 1 messages wait for the
scheduler (the code aborts once a second): one request can hold the lock or be in a
batch while the other waits, leaves or is dropped, with an update between them. The theorems drop these bounds.
`serve`: three requests of five kinds (a short and a long text with a common start, the
long one in three chunks, candidates that spell a cached text, a longer prefix, and one
that bypasses the cache), six slots, two rows, chunks of two: the pool is too small for
all, so requests wait, share, are evicted and are chunked across others. The theorems
drop these bounds.
`length`, `length_budget`: one or two candidates, EOS or of length 0 to 4, two
probabilities, targets 0 to 3, five new tokens, `Cap` 3: ties, targets that are reached,
passed or out of reach, in both loops. The theorems drop these bounds.

**Fairness.** `GuidedDecode` has weak fairness of the loop as a whole
(`WF_vars(Iterate)`): the loop never stops by itself and every call in it returns.
Nothing is assumed of the choice between prefill and decode, of admission or of
retraction; requests end because retraction never takes the last running request
and keeps the tokens. A request may go unserved only while others make progress, of which
there are finitely many here. `DataGen` has weak fairness of the main coroutine
and of each task: the event loop runs what is ready, every request ends because
`request_timeout` is set (60 s by default), and sleeps end. The semaphore is not
assumed to be fair. `TokenizerManager` has weak fairness of every coroutine that has
started, of `handle_loop`, of the updater, of a pause that has begun, and of the
scheduler's reading and running: an event loop runs what is ready and the scheduler's loop
does not stop. Clients, timeouts, cleanups and background aborts owe nothing. `TreeServe`
has weak fairness of the scheduler's thread, which never blocks.

**Deadlock** is not checked where the system may stop: a process that raised
(`LvmKvPool`, `GuidedDecode`, `TokenizerManager`, `TreeServe`), one sampling call, a
finished run of the generator, all requests served or ended.

## 4. What is proved

`LvmKvPoolProofs` proves, with TLAPS and for all sets of requests, tokens, rows
and slots (finite or not) and all `MaxLen`, `MaxCands` in `Nat`, from
`PoolAssumption` alone:

- `TypeCorrect`, `SlotsSafe` (`NoSlotShared`), `RowsSafe` (`NoRowShared`), `NothingLeaks`
  (`NoLeak`), `KvValid` (`CachedKvValid`), `AskedLength` (`EvalSeesAskedLength`) as invariants;
- `ReachesPrefix` and `EvalPure`, the two action properties.

None of the invariants is inductive alone. `IInv` is their conjunction with
`AskedOnlyExtended`. A free adds one to a slot's count because the freed places are
held and held places have distinct slots (`NoSlotShared`); a write to the table or
to a KV slot touches no other request's cached columns because rows are not
shared (`NoRowShared`) and slots come from the free list (`NoSlotShared`); the new
entries encode the right prefix because the old ones did (`CachedKvValid`); an
evaluated request has a row because the extend before it left one
(`EvalSeesAskedLength`). `CleanStaleInv`, `EvalCandidatesInv` and `ExtendInv` are the
three actions that change tables; `ExtendTables` describes column by column what
an extend writes, and the lemmas on sequences, free lists and table writes are
stated once.

`LvmStoreProofs` proves `Implements`: `LvmKvPool` implements `LvmPrefixStore`
(`ImplementsStore`), for pools that are finite (`PoolsFinite`), any requests, tokens and
bounds. The cached prefixes are what the KV encodes; `IInv` and the effect of each action
on them (`ExtendInv`, `EvalCandidatesInv`) give the steps. What is left is room. The held
places and the used slots correspond one to one (`NoSlotShared`, `NoLeak`), so the free
slots are the pool's size less the cached tokens (`HeldCount`, `FreeCount`); a set of places
can be given distinct free slots if and only if there are as many (`AllocationFits`); so an
evaluation is refused exactly when the store has no room for it (`CandidatesFit`), and
however requests came and went, no room was lost.

`TokenizerManagerProofs` proves, for every finite set of requests and all bounds, from
`TokenizerAssumption`: `TypeCorrect`, `UpdatesExclusive` (`UpdateExcludesAnswers`),
`AbortsFindState` (`AbortFindsState`) and `StatesOwned` (`OwnedByState`). They follow from
`Invariance`, whose `IInv` has three parts beyond the types.

- `LockExact`: `_readers` is the number of coroutines inside, `_writer_active` says
  whether the updater is, and not both. A reader enters only past an inactive writer and a
  writer only past zero readers, so exclusion needs no more than exact counters.
- `OneUpdate`: at most one update or result is in the queues, and only while the updater
  waits for it; so a result never finds the updater elsewhere.
- `Placed`: a request that was sent is in one place, on its way to the scheduler, in it,
  or on its way back, dropped or finished, and until its last message is handled its state
  is in `rid_to_state`, unfinished and without a cleanup. Two ways back that overtake each
  other are harmless because one request never uses both. `StillPlaced` is the argument
  for the steps that do not move the request, with the queues shifted; `SendPlaced`,
  `OutputPlaced`, `AbortPlaced`, `DropPlaced`, `ReceivePlaced` and `RunPlaced` are the steps
  that do. Its weak point is uniqueness of rids, which `Send` assumes: the code does not
  check it.

`GuidedDecodeProofs` proves, for both loops and any requests, tokens, prompts and bounds,
from `DecodeAssumption`: `TypeCorrect`, `RequestsScheduledOnce` (`ScheduledOnce`),
`ContextLagsOneToken` (`LagsOneToken`) and the action property `EveryPassOneToken`
(`OneTokenPerPass`). `IInv` has four parts beyond the types.

- `QueueShape`: the results that wait are those of `last_batch` (with overlap) and of the
  batch that has just run, in this order; so one is processed for the batch it belongs to.
- `Placement`: where a request can be, between the steps of an iteration too, and that the
  chunked request is exactly what the current batch prefills in part.
- `Pending`: what a batch may meet when its result arrives late: a request retracted since
  is in the queue and marked, and `is_chunked` counts the partial prefills that are still
  to be processed. That is why the late decision by `is_chunked` is the right one.
- `Contexts`: what is kept with a request and what the LenVM has cached are beginnings of
  its text, which only grows. Nothing compares them but by length; `Incremental`,
  `ResumeBegin` and `PrefixIsText` show that a beginning and a length are enough.

`LagsOneToken` follows since a request has at most one unprocessed token when it is asked
for (`OneInFlight`). Its weak point is again a rid that is used once.

`GuidedSamplerProofs` proves `GuidedWithinFilters` (`Spec => []GuidedRowsFiltered`) for any
rows and tokens: what the guided rows were given is part of what their filters leave, and stays so
when the other rows of the batch are sampled.

`LengthControlProofs` proves, for any numbers of candidates, lengths, targets and new
tokens, from `LengthAssumption` (`Cap` is a representable length, at least one token may be
generated), for both loops: `TypeCorrect`, `LoopsFindBest` (`ScanFindsBest`), `NotTooShort`
(`AtLeastKept`), `BudgetNotOverrun` (`StopsAtBudget`), and for the normal loop the action
property `CloserToTarget` (`NeverFarther`). The loops are a recursive function; what they compute is shown by least
counterexample: a loop of n passes exists for every n (`RunExists`), and after each pass
the candidate held is at least as good as all before it (`RunFindsBest`), since a least n
for which it is not would contradict the pass before. `Inv` then says what was `Offered`
and that `excused` records every pass that had only EOS or was not guided; that under
"ge" an unexcused EOS that is still pending lies late enough (`PendingLate`), so that
`AtLeastKept` survives its late append; and that the token at position `due` is EOS
(`DueIsEos`), whether pending or appended, so that nothing after it counts. The lag is
where the proofs are tight: `output_ids` lacks at most `Lag` tokens, so nothing is owed
once `target + Lag` were sampled, and with overlap `target` would not do.

`DataGenProofs` proves, for any numbers of questions, answers, concurrent requests,
retries, batches and restarts, from `DataGenAssumption`: `TypeCorrect` and
`BufferStaysFull` (`Saturated`); and, for `Tears` without `"split"`, `NoAnswerTooMany`
(`NeverTooMany`), `EveryAnswerSaved` (`NothingLost`) and the action property `CountsAll`
(`CountsProcessed`). Without that proviso the scan miscounts, which is the finding of
`datagen_split`: bytes that cannot be decoded are the only way to it. `IInv` is

- `Tracked`: a task is in `pending` or `done`, was yielded (its number lies above what is
  `needed`), and a failed one has set `lost`;
- `Left`: what each place of `process_dataset` can find in batch, `done` and `pending`;
- `Supply`: there are `max_concurrency` tasks in `pending` and `done` together while
  tasks are left, one fewer after a task was handled and before the save that follows it
  refilled the buffer; `Saturated` alone is not inductive, as `done` is still full of
  finished tasks that count for nothing when the next `wait` begins;
- `Complete`: without failures saved, batched, running and needed answers are enough.

`Accounted` adds that every line can be decoded, that they are not too many, and what
was grouped. The counting is in lemmas: what a write, whole or cut short, adds to the
records of a question (`WrittenEffect`, `TornEffect`), that n calls of the generator
yield n tasks or all there are (`FirstOnes`, by the ranks of tasks in the order), the upper
end of each question's row (`FirstOfRow`), and so leave every question's sum as it was
(`CreateEffect`, `RefillEffect`).

`TreeServeProofs` proves every safety property of the `serve` run, in both event loops and
for any finite set of requests, any jobs, pool, number of rows and chunk size: `TypeCorrect`,
`NoSlotLost` (`SlotsAccounted`), `LocksCount` (`LocksExact`), `CacheIsHonest` (`CacheHonest`),
`AnswersAreRight` (`AnswersRight`) and `AdmittedCanRun` (`AdmittedFits`). The assumptions are
that a job is a text shorter than the pool with its prefix a proper part of it (`JobsFit`,
`JobTypes`: `max_req_input_len` and the validation of `tree_value` requests), that the sizes
are positive (`Sizes`), and that requests are finitely many and named apart from the other
names (`ReqNames`). None of the six is inductive. `Inductive` proves `IInv`, from which they follow:

- `Shape`: the tree is closed under prefixes and each token has one owner, the node in whose
  segment it lies: where two texts part there is a node. Without it a split could take the
  lock count of the wrong child. `Exact`: the counters count the tokens whose owner is
  unlocked, and the others;
- `HoldersOK`: a holder's node lies on the way to its own text, before the candidates and
  before the last token it computes; its row begins with the node's slots and holds, slot by
  slot, the request's text (`TextOf`), and with the last token came the expected value;
- `SlotsOK`: slots are free, cached, or owned by one request past its node, as in
  `SlotsAccounted`, for all requests and with the places of a row distinct;
- `LocksOK`: the locks of a node are the holders whose nodes are at or below it;
- `ResultsOK`, `Counted`: which batches are open in which loop, and that `is_chunked` counts
  the open batches that do not end the request, so that the last result and no other
  finishes it;
- `ChunkedOK`, `Reserved`: only the chunked request is cut short, then the chunk is used
  up, and what the adder promised, with what the chunked request still needs, is less than
  what is free or evictable. So a chunked request can always go on;
- `BatchOK`, `RestOK`, `RowsOK`: the batch has no request twice and no row yet, requests
  that hold nothing have nothing, rows are free or in use.

The lemmas on the tree come first and know nothing of requests: what `Split`, `match_prefix`,
`insert`, `inc_lock_ref`, `dec_lock_ref` and `Evicted` do to the shape, the unlocked tokens and
the counters (`SplitEffect` to `EvictEffect`), from `KeyLenCounts`: a node's key length is
the number of tokens it owns. Then locks (`LocksNewNodes`, `LocksInc`, `LocksDec`,
`LockedStays`: what a holder needs is not evicted), the layout of a batch's new slots
(`Layout`, `LowestPicks`), and texts (`ContentIs`: a token attends to its own text if the prefix is
what the cache says). A finished request and a stashed one give up their rows alike
(`Release`); a launch is an eviction (`EvictKeeps`, `EvictRoom`) and an allocation
(`SlotsAlloc`, `LaunchedHolder`).

Only model-checked: liveness, which with `ENABLED` is
out of the prover's reach. Induction over data is, too, where it takes an induction theorem
of the library; the proofs above use the least-number principle instead (`LeastNumber`).

## 5. What is not modelled

The repository vendors two frameworks; the modelled code is under one percent of its
half million lines. The rest is upstream SGLang and LlamaFactory (kernels, model
definitions, web interface, gateway, distributed and disaggregated modes, benchmark
and conversion tools), which keeps no state the LenVM work depends on beyond the paths
above, and numerical code. In particular not modelled:

- allocation with `page_size > 1` and multimodal positions;
- in the value server: requests that do not fit the pool, which the handlers queue although
  their length check failed, and the split of a node by the prefix match of a request that
  is then refused (the tokens and their slots stay the same);
- `TreeValueSpecInput.filter_batch` and `merge_batch`: a prefill-only batch is never merged into
  the running batch nor filtered in part;
- in the tokenizer manager: request batches, parallel sampling, sessions, LoRA,
  `flush_cache=False`, the other pause modes, several tokenizer workers; chunks of a prefill
  (an aborted request ends with its next pass, in the code with its last chunk);
- in length control: ends other than EOS and `max_new_tokens`, and retraction;
- expectation guidance, the tilting root-finder, value heads, softmax and training, which are
  floating-point arithmetic; dataset download, prompts, images, plots.

Some hazards in `PROJECT.json` are observations that no property covers, each with its
reason. Those a maintainer may want to know: a rid that is used again before the next
sampled batch continues the LenVM cache of the old request; `cleanup_stale_rids` releases
requests that still decode but are not in the batch, which costs a recomputation;
`_handle_abort_req` never deletes a state; a tree_value request longer than the pool blocks
the queue; one at the head of the queue while another request is chunked ends the scheduler
with a TypeError; the generator keeps its semaphore slot during backoff, against its
comment; a failed save is only logged; and the downsampler's length check can pass for a
file that is not in equal blocks. LIFEBench's "add 1 to account for the EOS token" takes
`target_length` for a count that includes EOS, which `length_budget` shows it is not; the
answers are one token too long.

## 6. Plan

1. Done: `LvmKvPool`, `LvmPrefixStore`, `GuidedDecode`, `GuidedSampler`, `DataGen`, `RWLock`,
   `TokenizerManager`, `RadixCache`, `TreeServe`, `LengthControl`, and proofs of the safety
   properties of all of them.
2. `LvmKvPaged`: the allocator with `page_size > 1`; does freeing candidates or
   rolled-back slots free a page the live prefix shares (`allocator.py` l.430-444)?
